-------------------------- MODULE Activation_proofs --------------------------
(***************************************************************************)
(* Theorems about Activation, for any tasks of the client, any limits of   *)
(* codes and attempts, and any number of requests, codes, licenses and     *)
(* tokens.                                                                 *)
(***************************************************************************)
EXTENDS Activation, FiniteSetTheorems, SequenceTheorems, TLAPS

Request == [status: Statuses, code: Nat, open: Nat, approvals: Nat]
Code == [used: Nat, max: Nat]
License == [status: {"active", "revoked"}, live: SUBSET Nat, for: Ops \X Nat]
Handler == [by: Tasks \cup {None}, call: Call, phase: {"sent", "read"}, code: Nat]
Reply == [to: Tasks, ok: BOOLEAN, lic: Nat, token: Nat]

\* the code a request has been given exists
CodesKnown == \A r \in DOMAIN requests : requests[r].code \in 0 .. Len(codes)

\* what a call names exists at the server
Names(c) ==
  /\ c.op = "redeem" => c.of \in DOMAIN requests
  /\ c.op = "redeem_by_code" => c.of \in DOMAIN codes
  /\ c.op \in {"refresh", "revoke_check"} => c.lic \in DOMAIN licenses

\* a handler that is waited for works on the call its task waits for
HandlersOK ==
  \A h \in handlers :
    /\ Names(h.call)
    /\ h.by # None => calls[h.by] = h.call
    /\ h.code \in 0 .. Len(codes)
    /\ h.phase = "read" =>
         /\ h.call.op # "revoke_check"
         /\ h.call.op = "redeem_by_code" => h.code = h.call.of

ClientOK ==
  /\ \A t \in Tasks : calls[t] # None => Names(calls[t])
  /\ \A a \in answers : /\ calls[a.to] # None
                        /\ a.ok /\ Saving(a.to) => a.lic \in DOMAIN licenses
  /\ stored # None => stored.lic \in DOMAIN licenses

\* a call has one attempt, which is on its way, being handled or answered
OnePending ==
  /\ \A h, g \in handlers : h.by # None /\ h.by = g.by => h = g
  /\ \A a, b \in answers : a.to = b.to => a = b
  /\ \A h \in handlers, a \in answers : h.by # a.to

TypeInv == TypeOK /\ CodesKnown /\ HandlersOK /\ ClientOK /\ OnePending

LEMMA NoneFacts == None \notin Tasks /\ None \notin Call /\ None \notin [lic: Nat, token: Nat]
BY NoneAssumption

LEMMA InitTyped == Init => TypeInv
<1> SUFFICES ASSUME Init PROVE TypeInv
  OBVIOUS
<1>1. <<>> \in Seq(Request) /\ <<>> \in Seq(License) /\ <<>> \in Seq(Code)
  OBVIOUS
<1>2. TypeOK
  BY <1>1 DEF Init, TypeOK, Request, License, Code
<1>3. HandlersOK /\ ClientOK /\ OnePending /\ CodesKnown
  BY DEF Init, HandlersOK, ClientOK, OnePending, CodesKnown
<1> QED BY <1>2, <1>3 DEF TypeInv

-----------------------------------------------------------------------------
(* The tables of the server *)

Tables ==
  /\ requests \in Seq(Request) /\ codes \in Seq(Code) /\ licenses \in Seq(License)
  /\ minted \in Nat /\ CodesKnown

LEMMA TablesTyped == TypeInv => Tables
BY DEF TypeInv, TypeOK, Tables, Request, License, Code

\* rows are added and changed in place, never removed; a license stays with what
\* it was granted for, and a code keeps its limit
TablesKept ==
  /\ Tables'
  /\ Len(requests) <= Len(requests') /\ Len(licenses) <= Len(licenses') /\ minted <= minted'
  /\ Len(codes) <= Len(codes')
  /\ \A l \in DOMAIN licenses : licenses'[l].for = licenses[l].for
  /\ \A k \in DOMAIN codes : codes'[k].max = codes[k].max

LEMMA RequestChanged ==
  ASSUME Tables, NEW r \in DOMAIN requests, NEW row \in Request,
         requests' = [requests EXCEPT ![r] = row]
  PROVE  /\ requests' \in Seq(Request) /\ Len(requests') = Len(requests)
         /\ requests'[r] = row
         /\ \A q \in DOMAIN requests : q # r => requests'[q] = requests[q]
BY ExceptSeq DEF Tables

LEMMA CodeChanged ==
  ASSUME Tables, NEW k \in DOMAIN codes, NEW row \in Code,
         codes' = [codes EXCEPT ![k] = row]
  PROVE  /\ codes' \in Seq(Code) /\ Len(codes') = Len(codes)
         /\ codes'[k] = row
         /\ \A j \in DOMAIN codes : j # k => codes'[j] = codes[j]
BY ExceptSeq DEF Tables

LEMMA LicenseChanged ==
  ASSUME Tables, NEW l \in DOMAIN licenses, NEW row \in License,
         licenses' = [licenses EXCEPT ![l] = row]
  PROVE  /\ licenses' \in Seq(License) /\ Len(licenses') = Len(licenses)
         /\ licenses'[l] = row
         /\ \A k \in DOMAIN licenses : k # l => licenses'[k] = licenses[k]
BY ExceptSeq DEF Tables

LEMMA CodeAdded ==
  ASSUME Tables, NEW code \in Code, codes' = Append(codes, code)
  PROVE  /\ codes' \in Seq(Code) /\ Len(codes') = Len(codes) + 1
         /\ codes'[Len(codes) + 1] = code
         /\ \A k \in DOMAIN codes : codes'[k] = codes[k]
BY AppendProperties DEF Tables

\* the administrator and the requests of the device
Admin ==
  \/ CreateRequest \/ AdminInvite \/ AdminRevoke
  \/ \E r \in DOMAIN requests : Decide(r)

\* How the row of a request changes: it becomes approved as the last step of
\* somebody who has read it pending, it is rejected in any status, and it is
\* never pending again.
RowMoves(old, row, held, helds) ==
  \/ /\ old.status = "pending" /\ row.status = "pending" /\ row.approvals = old.approvals
     /\ row.open = old.open + 1 /\ (old.open = 0 \/ held \in helds)
  \/ /\ row.status = old.status /\ row.approvals = old.approvals
     /\ old.open > 0 /\ row.open = old.open - 1
  \/ /\ row.status = "approved" /\ row.approvals = old.approvals + 1
     /\ old.open > 0 /\ row.open = old.open - 1
  \/ row.status = "rejected" /\ row.approvals = old.approvals /\ row.open = old.open

\* what the administrator's steps do to the tables
RequestAdded ==
  /\ UNCHANGED <<codes, licenses, slipped>>
  /\ \E row \in Request :
       /\ requests' = Append(requests, row) /\ row.open = 0 /\ row.code = 0
       /\ \/ row.status = "pending" /\ row.approvals = 0
          \/ row.status = "approved" /\ row.approvals = 1

RequestDecided ==
  /\ licenses' = licenses
  /\ \/ codes' = codes
     \/ \E code \in Code : codes' = Append(codes, code) /\ code.used = 0
  /\ \E r \in DOMAIN requests : \E row \in Request :
       /\ requests' = [requests EXCEPT ![r] = row]
       /\ slipped' \in {slipped, slipped \cup {<<"approve", r>>}}
       /\ \/ row.code = requests[r].code
          \/ row.code = Len(codes) + 1 /\ Len(codes') = Len(codes) + 1
       /\ RowMoves(requests[r], row, <<"approve", r>>, slipped')

CodeInvited ==
  /\ UNCHANGED <<requests, licenses, slipped>>
  /\ \E code \in Code : codes' = Append(codes, code) /\ code.used = 0

LicenseRevoked ==
  /\ UNCHANGED <<requests, codes, slipped>>
  /\ \E l \in DOMAIN licenses :
       licenses' = [licenses EXCEPT ![l] = [licenses[l] EXCEPT !.status = "revoked"]]

LEMMA DecideRows ==
  ASSUME Tables, NEW r \in DOMAIN requests, Decide(r) PROVE RequestDecided
<1>0. requests[r] \in Request /\ Len(codes) \in Nat
  BY DEF Tables
<1>1. /\ requests[r].status \in Statuses /\ requests[r].code \in Nat /\ requests[r].open \in Nat
      /\ requests[r].approvals \in Nat
  BY <1>0 DEF Request
<1>2. CASE ReadPending(r)
  <2> DEFINE row == [requests[r] EXCEPT !.open = @ + 1]
  <2>1. /\ row \in Request /\ row.code = requests[r].code /\ row.status = requests[r].status
        /\ row.approvals = requests[r].approvals /\ row.open = requests[r].open + 1
    BY <1>0, <1>1 DEF Request
  <2>2. /\ requests' = [requests EXCEPT ![r] = row] /\ licenses' = licenses /\ codes' = codes
        /\ requests[r].open = 0 \/ <<"approve", r>> \in slipped'
        /\ slipped' \in {slipped, slipped \cup {<<"approve", r>>}}
        /\ requests[r].status = "pending"
    BY <1>2 DEF ReadPending
  <2> HIDE DEF row
  <2>3. RowMoves(requests[r], row, <<"approve", r>>, slipped')
    BY <2>1, <2>2 DEF RowMoves
  <2> QED BY <2>1, <2>2, <2>3 DEF RequestDecided
<1>3. CASE LeavePending(r)
  <2> DEFINE row == [requests[r] EXCEPT !.open = @ - 1]
  <2>1. /\ row \in Request /\ row.code = requests[r].code /\ row.status = requests[r].status
        /\ row.approvals = requests[r].approvals /\ row.open = requests[r].open - 1
    BY <1>0, <1>1, <1>3 DEF Request, LeavePending
  <2>2. /\ requests' = [requests EXCEPT ![r] = row] /\ licenses' = licenses /\ codes' = codes
        /\ slipped' = slipped /\ requests[r].open > 0
    BY <1>3 DEF LeavePending, ghosts
  <2> HIDE DEF row
  <2>3. RowMoves(requests[r], row, <<"approve", r>>, slipped')
    BY <2>1, <2>2 DEF RowMoves
  <2> QED BY <2>1, <2>2, <2>3 DEF RequestDecided
<1>4. ASSUME NEW code \in Nat, requests[r].open > 0
      PROVE  /\ Approved(r, code) \in Request /\ Approved(r, code).code = code
             /\ RowMoves(requests[r], Approved(r, code), <<"approve", r>>, slipped')
  <2>1. "approved" \in Statuses /\ requests[r].open - 1 \in Nat /\ requests[r].approvals + 1 \in Nat
    BY <1>1, <1>4 DEF Statuses
  <2>2. /\ Approved(r, code) \in Request /\ Approved(r, code).code = code
        /\ Approved(r, code).status = "approved"
        /\ Approved(r, code).approvals = requests[r].approvals + 1
        /\ Approved(r, code).open = requests[r].open - 1
    BY <1>0, <1>1, <2>1 DEF Request, Approved
  <2> QED BY <1>4, <2>2 DEF RowMoves
<1>5. CASE QuotaApprove(r)
  <2>1. /\ requests' = [requests EXCEPT ![r] = Approved(r, requests[r].code)]
        /\ licenses' = licenses /\ codes' = codes /\ slipped' = slipped /\ requests[r].open > 0
    BY <1>5 DEF QuotaApprove, ghosts
  <2> QED BY <1>1, <1>4, <2>1 DEF RequestDecided
<1>6. CASE AdminApprove(r)
  <2> DEFINE code == [used |-> 0, max |-> 1]
  <2>1. code \in Code /\ code.used = 0
    BY DEF Code
  <2>2. /\ requests' = [requests EXCEPT ![r] = Approved(r, Len(codes) + 1)]
        /\ licenses' = licenses /\ codes' = Append(codes, code) /\ slipped' = slipped
        /\ requests[r].open > 0
    BY <1>6 DEF AdminApprove, ghosts
  <2> HIDE DEF code
  <2>3. Len(codes') = Len(codes) + 1 /\ Len(codes) + 1 \in Nat
    BY <1>0, <2>1, <2>2, CodeAdded
  <2> QED BY <1>4, <2>1, <2>2, <2>3 DEF RequestDecided
<1>7. CASE AdminReject(r)
  <2> DEFINE row == [requests[r] EXCEPT !.status = "rejected"]
  <2>1. /\ row \in Request /\ row.code = requests[r].code /\ row.status = "rejected"
        /\ row.approvals = requests[r].approvals /\ row.open = requests[r].open
    BY <1>0, <1>1 DEF Request, Statuses
  <2>2. /\ requests' = [requests EXCEPT ![r] = row] /\ licenses' = licenses /\ codes' = codes
        /\ slipped' = slipped
    BY <1>7 DEF AdminReject, ghosts
  <2> HIDE DEF row
  <2>3. RowMoves(requests[r], row, <<"approve", r>>, slipped')
    BY <2>1 DEF RowMoves
  <2> QED BY <2>1, <2>2, <2>3 DEF RequestDecided
<1> QED BY <1>2, <1>3, <1>5, <1>6, <1>7 DEF Decide

LEMMA AdminRows ==
  ASSUME Tables, Admin
  PROVE  RequestAdded \/ RequestDecided \/ CodeInvited \/ LicenseRevoked
<1>1. CASE CreateRequest
  <2>1. PICK s \in {"pending", "approved"} :
          requests' = Append(requests, [status |-> s, code |-> 0, open |-> 0,
                                        approvals |-> IF s = "approved" THEN 1 ELSE 0])
    BY <1>1 DEF CreateRequest
  <2> DEFINE row == [status |-> s, code |-> 0, open |-> 0,
                     approvals |-> IF s = "approved" THEN 1 ELSE 0]
  <2>2. /\ row \in Request /\ row.open = 0 /\ row.code = 0
        /\ \/ row.status = "pending" /\ row.approvals = 0
           \/ row.status = "approved" /\ row.approvals = 1
    <3>1. CASE s = "pending"
      BY <3>1 DEF Request, Statuses
    <3>2. CASE s = "approved"
      BY <3>2 DEF Request, Statuses
    <3> QED BY <3>1, <3>2
  <2> HIDE DEF row
  <2>3. requests' = Append(requests, row)
    BY <2>1 DEF row
  <2> QED BY <1>1, <2>2, <2>3 DEF CreateRequest, RequestAdded, ghosts
<1>2. CASE AdminInvite
  <2>1. PICK m \in 1 .. MaxUses : codes' = Append(codes, [used |-> 0, max |-> m])
    BY <1>2 DEF AdminInvite
  <2>2. [used |-> 0, max |-> m] \in Code
    BY BoundAssumption DEF Code
  <2> QED BY <1>2, <2>1, <2>2 DEF AdminInvite, CodeInvited, ghosts
<1>3. CASE AdminRevoke
  <2>1. PICK l \in DOMAIN licenses : licenses' = [licenses EXCEPT ![l].status = "revoked"]
    BY <1>3 DEF AdminRevoke
  <2>2. licenses' = [licenses EXCEPT ![l] = [licenses[l] EXCEPT !.status = "revoked"]]
    BY <2>1
  <2> QED BY <1>3, <2>2 DEF AdminRevoke, LicenseRevoked, ghosts
<1> QED BY <1>1, <1>2, <1>3, DecideRows DEF Admin

LEMMA AdminUnchanged ==
  Admin => /\ UNCHANGED <<minted, handlers, answers, stored, calls, dropped, lost>>
           /\ slipped \subseteq slipped'
<1>1. ASSUME NEW r, Decide(r)
      PROVE  /\ UNCHANGED <<minted, handlers, answers, stored, calls, dropped, lost>>
             /\ slipped \subseteq slipped'
  BY <1>1 DEF Decide, ReadPending, LeavePending, QuotaApprove, AdminApprove, AdminReject,
              network, client, ghosts
<1>2. CreateRequest \/ AdminInvite \/ AdminRevoke =>
        UNCHANGED <<minted, handlers, answers, stored, calls, dropped, lost, slipped>>
  BY DEF CreateRequest, AdminInvite, AdminRevoke, network, client, ghosts
<1> QED BY <1>1, <1>2 DEF Admin

\* the code tables of the administrator's steps
LEMMA AdminTables ==
  ASSUME Tables, Admin
  PROVE  /\ TablesKept
         /\ \A k \in DOMAIN codes : codes'[k] = codes[k]
         /\ \A k \in DOMAIN codes' \ DOMAIN codes : codes'[k].used = 0
<1>0. minted' = minted
  BY AdminUnchanged
<1>1. ASSUME NEW code \in Code, codes' = Append(codes, code), code.used = 0
      PROVE  /\ \A k \in DOMAIN codes : codes'[k] = codes[k]
             /\ \A k \in DOMAIN codes' \ DOMAIN codes : codes'[k].used = 0
             /\ codes' \in Seq(Code) /\ Len(codes') = Len(codes) + 1 /\ Len(codes) \in Nat
  <2>1. /\ codes' \in Seq(Code) /\ Len(codes') = Len(codes) + 1 /\ Len(codes) \in Nat
        /\ codes'[Len(codes) + 1] = code
        /\ \A k \in DOMAIN codes : codes'[k] = codes[k]
    BY <1>1, CodeAdded DEF Tables
  <2>2. DOMAIN codes' = 1 .. (Len(codes) + 1) /\ DOMAIN codes = 1 .. Len(codes)
    BY <2>1 DEF Tables
  <2> QED BY <1>1, <2>1, <2>2
<1>2. CASE RequestAdded
  <2>1. PICK row \in Request : requests' = Append(requests, row) /\ row.code = 0
    BY <1>2 DEF RequestAdded
  <2>2. /\ requests' \in Seq(Request) /\ Len(requests') = Len(requests) + 1
        /\ requests'[Len(requests) + 1] = row
        /\ \A r \in DOMAIN requests : requests'[r] = requests[r]
        /\ DOMAIN requests' = DOMAIN requests \cup {Len(requests) + 1}
    BY <2>1, AppendProperties DEF Tables
  <2>3. UNCHANGED <<codes, licenses>>
    BY <1>2 DEF RequestAdded
  <2>4. CodesKnown'
    BY <2>1, <2>2, <2>3 DEF CodesKnown, Tables
  <2> QED BY <1>0, <2>2, <2>3, <2>4 DEF Tables, TablesKept
<1>3. CASE RequestDecided
  <2>1. PICK r \in DOMAIN requests, row \in Request :
          /\ requests' = [requests EXCEPT ![r] = row]
          /\ \/ row.code = requests[r].code
             \/ row.code = Len(codes) + 1 /\ Len(codes') = Len(codes) + 1
    BY <1>3 DEF RequestDecided
  <2>2. /\ requests' \in Seq(Request) /\ Len(requests') = Len(requests) /\ requests'[r] = row
        /\ \A q \in DOMAIN requests : q # r => requests'[q] = requests[q]
    BY <2>1, RequestChanged
  <2>3. licenses' = licenses
    BY <1>3 DEF RequestDecided
  <2>4. /\ codes' \in Seq(Code) /\ Len(codes) <= Len(codes') /\ Len(codes) \in Nat
        /\ \A k \in DOMAIN codes : codes'[k] = codes[k]
        /\ \A k \in DOMAIN codes' \ DOMAIN codes : codes'[k].used = 0
    <3>1. CASE codes' = codes
      BY <3>1 DEF Tables
    <3>2. CASE \E code \in Code : codes' = Append(codes, code) /\ code.used = 0
      BY <1>1, <3>2
    <3> QED BY <1>3, <3>1, <3>2 DEF RequestDecided
  <2>5. DOMAIN requests' = DOMAIN requests /\ Len(codes') \in Nat
    BY <2>2, <2>4 DEF Tables
  <2>6. CodesKnown'
    <3>1. \A q \in DOMAIN requests : requests[q].code \in 0 .. Len(codes)
      BY DEF Tables, CodesKnown
    <3>2. requests'[r].code \in 0 .. Len(codes')
      BY <2>1, <2>2, <2>4, <2>5, <3>1
    <3>3. \A q \in DOMAIN requests : q # r => requests'[q].code \in 0 .. Len(codes')
      BY <2>2, <2>4, <2>5, <3>1
    <3> QED BY <2>5, <3>2, <3>3 DEF CodesKnown
  <2> QED BY <1>0, <2>2, <2>3, <2>4, <2>6 DEF Tables, TablesKept
<1>4. CASE CodeInvited
  <2>1. /\ codes' \in Seq(Code) /\ Len(codes') = Len(codes) + 1 /\ Len(codes) \in Nat
        /\ \A k \in DOMAIN codes : codes'[k] = codes[k]
        /\ \A k \in DOMAIN codes' \ DOMAIN codes : codes'[k].used = 0
    BY <1>1, <1>4 DEF CodeInvited
  <2>2. UNCHANGED <<requests, licenses>>
    BY <1>4 DEF CodeInvited
  <2>3. CodesKnown'
    BY <2>1, <2>2 DEF CodesKnown, Tables
  <2> QED BY <1>0, <2>1, <2>2, <2>3 DEF Tables, TablesKept
<1>5. CASE LicenseRevoked
  <2>1. PICK l \in DOMAIN licenses :
          licenses' = [licenses EXCEPT ![l] = [licenses[l] EXCEPT !.status = "revoked"]]
    BY <1>5 DEF LicenseRevoked
  <2>2. licenses[l] \in License
    BY DEF Tables
  <2>3. /\ [licenses[l] EXCEPT !.status = "revoked"] \in License
        /\ [licenses[l] EXCEPT !.status = "revoked"].for = licenses[l].for
    BY <2>2 DEF License
  <2>4. /\ licenses' \in Seq(License) /\ Len(licenses') = Len(licenses)
        /\ licenses'[l].for = licenses[l].for
        /\ \A k \in DOMAIN licenses : k # l => licenses'[k] = licenses[k]
    BY <2>1, <2>3, LicenseChanged
  <2>5. UNCHANGED <<requests, codes>>
    BY <1>5 DEF LicenseRevoked
  <2>6. CodesKnown'
    BY <2>5 DEF CodesKnown, Tables
  <2>7. Tables'
    BY <1>0, <2>4, <2>5, <2>6 DEF Tables
  <2>8. \A k \in DOMAIN licenses : licenses'[k].for = licenses[k].for
    BY <2>4
  <2>9. Len(licenses) <= Len(licenses') /\ Len(licenses) \in Nat
    BY <2>4 DEF Tables
  <2> QED BY <1>0, <2>5, <2>7, <2>8, <2>9 DEF Tables, TablesKept
<1> QED BY <1>2, <1>3, <1>4, <1>5, AdminRows

\* what a handler of the server works on exists
LEMMA HandlerNames ==
  ASSUME TypeInv, NEW h \in handlers
  PROVE  /\ Tables /\ h \in Handler /\ h.call \in Call /\ h.code \in 0 .. Len(codes)
         /\ h.code # 0 => h.code \in DOMAIN codes
         /\ h.call.op = "redeem" => h.call.of \in DOMAIN requests
         /\ h.call.op = "redeem_by_code" =>
              h.call.of \in DOMAIN codes /\ (h.phase = "read" => h.code = h.call.of)
         /\ h.call.op \in {"refresh", "revoke_check"} => h.call.lic \in DOMAIN licenses
<1>1. Tables /\ h \in Handler
  BY TablesTyped DEF TypeInv, TypeOK, Handler
<1>2. h.code \in 0 .. Len(codes) /\ DOMAIN codes = 1 .. Len(codes) /\ Len(codes) \in Nat
  BY <1>1 DEF TypeInv, HandlersOK, Tables
<1> QED BY <1>1, <1>2 DEF TypeInv, HandlersOK, Names, Handler

\* A redemption marks its request, if it can.
LEMMA RedeemRequests ==
  ASSUME TypeInv, NEW h \in handlers, CommitRedeem(h)
  PROVE  /\ requests' \in Seq(Request) /\ Len(requests') = Len(requests)
         /\ \A q \in DOMAIN requests :
              \/ requests'[q] = requests[q]
              \/ /\ requests'[q].status = "redeemed" /\ requests'[q].code = requests[q].code
                 /\ requests'[q].approvals = requests[q].approvals
                 /\ requests'[q].open = requests[q].open
         /\ h.call.op = "redeem" /\ Grant(h.call) \notin slipped' =>
              requests'[h.call.of].status = "redeemed"
<1> DEFINE r == h.call.of
           row == [requests[r] EXCEPT !.status = "redeemed"]
<1>1. Tables /\ (h.call.op = "redeem" => r \in DOMAIN requests)
  BY HandlerNames
<1>2. \/ requests' = requests /\ (h.call.op = "redeem" => Grant(h.call) \in slipped')
      \/ h.call.op = "redeem" /\ requests' = [requests EXCEPT ![r] = row]
  BY DEF CommitRedeem
<1>3. CASE h.call.op = "redeem" /\ requests' = [requests EXCEPT ![r] = row]
  <2>1. requests[r] \in Request
    BY <1>1, <1>3 DEF Tables
  <2>2. /\ row \in Request /\ row.status = "redeemed" /\ row.code = requests[r].code
        /\ row.approvals = requests[r].approvals /\ row.open = requests[r].open
    BY <2>1 DEF Request, Statuses
  <2> HIDE DEF row, r
  <2>3. /\ requests' \in Seq(Request) /\ Len(requests') = Len(requests) /\ requests'[r] = row
        /\ \A q \in DOMAIN requests : q # r => requests'[q] = requests[q]
    BY <1>1, <1>3, <2>2, RequestChanged
  <2> QED BY <2>2, <2>3 DEF r
<1>4. CASE requests' = requests /\ (h.call.op = "redeem" => Grant(h.call) \in slipped')
  BY <1>1, <1>4 DEF Tables
<1> QED BY <1>2, <1>3, <1>4

\* It counts a use of the code while some are left, if it can.
LEMMA RedeemCodes ==
  ASSUME TypeInv, NEW h \in handlers, CommitRedeem(h)
  PROVE  /\ codes' \in Seq(Code) /\ Len(codes') = Len(codes)
         /\ \A j \in DOMAIN codes :
              \/ codes'[j] = codes[j]
              \/ /\ codes[j].used < codes[j].max
                 /\ codes'[j].used = codes[j].used + 1 /\ codes'[j].max = codes[j].max
         /\ h.call.op = "redeem_by_code" /\ Grant(h.call) \notin slipped'
              /\ codes[h.call.of].used < codes[h.call.of].max
                => codes'[h.call.of].used = codes[h.call.of].used + 1
<1> DEFINE k == h.code
           row == [codes[k] EXCEPT !.used = @ + 1]
           Left == k # 0 /\ codes[k].used < codes[k].max
<1>1. /\ Tables /\ (k # 0 => k \in DOMAIN codes)
      /\ h.call.op = "redeem_by_code" => k = h.call.of /\ k # 0
  <2>1. h.phase = "read"
    BY DEF CommitRedeem
  <2>2. Tables /\ 0 \notin DOMAIN codes
    BY HandlerNames DEF Tables
  <2> QED BY <2>1, <2>2, HandlerNames
<1>2. \/ codes' = codes /\ (h.call.op = "redeem_by_code" => ~Left \/ Grant(h.call) \in slipped')
      \/ Left /\ codes' = [codes EXCEPT ![k] = row]
  <2>1. PICK counted \in BOOLEAN, marked \in BOOLEAN :
          /\ codes' = IF counted /\ Left THEN [codes EXCEPT ![k].used = @ + 1] ELSE codes
          /\ slipped' = IF (IF h.call.op = "redeem" THEN marked ELSE counted)
                        THEN slipped ELSE slipped \cup {Grant(h.call)}
    BY DEF CommitRedeem
  <2> HIDE DEF Left
  <2>2. CASE counted /\ Left
    BY <2>1, <2>2 DEF Left
  <2>3. CASE ~(counted /\ Left)
    BY <2>1, <2>3
  <2> QED BY <2>2, <2>3
<1>3. CASE Left /\ codes' = [codes EXCEPT ![k] = row]
  <2>1. codes[k] \in Code /\ k \in DOMAIN codes
    BY <1>1, <1>3 DEF Tables
  <2>2. row \in Code /\ row.used = codes[k].used + 1 /\ row.max = codes[k].max
    BY <2>1 DEF Code
  <2> HIDE DEF row
  <2>3. /\ codes' \in Seq(Code) /\ Len(codes') = Len(codes) /\ codes'[k] = row
        /\ \A j \in DOMAIN codes : j # k => codes'[j] = codes[j]
    BY <1>1, <1>3, <2>1, <2>2, CodeChanged
  <2>4. /\ codes[k].used < codes[k].max
        /\ codes'[k].used = codes[k].used + 1 /\ codes'[k].max = codes[k].max
    BY <1>3, <2>2, <2>3
  <2>5. h.call.op = "redeem_by_code" => codes'[h.call.of].used = codes[h.call.of].used + 1
    BY <1>1, <2>4
  <2> HIDE DEF k
  <2> QED BY <2>3, <2>4, <2>5
<1>4. CASE codes' = codes /\ (h.call.op = "redeem_by_code" => ~Left \/ Grant(h.call) \in slipped')
  <2>1. h.call.op = "redeem_by_code" /\ codes[h.call.of].used < codes[h.call.of].max => Left
    BY <1>1
  <2> HIDE DEF Left, k
  <2>2. codes' \in Seq(Code) /\ Len(codes') = Len(codes)
    BY <1>1, <1>4 DEF Tables
  <2> QED BY <1>4, <2>1, <2>2
<1> QED BY <1>2, <1>3, <1>4

LEMMA RedeemTables ==
  ASSUME TypeInv, NEW h \in handlers, CommitRedeem(h)
  PROVE  /\ TablesKept
         /\ slipped' \in {slipped, slipped \cup {Grant(h.call)}}
         /\ Len(licenses') = Len(licenses) + 1
         /\ \A l \in DOMAIN licenses : licenses'[l] = licenses[l]
         /\ licenses'[Len(licenses) + 1] =
              [status |-> "active", live |-> {minted + 1}, for |-> Grant(h.call)]
         /\ minted' = minted + 1
<1> DEFINE lic == [status |-> "active", live |-> {minted + 1}, for |-> Grant(h.call)]
<1>1. Tables /\ h.call \in Call
  BY HandlerNames
<1>2. lic \in License
  BY <1>1 DEF License, Grant, Call, Tables
<1>3. /\ licenses' = Append(licenses, lic) /\ minted' = minted + 1
      /\ slipped' \in {slipped, slipped \cup {Grant(h.call)}}
  BY DEF CommitRedeem
<1>4. /\ licenses' \in Seq(License) /\ Len(licenses') = Len(licenses) + 1
      /\ \A l \in DOMAIN licenses : licenses'[l] = licenses[l]
      /\ licenses'[Len(licenses) + 1] = lic
  BY <1>1, <1>2, <1>3, AppendProperties DEF Tables
<1>5. CodesKnown'
  <2>1. \A q \in DOMAIN requests : requests'[q].code = requests[q].code
    BY RedeemRequests
  <2>2. DOMAIN requests' = DOMAIN requests /\ Len(codes') = Len(codes)
    BY <1>1, RedeemRequests, RedeemCodes DEF Tables
  <2> QED BY <1>1, <2>1, <2>2 DEF CodesKnown, Tables
<1>6. /\ requests' \in Seq(Request) /\ Len(requests') = Len(requests) /\ Len(requests) \in Nat
      /\ codes' \in Seq(Code) /\ Len(codes') = Len(codes) /\ Len(codes) \in Nat
      /\ \A k \in DOMAIN codes : codes'[k].max = codes[k].max
  BY <1>1, RedeemRequests, RedeemCodes DEF Tables
<1>7. TablesKept
  BY <1>1, <1>3, <1>4, <1>5, <1>6 DEF Tables, TablesKept
<1> QED BY <1>3, <1>4, <1>7

\* a refresh takes its token out and puts the new one in
LEMMA RefreshTables ==
  ASSUME TypeInv, NEW h \in handlers, CommitRefresh(h)
  PROVE  LET l == h.call.lic IN
    /\ TablesKept
    /\ l \in DOMAIN licenses /\ Len(licenses') = Len(licenses)
    /\ requests' = requests /\ codes' = codes
    /\ \A k \in DOMAIN licenses : k # l => licenses'[k] = licenses[k]
    /\ licenses'[l].live = (licenses[l].live \ {h.call.token}) \cup {minted + 1}
    /\ minted' = minted + 1
<1> DEFINE l == h.call.lic
           row == [licenses[l] EXCEPT !.live = (@ \ {h.call.token}) \cup {minted + 1}]
<1>1. Tables /\ l \in DOMAIN licenses
  BY HandlerNames DEF CommitRefresh
<1>2. licenses[l] \in License
  BY <1>1 DEF Tables
<1>3. /\ row \in License /\ row.for = licenses[l].for
      /\ row.live = (licenses[l].live \ {h.call.token}) \cup {minted + 1}
  <2>1. (licenses[l].live \ {h.call.token}) \cup {minted + 1} \in SUBSET Nat
    BY <1>1, <1>2 DEF License, Tables
  <2> QED BY <1>2, <2>1 DEF License
<1>4. licenses' = [licenses EXCEPT ![l] = row] /\ minted' = minted + 1
      /\ requests' = requests /\ codes' = codes
  BY DEF CommitRefresh
<1>5. /\ licenses' \in Seq(License) /\ Len(licenses') = Len(licenses) /\ licenses'[l] = row
      /\ \A k \in DOMAIN licenses : k # l => licenses'[k] = licenses[k]
  BY <1>1, <1>3, <1>4, LicenseChanged
<1>6. TablesKept
  BY <1>1, <1>3, <1>4, <1>5 DEF Tables, TablesKept, CodesKnown
<1> QED BY <1>1, <1>3, <1>4, <1>5, <1>6

\* steps that write no table of the server
LEMMA TablesStay ==
  ASSUME Tables, UNCHANGED <<requests, codes, licenses>>, minted' \in {minted, minted + 1}
  PROVE  TablesKept
BY DEF Tables, TablesKept, CodesKnown

LEMMA NamesStay ==
  ASSUME Tables, TablesKept, NEW c \in Call, Names(c) PROVE Names(c)'
BY DEF Tables, TablesKept, Names

-----------------------------------------------------------------------------
(* Types *)

\* the parts of the type invariant that a step must keep
LEMMA TypeParts ==
  ASSUME Tables', handlers' \subseteq Handler, answers' \subseteq Reply,
         stored' \in [lic: Nat, token: Nat] \cup {None}, calls' \in [Tasks -> Call \cup {None}],
         slipped' \subseteq (Ops \cup {"approve"}) \X Nat, dropped' \subseteq Nat, lost' \in BOOLEAN
  PROVE  TypeOK' /\ CodesKnown'
BY DEF TypeOK, Tables, Request, Code, License, Handler, Reply

LEMMA NetworkTyped ==
  ASSUME TypeInv
  PROVE  /\ handlers \subseteq Handler /\ answers \subseteq Reply /\ Tables
         /\ calls \in [Tasks -> Call \cup {None}] /\ dropped \subseteq Nat
         /\ slipped \subseteq (Ops \cup {"approve"}) \X Nat /\ lost \in BOOLEAN
         /\ stored \in [lic: Nat, token: Nat] \cup {None}
BY TablesTyped DEF TypeInv, TypeOK, Handler, Reply

LEMMA AnswerTyped ==
  ASSUME NEW h \in Handler, NEW ok \in BOOLEAN, NEW lic \in Nat, NEW token \in Nat
  PROVE  /\ Answer(h, ok, lic, token) \subseteq Reply
         /\ \A a \in Answer(h, ok, lic, token) :
              h.by # None /\ a = [to |-> h.by, ok |-> ok, lic |-> lic, token |-> token]
BY DEF Answer, Handler, Reply

\* a handler ends, and answers if it is waited for
LEMMA HandlerEnds ==
  ASSUME TypeInv, TablesKept, NEW h \in handlers,
         NEW ok \in BOOLEAN, NEW lic \in Nat, NEW token \in Nat,
         ok /\ h.call.op # "revoke_check" => lic \in DOMAIN licenses',
         handlers' = handlers \ {h}, answers' = answers \cup Answer(h, ok, lic, token),
         UNCHANGED <<stored, calls, dropped>>, lost' \in BOOLEAN,
         slipped' \subseteq (Ops \cup {"approve"}) \X Nat
  PROVE  TypeInv'
<1>1. h \in Handler /\ DOMAIN licenses \subseteq DOMAIN licenses'
  BY NetworkTyped DEF TablesKept, Tables
<1>2. /\ Answer(h, ok, lic, token) \subseteq Reply
      /\ \A a \in Answer(h, ok, lic, token) :
           h.by # None /\ a = [to |-> h.by, ok |-> ok, lic |-> lic, token |-> token]
  BY <1>1, AnswerTyped
<1>3. TypeOK' /\ CodesKnown'
  BY <1>2, NetworkTyped, TypeParts DEF TablesKept
<1>4. \A c \in Call : Names(c) => Names(c)'
  BY NamesStay, NetworkTyped
<1>5. HandlersOK'
  <2>1. 0 .. Len(codes) \subseteq 0 .. Len(codes')
    BY NetworkTyped DEF Tables, TablesKept
  <2>2. \A g \in handlers' : g \in handlers /\ g.call \in Call
    BY NetworkTyped DEF Handler
  <2> QED BY <1>4, <2>1, <2>2 DEF TypeInv, HandlersOK, Names
<1>6. ClientOK'
  <2>1. \A t \in Tasks : calls'[t] # None => Names(calls[t])'
    BY <1>4, NetworkTyped DEF TypeInv, ClientOK
  <2>2. \A a \in answers' : /\ calls'[a.to] # None
                            /\ a.ok /\ Saving(a.to) => a.lic \in DOMAIN licenses'
    <3>1. h.by = None \/ (calls[h.by] = h.call /\ calls[h.by] # None)
      BY <1>1, NoneFacts DEF TypeInv, HandlersOK, Handler
    <3> QED BY <1>1, <1>2, <3>1 DEF TypeInv, ClientOK, Saving
  <2> QED BY <1>1, <2>1, <2>2 DEF TypeInv, ClientOK, Names, Saving
<1>7. OnePending'
  BY <1>2 DEF TypeInv, OnePending
<1> QED BY <1>3, <1>5, <1>6, <1>7 DEF TypeInv

\* a handler that finds nothing against its call
ReadsOn(h) ==
  /\ h.phase = "sent" /\ h.call.op # "revoke_check" /\ Admits(h.call)
  /\ handlers' = (handlers \ {h}) \cup {[h EXCEPT !.phase = "read", !.code = CodeOf(h.call)]}
  /\ slipped' = slipped \cup {Grant(h.call) : k \in
       {k \in handlers : k.phase = "read" /\ Grant(k.call) = Grant(h.call)}}
  /\ UNCHANGED <<server, answers, client, dropped, lost>>

LEMMA ServerTyped == ASSUME TypeInv, NEW h \in handlers, Handle(h) \/ Vanish(h) PROVE TypeInv'
<1>0. Tables /\ h \in Handler /\ MaxUses \in Nat /\ 0 \in Nat
  BY NetworkTyped, BoundAssumption
<1>1. CASE Refuse(h) /\ UNCHANGED <<requests, codes, licenses, minted, stored, calls, slipped, dropped, lost>>
  BY <1>0, <1>1, TablesStay, HandlerEnds, NetworkTyped DEF Refuse
<1>2. CASE ReadsOn(h)
  <2> DEFINE g == [h EXCEPT !.phase = "read", !.code = CodeOf(h.call)]
             met == {Grant(h.call) : k \in
                       {k \in handlers : k.phase = "read" /\ Grant(k.call) = Grant(h.call)}}
  <2>1. /\ h.phase = "sent" /\ h.call.op # "revoke_check"
        /\ handlers' = (handlers \ {h}) \cup {g}
        /\ slipped' = slipped \cup met
        /\ UNCHANGED <<requests, codes, licenses, minted, answers, stored, calls, dropped, lost>>
    BY <1>2 DEF ReadsOn, server, client
  <2>2. /\ g \in Handler /\ g.by = h.by /\ g.call = h.call /\ g.phase = "read"
        /\ g.code \in 0 .. Len(codes) /\ (h.call.op = "redeem_by_code" => g.code = h.call.of)
    <3>1. CodeOf(h.call) \in 0 .. Len(codes)
      BY <1>0, HandlerNames DEF CodeOf, Tables, CodesKnown
    <3>2. CodeOf(h.call) \in Nat /\ (h.call.op = "redeem_by_code" => CodeOf(h.call) = h.call.of)
      BY <1>0, <3>1 DEF CodeOf, Tables
    <3> QED BY <1>0, <3>1, <3>2 DEF Handler
  <2>3. met \subseteq (Ops \cup {"approve"}) \X Nat
    BY <1>0 DEF Handler, Grant, Call
  <2>4. TypeOK' /\ CodesKnown'
    BY <1>0, <2>1, <2>2, <2>3, NetworkTyped, TypeParts DEF Tables, CodesKnown
  <2>5. HandlersOK'
    <3> DEFINE OK(k) == /\ Names(k.call)
                        /\ k.by # None => calls[k.by] = k.call
                        /\ k.code \in 0 .. Len(codes)
                        /\ k.phase = "read" =>
                             /\ k.call.op # "revoke_check"
                             /\ k.call.op = "redeem_by_code" => k.code = k.call.of
    <3>1. \A k \in handlers : OK(k)
      BY DEF TypeInv, HandlersOK
    <3>2. OK(g)
      <4> HIDE DEF g
      <4> QED BY <2>1, <2>2, <3>1
    <3>3. \A k \in handlers' : OK(k)
      <4> HIDE DEF g, met, OK
      <4> QED BY <2>1, <3>1, <3>2
    <3> QED BY <2>1, <3>3 DEF HandlersOK, Names
  <2>6. ClientOK'
    BY <2>1 DEF TypeInv, ClientOK, Names, Saving
  <2>7. OnePending'
    <3> HIDE DEF g, met
    <3>1. \A k \in handlers' : k = g \/ (k \in handlers /\ k # h)
      BY <2>1
    <3>2. \A k \in handlers \ {h} : k.by = None \/ k.by # g.by
      BY <2>2 DEF TypeInv, OnePending
    <3>3. \A a \in answers : g.by # a.to
      BY <2>2 DEF TypeInv, OnePending
    <3>4. answers' = answers
      BY <2>1
    <3>5. \A j, k \in handlers' : j.by # None /\ j.by = k.by => j = k
      BY <3>1, <3>2 DEF TypeInv, OnePending
    <3> QED BY <3>1, <3>3, <3>4, <3>5 DEF TypeInv, OnePending
  <2> QED BY <2>4, <2>5, <2>6, <2>7 DEF TypeInv
<1>3. CASE CommitRedeem(h)
  <2> DEFINE lic == Len(licenses) + 1
  <2>1. TablesKept /\ Len(licenses') = lic /\ lic \in Nat /\ minted + 1 \in Nat
    <3>1. TablesKept /\ Len(licenses') = lic
      BY <1>3, RedeemTables
    <3> QED BY <1>0, <3>1 DEF Tables
  <2>2. lic \in DOMAIN licenses'
    BY <2>1 DEF TablesKept, Tables
  <2>3. /\ handlers' = handlers \ {h} /\ answers' = answers \cup Answer(h, TRUE, lic, minted + 1)
        /\ UNCHANGED <<stored, calls, dropped, lost>>
    BY <1>3 DEF CommitRedeem, client
  <2>4. slipped' \subseteq (Ops \cup {"approve"}) \X Nat
    <3>1. slipped \subseteq (Ops \cup {"approve"}) \X Nat /\ h.call \in Call
      BY <1>0, NetworkTyped DEF Handler
    <3>2. Grant(h.call) \in (Ops \cup {"approve"}) \X Nat
      BY <3>1 DEF Grant, Call
    <3> QED BY <1>3, <3>1, <3>2, RedeemTables
  <2> QED BY <2>1, <2>2, <2>3, <2>4, HandlerEnds, NetworkTyped
<1>4. CASE CommitRefresh(h)
  <2>1. /\ TablesKept /\ h.call.lic \in DOMAIN licenses /\ Len(licenses') = Len(licenses)
        /\ minted + 1 \in Nat
    BY <1>0, <1>4, RefreshTables DEF Tables
  <2>2. h.call.lic \in DOMAIN licenses' /\ h.call.lic \in Nat
    BY <1>0, <2>1 DEF TablesKept, Tables
  <2>3. /\ handlers' = handlers \ {h}
        /\ answers' = answers \cup Answer(h, TRUE, h.call.lic, minted + 1)
        /\ UNCHANGED <<stored, calls, slipped, dropped, lost>>
    BY <1>4 DEF CommitRefresh, client, ghosts
  <2> QED BY <2>1, <2>2, <2>3, HandlerEnds, NetworkTyped
<1>5. CASE CommitFails(h) /\ h.call.op = "refresh"
  <2>1. h.call.lic \in DOMAIN licenses /\ h.call.lic \in Nat /\ minted + 1 \in Nat
    BY <1>0, <1>5 DEF TypeInv, HandlersOK, Names, Tables
  <2>2. /\ handlers' = handlers \ {h}
        /\ answers' = answers \cup Answer(h, TRUE, h.call.lic, minted + 1)
        /\ UNCHANGED <<requests, codes, licenses, stored, calls, slipped, dropped>>
        /\ minted' = minted + 1 /\ lost' = TRUE
    BY <1>5 DEF CommitFails, client
  <2> QED BY <1>0, <2>1, <2>2, TablesStay, HandlerEnds, NetworkTyped
<1>6. CASE RevokeCheck(h) \/ RevokeCheckFails(h)
  <2>2. /\ h.call.op = "revoke_check"
        /\ \E ok \in BOOLEAN : answers' = answers \cup Answer(h, ok, 0, 0)
    <3>1. (licenses[h.call.lic].status = "revoked") \in BOOLEAN
      OBVIOUS
    <3> QED BY <1>6, <3>1 DEF RevokeCheck, RevokeCheckFails, Refuse
  <2>3. /\ handlers' = handlers \ {h}
        /\ UNCHANGED <<requests, codes, licenses, minted, stored, calls, slipped, dropped, lost>>
    BY <1>6 DEF RevokeCheck, RevokeCheckFails, Refuse, server, client, ghosts
  <2> QED BY <1>0, <2>2, <2>3, TablesStay, HandlerEnds, NetworkTyped
<1>7. CASE Vanish(h)
  <2>1. /\ handlers' = handlers \ {h}
        /\ UNCHANGED <<requests, codes, licenses, minted, answers, stored, calls, slipped, dropped, lost>>
    BY <1>7 DEF Vanish, server, client, ghosts
  <2>2. TypeOK' /\ CodesKnown'
    BY <1>0, <2>1, NetworkTyped, TypeParts DEF Tables, CodesKnown
  <2>3. HandlersOK' /\ ClientOK' /\ OnePending'
    BY <2>1 DEF TypeInv, HandlersOK, ClientOK, OnePending, Names, Saving
  <2> QED BY <2>2, <2>3 DEF TypeInv
<1>8. Read(h) => ReadsOn(h) \/
        (Refuse(h) /\ UNCHANGED <<requests, codes, licenses, minted, stored, calls, slipped, dropped, lost>>)
  BY DEF Read, ReadsOn, server, client
<1>9. CommitFails(h) /\ h.call.op # "refresh" =>
        Refuse(h) /\ UNCHANGED <<requests, codes, licenses, minted, stored, calls, slipped, dropped, lost>>
  BY DEF CommitFails, client
<1> QED BY <1>1, <1>2, <1>3, <1>4, <1>5, <1>6, <1>7, <1>8, <1>9 DEF Handle

\* a handler that goes on, waited for or not
Carried(g) ==
  g \in Handler /\ \E h \in handlers :
    /\ g.call = h.call /\ g.phase = h.phase /\ g.code = h.code
    /\ g.by \in {h.by, None}

LEMMA AbandonedCarried ==
  ASSUME TypeInv, NEW T \in SUBSET Tasks, NEW g \in Abandoned(T)
  PROVE  Carried(g) /\ g.by \notin T
<1>1. PICK h \in handlers : g = IF h.by \in T THEN [h EXCEPT !.by = None] ELSE h
  BY DEF Abandoned
<1>2. h \in Handler
  BY NetworkTyped
<1>3. g \in Handler /\ g.call = h.call /\ g.phase = h.phase /\ g.code = h.code
  BY <1>1, <1>2 DEF Handler
<1>4. g.by = IF h.by \in T THEN None ELSE h.by
  BY <1>1, <1>2 DEF Handler
<1> QED BY <1>3, <1>4, NoneFacts DEF Carried

\* A task sends call c, or ends the one it has when c is None; its attempts
\* before that are no longer waited for.
LEMMA CallMoves ==
  ASSUME TypeInv, NEW t \in Tasks, NEW c \in Call \cup {None}, c # None => Names(c),
         calls' = [calls EXCEPT ![t] = c],
         NEW H, \A g \in H : Carried(g) /\ g.by # t,
         handlers' = H \cup (IF c = None THEN {} ELSE {[by |-> t, call |-> c, phase |-> "sent", code |-> 0]}),
         answers' \subseteq answers, \A a \in answers' : a.to # t,
         UNCHANGED <<requests, codes, licenses, minted, slipped>>,
         stored' \in [lic: Nat, token: Nat] \cup {None},
         stored' # None => stored'.lic \in DOMAIN licenses,
         dropped' \subseteq Nat, lost' \in BOOLEAN
  PROVE  TypeInv'
<1> DEFINE new == [by |-> t, call |-> c, phase |-> "sent", code |-> 0]
<1>1. c # None => /\ new \in Handler /\ new.by = t /\ new.call = c /\ new.phase = "sent"
                  /\ new.code = 0
  BY DEF Handler
<1>2. \A g \in handlers' : g \in H \/ (c # None /\ g = new)
  OBVIOUS
<1>3. /\ calls'[t] = c /\ \A u \in Tasks : u # t => calls'[u] = calls[u]
      /\ calls' \in [Tasks -> Call \cup {None}]
  BY NetworkTyped
<1> HIDE DEF new
<1>4. TypeOK' /\ CodesKnown'
  <2>1. handlers' \subseteq Handler
    BY <1>1, <1>2 DEF Carried
  <2> QED BY <1>3, <2>1, NetworkTyped, TypeParts DEF Tables, CodesKnown
<1>5. \A d : Names(d)' <=> Names(d)
  BY DEF Names
<1>6. HandlersOK'
  <2> SUFFICES ASSUME NEW g \in handlers'
               PROVE  /\ Names(g.call)
                      /\ g.by # None => calls'[g.by] = g.call
                      /\ g.code \in 0 .. Len(codes)
                      /\ g.phase = "read" =>
                           /\ g.call.op # "revoke_check"
                           /\ g.call.op = "redeem_by_code" => g.code = g.call.of
    BY <1>5 DEF HandlersOK, Names
  <2>1. CASE g \in H
    <3>1. PICK h \in handlers : /\ g.call = h.call /\ g.phase = h.phase /\ g.code = h.code
                                /\ g.by \in {h.by, None}
      BY <2>1 DEF Carried
    <3>2. g.by # None => g.by = h.by /\ g.by \in Tasks /\ g.by # t
      BY <2>1, <3>1 DEF Carried, Handler
    <3> QED BY <1>3, <3>1, <3>2 DEF TypeInv, HandlersOK
  <2>2. CASE c # None /\ g = new
    <3>1. 0 \in 0 .. Len(codes)
      BY NetworkTyped DEF Tables
    <3> QED BY <1>1, <1>3, <2>2, <3>1
  <2> QED BY <1>2, <2>1, <2>2
<1>7. ClientOK'
  <2>1. \A u \in Tasks : calls'[u] # None => Names(calls'[u])
    BY <1>3 DEF TypeInv, ClientOK
  <2>2. \A a \in answers' : /\ calls'[a.to] # None
                            /\ a.ok /\ Saving(a.to)' => a.lic \in DOMAIN licenses
    BY <1>3, NetworkTyped DEF TypeInv, ClientOK, Reply, Saving
  <2> QED BY <2>1, <2>2 DEF ClientOK, Names
<1>8. OnePending'
  <2>1. ASSUME NEW g \in H, NEW k \in H, g.by # None, g.by = k.by PROVE g = k
    <3>1. PICK h \in handlers : /\ g.call = h.call /\ g.phase = h.phase /\ g.code = h.code
                                /\ g.by \in {h.by, None}
      BY DEF Carried
    <3>2. PICK j \in handlers : /\ k.call = j.call /\ k.phase = j.phase /\ k.code = j.code
                                /\ k.by \in {j.by, None}
      BY DEF Carried
    <3>3. h = j
      BY <2>1, <3>1, <3>2 DEF TypeInv, OnePending
    <3> QED BY <2>1, <3>1, <3>2, <3>3 DEF Carried, Handler
  <2>2. \A g, k \in handlers' : g.by # None /\ g.by = k.by => g = k
    BY <1>1, <1>2, <2>1
  <2>3. ASSUME NEW g \in H, NEW a \in answers' PROVE g.by # a.to
    <3>1. PICK h \in handlers : g.by \in {h.by, None}
      BY DEF Carried
    <3>2. a \in answers /\ a.to \in Tasks
      BY NetworkTyped DEF Reply
    <3> QED BY <3>1, <3>2, NoneFacts DEF TypeInv, OnePending
  <2>4. \A g \in handlers', a \in answers' : g.by # a.to
    BY <1>1, <1>2, <2>3
  <2> QED BY <2>2, <2>4 DEF TypeInv, OnePending
<1> QED BY <1>4, <1>6, <1>7, <1>8 DEF TypeInv

\* a task without a call has no attempt under way
LEMMA NothingPending ==
  ASSUME TypeInv, NEW t \in Tasks
  PROVE  /\ \A h \in handlers : Carried(h)
         /\ calls[t] = None => /\ \A h \in handlers : h.by # t
                               /\ \A a \in answers : a.to # t
         /\ \A a \in AnswersTo(t) : /\ \A h \in handlers : h.by # t
                                    /\ \A b \in answers \ {a} : b.to # t
<1>1. \A h \in handlers : Carried(h)
  BY NetworkTyped DEF Carried
<1>2. ASSUME NEW h \in handlers, h.by = t PROVE calls[t] # None
  BY <1>2, NetworkTyped, NoneFacts DEF TypeInv, HandlersOK, Handler
<1>3. \A a \in answers : calls[a.to] # None
  BY DEF TypeInv, ClientOK
<1>4. \A a \in AnswersTo(t) : /\ \A h \in handlers : h.by # t
                              /\ \A b \in answers \ {a} : b.to # t
  BY DEF TypeInv, OnePending, AnswersTo
<1> QED BY <1>1, <1>2, <1>3, <1>4

LEMMA SendTyped ==
  ASSUME TypeInv, NEW t \in Tasks, NEW c \in Call, Names(c), calls[t] = None, Send(t, c),
         UNCHANGED <<server, answers, stored, ghosts>>
  PROVE  TypeInv'
<1>1. c # None
  BY NoneFacts
<1>2. /\ \A g \in handlers : Carried(g) /\ g.by # t
      /\ \A a \in answers : a.to # t
  BY NothingPending
<1>3. /\ stored \in [lic: Nat, token: Nat] \cup {None} /\ dropped \subseteq Nat
      /\ lost \in BOOLEAN /\ (stored # None => stored.lic \in DOMAIN licenses)
  BY NetworkTyped DEF TypeInv, ClientOK
<1>4. /\ calls' = [calls EXCEPT ![t] = c]
      /\ handlers' = handlers \cup {[by |-> t, call |-> c, phase |-> "sent", code |-> 0]}
      /\ UNCHANGED <<requests, codes, licenses, minted, slipped, answers, stored, dropped, lost>>
  BY DEF Send, server, ghosts
<1> QED BY <1>1, <1>2, <1>3, <1>4, CallMoves

LEMMA ReceiveTyped ==
  ASSUME TypeInv, NEW t \in Tasks, NEW a \in AnswersTo(t), Done(t, a),
         stored' \in [lic: Nat, token: Nat] \cup {None},
         stored' # None => stored'.lic \in DOMAIN licenses,
         dropped' \subseteq Nat, lost' \in BOOLEAN
  PROVE  TypeInv'
<1>1. /\ \A g \in handlers : Carried(g) /\ g.by # t
      /\ \A b \in answers \ {a} : b.to # t
  BY NothingPending
<1>2. /\ calls' = [calls EXCEPT ![t] = None] /\ answers' = answers \ {a} /\ handlers' = handlers
      /\ UNCHANGED <<requests, codes, licenses, minted, slipped>>
  BY DEF Done, server
<1>3. handlers' = handlers \cup {}
  BY <1>2
<1> QED BY <1>1, <1>2, <1>3, CallMoves

\* the ways in which a task takes the answer to its call
Taken(t, a) ==
  \/ ~a.ok /\ UNCHANGED <<stored, dropped>> /\ (lost => lost')
  \/ /\ a.ok /\ Saving(t) /\ stored' = [lic |-> a.lic, token |-> a.token]
     /\ dropped' = dropped /\ (lost => lost')
  \/ /\ a.ok /\ Saving(t) /\ UNCHANGED <<stored, dropped>>
     /\ (lost => lost') /\ (calls[t].op = "refresh" => lost')
  \/ /\ a.ok /\ ~Saving(t) /\ (lost => lost')
     /\ Clear \/ UNCHANGED <<stored, dropped>>

LEMMA Receipts ==
  ASSUME TypeInv, NEW t \in Tasks, Receive(t)
  PROVE  \E a \in AnswersTo(t) :
           /\ a \in answers /\ a \in Reply /\ a.to = t /\ calls[t] # None /\ Done(t, a)
           /\ lost' \in BOOLEAN /\ Taken(t, a)
<1>0. (\A a \in AnswersTo(t) : a \in answers /\ a \in Reply /\ a.to = t) /\ lost \in BOOLEAN
  BY NetworkTyped DEF AnswersTo
<1>1. CASE ReceiveFailure(t)
  BY <1>0, <1>1 DEF ReceiveFailure, Taken
<1>2. CASE ReceiveLicense(t)
  BY <1>0, <1>2 DEF ReceiveLicense, Saving, Taken
<1>3. CASE SaveFails(t)
  <2>1. lost' = (IF calls[t].op = "refresh" THEN TRUE ELSE lost)
    BY <1>3 DEF SaveFails
  <2>2. lost' \in BOOLEAN /\ (lost => lost') /\ (calls[t].op = "refresh" => lost')
    BY <1>0, <2>1
  <2> QED BY <1>0, <1>3, <2>2 DEF SaveFails, Saving, Taken
<1>4. CASE ReceiveRevoked(t)
  BY <1>0, <1>4 DEF ReceiveRevoked, Saving, Taken
<1>5. CASE ClearFails(t)
  BY <1>0, <1>5 DEF ClearFails, Saving, Taken
<1> QED BY <1>1, <1>2, <1>3, <1>4, <1>5 DEF Receive

LEMMA ClearTyped ==
  ASSUME TypeInv, Clear
  PROVE  stored' = None /\ dropped' \subseteq Nat
<1>1. stored # None => stored.lic \in Nat
  BY NetworkTyped
<1> QED BY <1>1, NetworkTyped DEF Clear

LEMMA TypeStep == TypeInv /\ [Next]_vars => TypeInv'
<1> SUFFICES ASSUME TypeInv, [Next]_vars PROVE TypeInv'
  OBVIOUS
<1>1. CASE Admin
  <2>1. TablesKept /\ UNCHANGED <<minted, handlers, answers, stored, calls, dropped, lost>>
    BY <1>1, AdminTables, AdminUnchanged, NetworkTyped
  <2>7. slipped' \subseteq (Ops \cup {"approve"}) \X Nat
    <3>1. slipped \subseteq (Ops \cup {"approve"}) \X Nat /\ DOMAIN requests \subseteq Nat
      BY NetworkTyped DEF Tables
    <3>2. CASE RequestDecided
      <4>1. PICK r \in DOMAIN requests : slipped' \in {slipped, slipped \cup {<<"approve", r>>}}
        BY <3>2 DEF RequestDecided
      <4> QED BY <3>1, <4>1
    <3>3. CASE RequestAdded \/ CodeInvited \/ LicenseRevoked
      BY <3>1, <3>3 DEF RequestAdded, CodeInvited, LicenseRevoked
    <3> QED BY <1>1, <3>2, <3>3, AdminRows, NetworkTyped
  <2>2. TypeOK' /\ CodesKnown'
    BY <2>1, <2>7, NetworkTyped, TypeParts DEF TablesKept
  <2>3. /\ \A c \in Call : Names(c) => Names(c)'
        /\ DOMAIN licenses \subseteq DOMAIN licenses'
        /\ 0 .. Len(codes) \subseteq 0 .. Len(codes')
    BY <2>1, NamesStay, NetworkTyped DEF TablesKept, Tables
  <2>4. HandlersOK'
    BY <2>1, <2>3, NetworkTyped DEF TypeInv, HandlersOK, Handler, Names
  <2>5. ClientOK'
    BY <2>1, <2>3, NetworkTyped DEF TypeInv, ClientOK, Names, Saving
  <2>6. OnePending'
    BY <2>1 DEF TypeInv, OnePending
  <2> QED BY <2>2, <2>4, <2>5, <2>6 DEF TypeInv
<1>2. ASSUME NEW t \in Tasks, NEW op \in {"redeem", "redeem_by_code"}, Redeem(t, op)
      PROVE  TypeInv'
  <2>1. PICK r \in IF op = "redeem" THEN DOMAIN requests ELSE DOMAIN codes :
          Send(t, [op |-> op, of |-> r, lic |-> 0, token |-> 0, try |-> 1])
    BY <1>2 DEF Redeem
  <2> DEFINE c == [op |-> op, of |-> r, lic |-> 0, token |-> 0, try |-> 1]
  <2>2. c \in Call /\ Names(c)
    <3>1. DOMAIN requests \subseteq Nat /\ DOMAIN codes \subseteq Nat
      BY NetworkTyped DEF Tables
    <3> QED BY <3>1 DEF Call, Ops, Names
  <2> QED BY <1>2, <2>1, <2>2, SendTyped DEF Redeem
<1>3. ASSUME NEW t \in Tasks, NEW op \in {"refresh", "revoke_check"}, Ask(t, op)
      PROVE  TypeInv'
  <2> DEFINE c == [op |-> op, of |-> 0, lic |-> stored.lic, try |-> 1,
                   token |-> IF op = "refresh" THEN stored.token ELSE 0]
  <2>1. stored \in [lic: Nat, token: Nat] /\ stored.lic \in DOMAIN licenses
    BY <1>3, NetworkTyped DEF Ask, TypeInv, ClientOK
  <2>2. c \in Call /\ Names(c)
    BY <2>1 DEF Call, Ops, Names
  <2> QED BY <1>3, <2>2, SendTyped DEF Ask
<1>4. ASSUME NEW t \in Tasks, Retry(t) PROVE TypeInv'
  <2> DEFINE again == [calls[t] EXCEPT !.try = @ + 1]
  <2>1. calls[t] \in Call /\ Names(calls[t])
    BY <1>4, NetworkTyped DEF Retry, TypeInv, ClientOK
  <2>2. again \in Call /\ Names(again) /\ again # None
    BY <2>1, NoneFacts DEF Call, Names
  <2>3. \A g \in Abandoned({t}) : Carried(g) /\ g.by # t
    BY AbandonedCarried
  <2>4. /\ answers' \subseteq answers /\ \A a \in answers' : a.to # t
        /\ UNCHANGED <<requests, codes, licenses, minted, slipped, stored, dropped>>
        /\ lost' \in BOOLEAN
    BY <1>4, NetworkTyped DEF Retry, AnswersTo, server
  <2>5. /\ stored \in [lic: Nat, token: Nat] \cup {None} /\ dropped \subseteq Nat
        /\ (stored # None => stored.lic \in DOMAIN licenses)
    BY NetworkTyped DEF TypeInv, ClientOK
  <2>6. CASE SendAgain(t)
    <3>1. /\ calls' = [calls EXCEPT ![t] = again]
          /\ handlers' = Abandoned({t})
               \cup {[by |-> t, call |-> again, phase |-> "sent", code |-> 0]}
      BY <2>6 DEF SendAgain
    <3> QED BY <2>2, <2>3, <2>4, <2>5, <3>1, CallMoves
  <2>7. CASE GiveUp(t)
    <3>1. calls' = [calls EXCEPT ![t] = None] /\ handlers' = Abandoned({t}) \cup {}
      BY <2>7 DEF GiveUp
    <3> QED BY <2>3, <2>4, <2>5, <3>1, CallMoves
  <2> QED BY <1>4, <2>6, <2>7 DEF Retry
<1>5. ASSUME NEW t \in Tasks, Receive(t) PROVE TypeInv'
  <2>1. PICK a \in AnswersTo(t) :
           /\ a \in answers /\ a \in Reply /\ a.to = t /\ calls[t] # None /\ Done(t, a)
           /\ lost' \in BOOLEAN /\ Taken(t, a)
    BY <1>5, Receipts
  <2>2. /\ stored \in [lic: Nat, token: Nat] \cup {None} /\ dropped \subseteq Nat
        /\ (stored # None => stored.lic \in DOMAIN licenses)
    BY NetworkTyped DEF TypeInv, ClientOK
  <2>3. /\ a.lic \in Nat /\ a.token \in Nat
        /\ a.ok /\ Saving(t) => a.lic \in DOMAIN licenses
    BY <2>1 DEF TypeInv, ClientOK, Reply
  <2>4. Clear => stored' = None /\ dropped' \subseteq Nat
    BY ClearTyped
  <2>5. /\ stored' \in [lic: Nat, token: Nat] \cup {None}
        /\ stored' # None => stored'.lic \in DOMAIN licenses
        /\ dropped' \subseteq Nat
    <3>1. CASE UNCHANGED <<stored, dropped>>
      BY <2>2, <3>1
    <3>2. CASE a.ok /\ Saving(t) /\ stored' = [lic |-> a.lic, token |-> a.token] /\ dropped' = dropped
      BY <2>2, <2>3, <3>2
    <3>3. CASE Clear
      BY <2>4, <3>3
    <3> QED BY <2>1, <3>1, <3>2, <3>3 DEF Taken
  <2> QED BY <2>1, <2>5, ReceiveTyped
<1>6. CASE Deactivate
  <2>1. /\ UNCHANGED <<requests, codes, licenses, minted, handlers, answers, calls, slipped, lost>>
        /\ stored' \in {None, stored} /\ dropped' \subseteq Nat
    <3>1. Clear => stored' = None /\ dropped' \subseteq Nat
      BY ClearTyped
    <3> QED BY <1>6, <3>1, NetworkTyped DEF Deactivate, server, network
  <2>2. TypeOK' /\ CodesKnown'
    BY <2>1, NetworkTyped, TypeParts DEF Tables, CodesKnown
  <2> QED BY <2>1, <2>2 DEF TypeInv, HandlersOK, ClientOK, OnePending, Names, Saving
<1>7. CASE Quit
  <2>1. /\ UNCHANGED <<requests, codes, licenses, minted, slipped, stored, dropped>>
        /\ calls' = [t \in Tasks |-> None] /\ answers' = {} /\ handlers' = Abandoned(Tasks)
        /\ lost' \in BOOLEAN
    BY <1>7, NetworkTyped DEF Quit, server
  <2>2. ASSUME NEW g \in handlers'
        PROVE  /\ g \in Handler /\ g.by = None /\ Names(g.call)
               /\ g.code \in 0 .. Len(codes)
               /\ g.phase = "read" =>
                    /\ g.call.op # "revoke_check"
                    /\ g.call.op = "redeem_by_code" => g.code = g.call.of
    <3>1. Carried(g) /\ g.by \notin Tasks
      BY <2>1, AbandonedCarried
    <3> QED BY <3>1 DEF Carried, Handler, TypeInv, HandlersOK
  <2>3. TypeOK' /\ CodesKnown'
    BY <2>1, <2>2, NetworkTyped, TypeParts DEF Tables, CodesKnown
  <2>4. HandlersOK' /\ ClientOK' /\ OnePending'
    BY <2>1, <2>2 DEF TypeInv, HandlersOK, ClientOK, OnePending, Names
  <2> QED BY <2>3, <2>4 DEF TypeInv
<1>8. CASE UNCHANGED vars
  BY <1>8 DEF vars, server, network, client, ghosts, TypeInv, TypeOK, CodesKnown, HandlersOK,
              ClientOK, OnePending, Names, Saving
<1> QED BY <1>1, <1>2, <1>3, <1>4, <1>5, <1>6, <1>7, <1>8, ServerTyped DEF Next, Admin

\* The tables of the server, the network and the client are well typed: what the
\* client keeps, and every call and answer on its way, stays within their domains.
THEOREM TypeCorrect == Spec => []TypeOK
<1>1. TypeInv => TypeOK
  BY DEF TypeInv
<1> QED BY <1>1, InitTyped, TypeStep, PTL DEF Spec

-----------------------------------------------------------------------------
(* Licenses that were cleared *)

\* what a step of the server leaves to the client, and what it answers
LEMMA ServerAnswers ==
  ASSUME TypeInv, NEW h \in handlers, Handle(h) \/ Vanish(h)
  PROVE  /\ UNCHANGED <<stored, calls, dropped>> /\ (lost => lost')
         /\ TablesKept
         /\ \A a \in answers' : a \in answers \/
              /\ a.to = h.by /\ a.to \in Tasks
              /\ \/ ~a.ok \/ h.call.op = "revoke_check"
                 \/ CommitRedeem(h) /\ a.lic = Len(licenses) + 1 /\ a.token = minted + 1
                 \/ h.call.op = "refresh" /\ a.lic = h.call.lic /\
                      (lost' \/ (CommitRefresh(h) /\ a.token = minted + 1))
<1>0. h \in Handler /\ Tables
  BY NetworkTyped
<1>1. ASSUME NEW ok, NEW lic, NEW token, NEW a \in Answer(h, ok, lic, token)
      PROVE  a.to = h.by /\ a.to \in Tasks /\ a.ok = ok /\ a.lic = lic /\ a.token = token
  BY <1>0 DEF Answer, Handler
<1>2. CASE Read(h)
  <2>1. /\ UNCHANGED <<requests, codes, licenses, minted, stored, calls, dropped, lost>>
        /\ answers' = answers \/ answers' = answers \cup Answer(h, FALSE, 0, 0)
    BY <1>2 DEF Read, Refuse, server, client
  <2>2. \A a \in Answer(h, FALSE, 0, 0) :
          a.to = h.by /\ a.to \in Tasks /\ a.ok = FALSE /\ a.lic = 0 /\ a.token = 0
    BY <1>0 DEF Answer, Handler
  <2> QED BY <1>0, <2>1, <2>2, TablesStay
<1>3. CASE CommitRedeem(h)
  <2>1. /\ UNCHANGED <<stored, calls, dropped, lost>>
        /\ answers' = answers \cup Answer(h, TRUE, Len(licenses) + 1, minted + 1)
    BY <1>3 DEF CommitRedeem, client, ghosts
  <2>2. TablesKept
    BY <1>3, RedeemTables
  <2>3. \A a \in Answer(h, TRUE, Len(licenses) + 1, minted + 1) :
          a.to = h.by /\ a.to \in Tasks /\ a.ok = TRUE /\ a.lic = Len(licenses) + 1 /\ a.token = minted + 1
    BY <1>0 DEF Answer, Handler
  <2> QED BY <1>3, <2>1, <2>2, <2>3
<1>4. CASE CommitRefresh(h)
  <2>1. /\ UNCHANGED <<stored, calls, dropped, lost>> /\ h.call.op = "refresh"
        /\ answers' = answers \cup Answer(h, TRUE, h.call.lic, minted + 1)
    BY <1>4 DEF CommitRefresh, client, ghosts
  <2>2. TablesKept
    BY <1>4, RefreshTables
  <2>3. \A a \in Answer(h, TRUE, h.call.lic, minted + 1) :
          a.to = h.by /\ a.to \in Tasks /\ a.ok = TRUE /\ a.lic = h.call.lic /\ a.token = minted + 1
    BY <1>0 DEF Answer, Handler
  <2> QED BY <1>4, <2>1, <2>2, <2>3
<1>5. CASE CommitFails(h)
  <2>1. UNCHANGED <<requests, codes, licenses, stored, calls, dropped>> /\ minted' \in {minted, minted + 1}
    BY <1>5 DEF CommitFails, client
  <2>2. TablesKept
    BY <1>0, <2>1, TablesStay
  <2>3. CASE h.call.op = "refresh"
    <3>1. /\ answers' = answers \cup Answer(h, TRUE, h.call.lic, minted + 1)
          /\ lost' = TRUE
      BY <1>5, <2>3 DEF CommitFails
    <3>2. \A a \in Answer(h, TRUE, h.call.lic, minted + 1) :
            a.to = h.by /\ a.to \in Tasks /\ a.ok = TRUE /\ a.lic = h.call.lic /\ a.token = minted + 1
      BY <1>0 DEF Answer, Handler
    <3> QED BY <2>1, <2>2, <2>3, <3>1, <3>2
  <2>4. CASE h.call.op # "refresh"
    <3>1. answers' = answers \cup Answer(h, FALSE, 0, 0) /\ lost' = lost
      BY <1>5, <2>4 DEF CommitFails, Refuse
    <3>2. \A a \in Answer(h, FALSE, 0, 0) :
            a.to = h.by /\ a.to \in Tasks /\ a.ok = FALSE /\ a.lic = 0 /\ a.token = 0
      BY <1>0 DEF Answer, Handler
    <3> QED BY <2>1, <2>2, <3>1, <3>2
  <2> QED BY <2>3, <2>4
<1>6. CASE RevokeCheck(h) \/ RevokeCheckFails(h)
  <2>1. UNCHANGED <<requests, codes, licenses, minted, stored, calls, dropped, lost>>
    BY <1>6 DEF RevokeCheck, RevokeCheckFails, server, client, ghosts
  <2>2. /\ h.call.op = "revoke_check"
        /\ \E ok : answers' = answers \cup Answer(h, ok, 0, 0)
    BY <1>6 DEF RevokeCheck, RevokeCheckFails, Refuse
  <2> QED BY <1>0, <1>1, <2>1, <2>2, TablesStay
<1>7. CASE Vanish(h)
  <2>1. UNCHANGED <<requests, codes, licenses, minted, answers, stored, calls, dropped, lost>>
    BY <1>7 DEF Vanish, server, client, ghosts
  <2> QED BY <1>0, <2>1, TablesStay
<1> QED BY <1>2, <1>3, <1>4, <1>5, <1>6, <1>7 DEF Handle

\* no license that was cleared is stored, or on its way to be
NoneDropped ==
  /\ stored # None => stored.lic \notin dropped
  /\ \A t \in Tasks : calls[t] # None /\ calls[t].op = "refresh" => calls[t].lic \notin dropped
  /\ \A a \in answers : a.ok /\ Saving(a.to) => a.lic \notin dropped

DroppedInv ==
  TypeInv /\ dropped \subseteq DOMAIN licenses /\ NoneDropped

\* a step of the client at one call, which clears nothing
LEMMA DroppedAtCall ==
  ASSUME TypeInv, NoneDropped, NEW t \in Tasks, NEW c \in Call \cup {None},
         calls' = [calls EXCEPT ![t] = c], dropped' = dropped, answers' \subseteq answers,
         \A a \in answers' : a.to # t,
         c # None /\ c.op = "refresh" => c.lic \notin dropped,
         stored' # None => stored'.lic \notin dropped
  PROVE  NoneDropped'
<1>1. calls'[t] = c /\ \A u \in Tasks : u # t => calls'[u] = calls[u]
  BY NetworkTyped
<1>2. \A a \in answers' : a.to \in Tasks /\ calls'[a.to] = calls[a.to]
  BY <1>1, NetworkTyped DEF Reply
<1> QED BY <1>1, <1>2 DEF NoneDropped, Saving

LEMMA DroppedStep == DroppedInv /\ [Next]_vars => DroppedInv'
<1> SUFFICES ASSUME DroppedInv, [Next]_vars
             PROVE  dropped' \subseteq DOMAIN licenses' /\ NoneDropped'
  BY TypeStep DEF DroppedInv
<1>0. TypeInv /\ Tables /\ dropped \subseteq DOMAIN licenses
  BY NetworkTyped DEF DroppedInv
<1>a. DOMAIN licenses = 1 .. Len(licenses) /\ Len(licenses) \in Nat
  BY <1>0 DEF Tables
<1>1. CASE Admin
  <2>1. TablesKept /\ UNCHANGED <<answers, stored, calls, dropped>>
    BY <1>0, <1>1, AdminTables, AdminUnchanged
  <2>2. DOMAIN licenses \subseteq DOMAIN licenses'
    BY <1>0, <2>1 DEF TablesKept, Tables
  <2> QED BY <2>1, <2>2 DEF DroppedInv, NoneDropped, Saving
<1>2. ASSUME NEW h \in handlers, Handle(h) \/ Vanish(h)
      PROVE  dropped' \subseteq DOMAIN licenses' /\ NoneDropped'
  <2>1. UNCHANGED <<stored, calls, dropped>> /\ (lost => lost') /\ TablesKept
    BY <1>0, <1>2, ServerAnswers
  <2>2. DOMAIN licenses \subseteq DOMAIN licenses'
    BY <1>0, <2>1 DEF TablesKept, Tables
  <2>3. ASSUME NEW a \in answers', a.ok, Saving(a.to)'
        PROVE  a.lic \notin dropped
    <3>1. Saving(a.to) /\ NoneDropped
      BY <2>1, <2>3 DEF Saving, DroppedInv
    <3>2. CASE a \in answers
      BY <2>3, <3>1, <3>2 DEF NoneDropped
    <3>3. CASE a.lic = Len(licenses) + 1
      BY <1>0, <1>a, <3>3
    <3>4. ASSUME a.to = h.by, a.to \in Tasks, h.call.op = "refresh", a.lic = h.call.lic
          PROVE  a.lic \notin dropped
      <4>1. calls[a.to] = h.call /\ calls[a.to] # None
        BY <1>0, <3>1, <3>4, NoneFacts DEF TypeInv, HandlersOK, Saving
      <4> QED BY <3>1, <3>4, <4>1 DEF NoneDropped
    <3>5. ASSUME a.to = h.by, a.to \in Tasks, h.call.op = "revoke_check" PROVE FALSE
      <4>1. calls[a.to] = h.call
        BY <1>0, <3>5, NoneFacts DEF TypeInv, HandlersOK
      <4> QED BY <3>1, <3>5, <4>1 DEF Saving
    <3> QED BY <1>0, <1>2, <2>3, <3>2, <3>3, <3>4, <3>5, ServerAnswers
  <2> QED BY <1>0, <2>1, <2>2, <2>3 DEF DroppedInv, NoneDropped
<1>3. ASSUME NEW t \in Tasks, NEW c \in Call, calls[t] = None, Send(t, c),
             UNCHANGED <<server, answers, stored, ghosts>>,
             c.op = "refresh" => stored # None /\ c.lic = stored.lic
      PROVE  dropped' \subseteq DOMAIN licenses' /\ NoneDropped'
  <2>1. UNCHANGED <<licenses, answers, stored, dropped, lost>> /\ calls' = [calls EXCEPT ![t] = c]
    BY <1>3 DEF server, ghosts, Send
  <2>2. \A a \in answers : a.to # t
    BY <1>0, <1>3, NothingPending
  <2>3. NoneDropped /\ (c.op = "refresh" => c.lic \notin dropped)
          /\ (stored # None => stored.lic \notin dropped)
    BY <1>3 DEF DroppedInv, NoneDropped
  <2> QED BY <1>0, <2>1, <2>2, <2>3, DroppedAtCall
<1>4. ASSUME NEW t \in Tasks, NEW op \in {"redeem", "redeem_by_code"}, Redeem(t, op)
      PROVE  dropped' \subseteq DOMAIN licenses' /\ NoneDropped'
  <2>1. PICK r \in IF op = "redeem" THEN DOMAIN requests ELSE DOMAIN codes :
          Send(t, [op |-> op, of |-> r, lic |-> 0, token |-> 0, try |-> 1])
    BY <1>4 DEF Redeem
  <2> DEFINE c == [op |-> op, of |-> r, lic |-> 0, token |-> 0, try |-> 1]
  <2>2. c \in Call /\ c.op # "refresh"
    <3>1. DOMAIN requests \subseteq Nat /\ DOMAIN codes \subseteq Nat
      BY <1>0 DEF Tables
    <3> QED BY <3>1 DEF Call, Ops
  <2> QED BY <1>3, <1>4, <2>1, <2>2 DEF Redeem
<1>5. ASSUME NEW t \in Tasks, NEW op \in {"refresh", "revoke_check"}, Ask(t, op)
      PROVE  dropped' \subseteq DOMAIN licenses' /\ NoneDropped'
  <2> DEFINE c == [op |-> op, of |-> 0, lic |-> stored.lic, try |-> 1,
                   token |-> IF op = "refresh" THEN stored.token ELSE 0]
  <2>1. stored \in [lic: Nat, token: Nat]
    BY <1>0, <1>5, NetworkTyped DEF Ask
  <2>2. c \in Call /\ c.lic = stored.lic
    BY <2>1 DEF Call, Ops
  <2> QED BY <1>3, <1>5, <2>2 DEF Ask
<1>6. ASSUME NEW t \in Tasks, Retry(t)
      PROVE  dropped' \subseteq DOMAIN licenses' /\ NoneDropped'
  <2> DEFINE again == [calls[t] EXCEPT !.try = @ + 1]
  <2>1. /\ answers' \subseteq answers /\ \A a \in answers' : a.to # t
        /\ UNCHANGED <<licenses, stored, dropped>>
        /\ calls' = [calls EXCEPT ![t] = again] \/ calls' = [calls EXCEPT ![t] = None]
    BY <1>6, NetworkTyped DEF Retry, SendAgain, GiveUp, AnswersTo, server
  <2>2. again \in Call /\ again.op = calls[t].op /\ again.lic = calls[t].lic /\ calls[t] # None
    BY <1>0, <1>6, NetworkTyped DEF Retry, Call
  <2>3. NoneDropped /\ (again.op = "refresh" => again.lic \notin dropped)
          /\ (stored # None => stored.lic \notin dropped)
    BY <2>1, <2>2 DEF DroppedInv, NoneDropped
  <2> QED BY <1>0, <2>1, <2>2, <2>3, DroppedAtCall
<1>7. ASSUME Clear, UNCHANGED <<licenses>>, answers' \subseteq answers,
             \A t \in Tasks : calls'[t] \in {calls[t], None}
      PROVE  dropped' \subseteq DOMAIN licenses' /\ NoneDropped'
  <2>1. /\ dropped' \subseteq DOMAIN licenses /\ stored' = None
        /\ dropped' = dropped \/ \A t \in Tasks : ~Saving(t)
    BY <1>0, <1>7 DEF Clear, TypeInv, ClientOK
  <2>2. \A a \in answers' : a.to \in Tasks
    BY <1>0, <1>7, NetworkTyped DEF Reply
  <2>3. CASE dropped' = dropped
    <3>1. \A a \in answers' : a \in answers /\ (Saving(a.to)' => Saving(a.to))
      BY <1>7, <2>2 DEF Saving
    <3> QED BY <1>7, <2>1, <2>3, <3>1 DEF DroppedInv, NoneDropped
  <2>4. CASE \A t \in Tasks : ~Saving(t)
    <3>1. \A t \in Tasks : calls'[t] # None => calls'[t].op = "revoke_check"
      BY <1>7, <2>4 DEF Saving
    <3> QED BY <1>7, <2>1, <2>2, <3>1 DEF NoneDropped, Saving
  <2> QED BY <2>1, <2>3, <2>4
<1>8. ASSUME NEW t \in Tasks, Receive(t)
      PROVE  dropped' \subseteq DOMAIN licenses' /\ NoneDropped'
  <2>1. PICK a \in AnswersTo(t) :
           /\ a \in answers /\ a \in Reply /\ a.to = t /\ calls[t] # None /\ Done(t, a)
           /\ Taken(t, a)
    BY <1>0, <1>8, Receipts
  <2>2. /\ calls' = [calls EXCEPT ![t] = None] /\ answers' = answers \ {a} /\ licenses' = licenses
        /\ \A b \in answers' : b.to # t
    BY <1>0, <2>1, NothingPending DEF Done, server
  <2>3. CASE ~Clear
    <3>1. /\ dropped' = dropped
          /\ stored' # None => stored'.lic \notin dropped
      BY <2>1, <2>3 DEF Taken, DroppedInv, NoneDropped
    <3> QED BY <1>0, <2>2, <3>1, DroppedAtCall DEF DroppedInv
  <2>4. CASE Clear
    <3>1. \A u \in Tasks : calls'[u] \in {calls[u], None}
      BY <1>0, <2>2, NetworkTyped
    <3> QED BY <1>7, <2>2, <2>4, <3>1
  <2> QED BY <2>3, <2>4
<1>9. CASE Deactivate
  <2>1. UNCHANGED <<licenses, answers, calls>> /\ (Clear \/ UNCHANGED <<stored, dropped>>)
    BY <1>9 DEF Deactivate, server, network
  <2>2. CASE Clear
    BY <1>7, <2>1, <2>2
  <2>3. CASE UNCHANGED <<stored, dropped>>
    BY <2>1, <2>3 DEF DroppedInv, NoneDropped, Saving
  <2> QED BY <2>1, <2>2, <2>3
<1>10. CASE Quit
  <2>1. /\ UNCHANGED <<licenses, stored, dropped>>
        /\ calls' = [t \in Tasks |-> None] /\ answers' = {}
    BY <1>10 DEF Quit, server
  <2> QED BY <1>0, <2>1 DEF DroppedInv, NoneDropped
<1>11. CASE UNCHANGED vars
  BY <1>11 DEF vars, server, network, client, ghosts, DroppedInv, NoneDropped, Saving
<1> QED BY <1>1, <1>2, <1>4, <1>5, <1>6, <1>8, <1>9, <1>10, <1>11 DEF Next, Admin

\* A license the client cleared while no call was open that saves one does not
\* come back, however answers are delayed, lost and asked for again.
THEOREM DroppedTheorem == Spec => []DroppedStaysOut
<1>1. Init => DroppedInv
  <2>1. Init => dropped = {} /\ NoneDropped
    BY DEF Init, NoneDropped
  <2> QED BY <2>1, InitTyped DEF DroppedInv
<1>2. DroppedInv => DroppedStaysOut
  BY DEF DroppedInv, NoneDropped, DroppedStaysOut
<1> QED BY <1>1, <1>2, DroppedStep, PTL DEF Spec

-----------------------------------------------------------------------------
(* Tokens *)

\* tokens are counted: all that were given out are below the counter
Counted ==
  /\ \A t \in Tasks : calls[t] # None => calls[t].token <= minted
  /\ \A a \in answers : a.token <= minted
  /\ stored # None => stored.token <= minted

Refreshes(t) == calls[t] # None /\ calls[t].op = "refresh"

\* an answer that will be saved
Grants(a) == a.ok /\ Saving(a.to)

\* Every refresh is waited for.  A token on its way to the client is one the
\* server takes, and nobody has used it; the stored one is taken by the server
\* too, or its replacement is on the way.
TokensOK ==
  /\ \A h \in handlers : h.call.op = "refresh" => h.by # None
  /\ \A a \in answers : Grants(a) => a.token \in licenses[a.lic].live
  /\ stored # None => \/ stored.token \in licenses[stored.lic].live
                      \/ \E a \in answers : a.ok /\ Refreshes(a.to)
  /\ \A a \in answers : Grants(a) =>
       /\ \A t \in Tasks : Refreshes(t) => calls[t].token # a.token
       /\ stored # None => stored.token # a.token
       /\ \A b \in answers : Grants(b) /\ b.token = a.token => b = a

TokenInv == TypeInv /\ Counted /\ (~lost => TokensOK)

\* a token that is handed out is one the server takes from then on
LEMMA CommitTokens ==
  ASSUME TypeInv, NEW h \in handlers
  PROVE  /\ CommitRefresh(h) =>
              /\ minted + 1 \in licenses'[h.call.lic].live
              /\ h.by # None => \E a \in answers' : a.ok /\ a.to = h.by
         /\ CommitRedeem(h) => minted + 1 \in licenses'[Len(licenses) + 1].live
<1>1. ASSUME CommitRedeem(h) PROVE minted + 1 \in licenses'[Len(licenses) + 1].live
  <2>1. licenses'[Len(licenses) + 1] =
          [status |-> "active", live |-> {minted + 1}, for |-> Grant(h.call)]
    BY <1>1, RedeemTables
  <2> QED BY <2>1
<1>2. ASSUME CommitRefresh(h)
      PROVE  /\ minted + 1 \in licenses'[h.call.lic].live
             /\ h.by # None => \E a \in answers' : a.ok /\ a.to = h.by
  <2>1. licenses'[h.call.lic].live = (licenses[h.call.lic].live \ {h.call.token}) \cup {minted + 1}
    BY <1>2, RefreshTables
  <2>2. answers' = answers \cup Answer(h, TRUE, h.call.lic, minted + 1)
    BY <1>2 DEF CommitRefresh
  <2>3. ASSUME h.by # None PROVE \E a \in answers' : a.ok /\ a.to = h.by
    <3>1. [to |-> h.by, ok |-> TRUE, lic |-> h.call.lic, token |-> minted + 1] \in answers'
      BY <2>2, <2>3 DEF Answer
    <3> QED BY <3>1
  <2> QED BY <2>1, <2>3
<1> QED BY <1>1, <1>2

\* a handler that ends with answers N
LEMMA EndsWith ==
  ASSUME NEW h \in handlers, NEW N, handlers' = handlers \ {h}, answers' = answers \cup N,
         \A a \in N : a.token <= minted'
  PROVE  /\ answers \subseteq answers'
         /\ \A g \in handlers' : \E j \in handlers : g.call = j.call /\ g.by = j.by
         /\ \A a \in answers' \ answers : a.token <= minted'
OBVIOUS

\* the tokens the server takes stay, but the one a refresh came with
LEMMA ServerTokens ==
  ASSUME TypeInv, NEW h \in handlers, Handle(h) \/ Vanish(h)
  PROVE  /\ \A l \in DOMAIN licenses : \A k \in licenses[l].live :
              k \in licenses'[l].live \/ (CommitRefresh(h) /\ k = h.call.token)
         /\ answers \subseteq answers'
         /\ \A g \in handlers' : \E j \in handlers : g.call = j.call /\ g.by = j.by
         /\ \A a \in answers' \ answers : a.token <= minted'
<1>0. h \in Handler /\ Tables /\ minted \in Nat
  BY NetworkTyped DEF Tables
<1>1. CASE Read(h)
  <2>1. /\ UNCHANGED <<licenses, minted>>
        /\ answers' = answers \/ answers' = answers \cup Answer(h, FALSE, 0, 0)
        /\ handlers' = handlers \ {h}
             \/ handlers' = (handlers \ {h}) \cup {[h EXCEPT !.phase = "read", !.code = CodeOf(h.call)]}
    BY <1>1 DEF Read, Refuse, server
  <2>2. [h EXCEPT !.phase = "read", !.code = CodeOf(h.call)].call = h.call /\ [h EXCEPT !.phase = "read", !.code = CodeOf(h.call)].by = h.by
    BY <1>0 DEF Handler
  <2>3. \A a \in Answer(h, FALSE, 0, 0) : a.token = 0
    BY DEF Answer
  <2>4. \A a \in answers' \ answers : a.token <= minted'
    BY <1>0, <2>1 DEF Answer
  <2>5. \A g \in handlers' : \E j \in handlers : g.call = j.call /\ g.by = j.by
    BY <2>1, <2>2
  <2> QED BY <2>1, <2>4, <2>5
<1>2. CASE CommitRedeem(h)
  <2>1. /\ handlers' = handlers \ {h}
        /\ answers' = answers \cup Answer(h, TRUE, Len(licenses) + 1, minted + 1)
    BY <1>2 DEF CommitRedeem
  <2>3. (\A l \in DOMAIN licenses : licenses'[l] = licenses[l]) /\ minted' = minted + 1
    BY <1>2, RedeemTables
  <2>4. \A a \in Answer(h, TRUE, Len(licenses) + 1, minted + 1) : a.token <= minted'
    BY <1>0, <2>3 DEF Answer
  <2>5. /\ answers \subseteq answers'
        /\ \A g \in handlers' : \E j \in handlers : g.call = j.call /\ g.by = j.by
        /\ \A a \in answers' \ answers : a.token <= minted'
    BY <2>1, <2>4, EndsWith
  <2> QED BY <2>3, <2>5
<1>3. CASE CommitRefresh(h)
  <2>1. /\ handlers' = handlers \ {h}
        /\ answers' = answers \cup Answer(h, TRUE, h.call.lic, minted + 1)
    BY <1>3 DEF CommitRefresh
  <2>3. /\ \A k \in DOMAIN licenses : k # h.call.lic => licenses'[k] = licenses[k]
        /\ licenses'[h.call.lic].live = (licenses[h.call.lic].live \ {h.call.token}) \cup {minted + 1}
        /\ minted' = minted + 1
    BY <1>3, RefreshTables
  <2>4. \A a \in Answer(h, TRUE, h.call.lic, minted + 1) : a.token <= minted'
    BY <1>0, <2>3 DEF Answer
  <2>5. /\ answers \subseteq answers'
        /\ \A g \in handlers' : \E j \in handlers : g.call = j.call /\ g.by = j.by
        /\ \A a \in answers' \ answers : a.token <= minted'
    BY <2>1, <2>4, EndsWith
  <2>6. \A l \in DOMAIN licenses : \A k \in licenses[l].live :
          k \in licenses'[l].live \/ k = h.call.token
    BY <2>3
  <2> QED BY <1>3, <2>5, <2>6
<1>4. CASE CommitFails(h)
  <2>1. /\ licenses' = licenses /\ handlers' = handlers \ {h}
        /\ \/ answers' = answers \cup Answer(h, FALSE, 0, 0) /\ minted' = minted
           \/ answers' = answers \cup Answer(h, TRUE, h.call.lic, minted + 1) /\ minted' = minted + 1
    BY <1>4 DEF CommitFails, Refuse
  <2>3. PICK N : answers' = answers \cup N /\ \A a \in N : a.token <= minted'
    <3>1. CASE answers' = answers \cup Answer(h, FALSE, 0, 0) /\ minted' = minted
      <4>1. \A a \in Answer(h, FALSE, 0, 0) : a.token <= minted'
        BY <1>0, <3>1 DEF Answer
      <4> QED BY <3>1, <4>1
    <3>2. CASE answers' = answers \cup Answer(h, TRUE, h.call.lic, minted + 1) /\ minted' = minted + 1
      <4>1. \A a \in Answer(h, TRUE, h.call.lic, minted + 1) : a.token <= minted'
        BY <1>0, <3>2 DEF Answer
      <4> QED BY <3>2, <4>1
    <3> QED BY <2>1, <3>1, <3>2
  <2> QED BY <2>1, <2>3, EndsWith
<1>5. CASE RevokeCheck(h) \/ RevokeCheckFails(h)
  <2>1. /\ UNCHANGED <<licenses, minted>> /\ handlers' = handlers \ {h}
        /\ \E ok : answers' = answers \cup Answer(h, ok, 0, 0)
    BY <1>5 DEF RevokeCheck, RevokeCheckFails, Refuse, server
  <2>2. PICK ok : answers' = answers \cup Answer(h, ok, 0, 0)
    BY <2>1
  <2>3. \A a \in Answer(h, ok, 0, 0) : a.token = 0
    BY DEF Answer
  <2>4. \A a \in Answer(h, ok, 0, 0) : a.token <= minted'
    BY <1>0, <2>1, <2>3
  <2> QED BY <2>1, <2>2, <2>4, EndsWith
<1>6. CASE Vanish(h)
  BY <1>6 DEF Vanish, server
<1> QED BY <1>1, <1>2, <1>3, <1>4, <1>5, <1>6 DEF Handle

\* a step of the client at one call
LEMMA TokensAtCall ==
  ASSUME TypeInv, TokensOK, NEW t \in Tasks, NEW c \in Call \cup {None},
         calls' = [calls EXCEPT ![t] = c], licenses' = licenses,
         answers' \subseteq answers, \A a \in answers' : a.to # t,
         \A g \in handlers' : g.call.op = "refresh" => g.by # None,
         c # None /\ c.op = "refresh" =>
           \/ stored # None /\ c.token = stored.token
           \/ Refreshes(t) /\ c.token = calls[t].token,
         \/ stored' = None
         \/ /\ stored' = stored
            /\ \A a \in answers : a.ok /\ Refreshes(a.to) => a \in answers'
         \/ \E a \in answers : Grants(a) /\ a.to = t /\ stored' = [lic |-> a.lic, token |-> a.token]
  PROVE  TokensOK'
<1>1. calls'[t] = c /\ \A u \in Tasks : u # t => calls'[u] = calls[u]
  BY NetworkTyped
<1>2. \A a \in answers' : a \in answers /\ a.to \in Tasks /\ calls'[a.to] = calls[a.to]
  BY <1>1, NetworkTyped DEF Reply
<1>3. \A a \in answers' : Grants(a)' <=> Grants(a)
  BY <1>2 DEF Grants, Saving
<1>4. \A a \in answers' : Grants(a)' => a.token \in licenses'[a.lic].live
  BY <1>2, <1>3 DEF TokensOK
<1>5. ASSUME NEW a \in answers', Grants(a) PROVE \A u \in Tasks : Refreshes(u)' => calls'[u].token # a.token
  BY <1>1, <1>2, <1>5 DEF TokensOK, Refreshes
<1>6. \A a \in answers' : Grants(a) => \A b \in answers' : Grants(b) /\ b.token = a.token => b = a
  BY <1>2 DEF TokensOK
<1>7. CASE stored' = None
  BY <1>3, <1>4, <1>5, <1>6, <1>7 DEF TokensOK
<1>8. CASE stored' = stored /\ \A a \in answers : a.ok /\ Refreshes(a.to) => a \in answers'
  <2>1. stored' # None => \/ stored'.token \in licenses'[stored'.lic].live
                          \/ \E a \in answers' : a.ok /\ Refreshes(a.to)'
    BY <1>2, <1>8 DEF TokensOK, Refreshes
  <2>2. \A a \in answers' : Grants(a) => (stored' # None => stored'.token # a.token)
    BY <1>2, <1>8 DEF TokensOK
  <2> QED BY <1>3, <1>4, <1>5, <1>6, <2>1, <2>2 DEF TokensOK
<1>9. ASSUME NEW a \in answers, Grants(a), a.to = t, stored' = [lic |-> a.lic, token |-> a.token]
      PROVE  TokensOK'
  <2>1. stored'.token \in licenses'[stored'.lic].live /\ stored'.token = a.token
    BY <1>9 DEF TokensOK
  <2>2. \A b \in answers' : Grants(b) => stored'.token # b.token
    BY <1>2, <1>9, <2>1 DEF TokensOK
  <2> QED BY <1>3, <1>4, <1>5, <1>6, <2>1, <2>2 DEF TokensOK
<1> QED BY <1>7, <1>8, <1>9

LEMMA TokensAtServer ==
  ASSUME TypeInv, Counted, TokensOK, ~lost', NEW h \in handlers, Handle(h) \/ Vanish(h)
  PROVE  TokensOK'
<1>0. h \in Handler /\ Tables /\ minted \in Nat /\ DOMAIN licenses = 1 .. Len(licenses)
  BY NetworkTyped DEF Tables
<1>1. /\ UNCHANGED <<stored, calls>> /\ answers \subseteq answers'
      /\ \A l \in DOMAIN licenses : \A k \in licenses[l].live :
           k \in licenses'[l].live \/ (CommitRefresh(h) /\ k = h.call.token)
      /\ \A g \in handlers' : \E j \in handlers : g.call = j.call /\ g.by = j.by
  BY ServerAnswers, ServerTokens
<1>2. CommitRefresh(h) => /\ Refreshes(h.by) /\ h.by \in Tasks /\ calls[h.by].token = h.call.token
                          /\ \E a \in answers' : a.ok /\ a.to = h.by
  <2> SUFFICES ASSUME CommitRefresh(h)
               PROVE  /\ Refreshes(h.by) /\ h.by \in Tasks /\ calls[h.by].token = h.call.token
                      /\ \E a \in answers' : a.ok /\ a.to = h.by
    OBVIOUS
  <2>1. h.by # None /\ h.call.op = "refresh"
    BY DEF CommitRefresh, TokensOK
  <2>2. calls[h.by] = h.call /\ h.by \in Tasks /\ h.call # None
    BY <1>0, <2>1, NoneFacts DEF TypeInv, HandlersOK, Handler
  <2> QED BY <2>1, <2>2, CommitTokens DEF Refreshes
<1>3. \A a : Grants(a)' <=> Grants(a)
  BY <1>1 DEF Grants, Saving
<1>4. \A u : Refreshes(u)' <=> Refreshes(u)
  BY <1>1 DEF Refreshes
<1>5. ASSUME NEW a \in answers', a \notin answers, Grants(a)
      PROVE  a.token = minted + 1 /\ a.token \in licenses'[a.lic].live /\ a.to = h.by
  <2>1. calls[h.by] = h.call \/ a.to # h.by \/ a.to \notin Tasks
    BY <1>0, NoneFacts DEF TypeInv, HandlersOK
  <2>2. ~(a.to = h.by /\ a.to \in Tasks /\ (~a.ok \/ h.call.op = "revoke_check"))
    BY <1>5, <2>1 DEF Grants, Saving
  <2> QED BY <1>5, <2>2, ServerAnswers, CommitTokens
<1>6. ASSUME NEW a \in answers, Grants(a) PROVE a.token \in licenses'[a.lic].live
  <2>1. a.lic \in DOMAIN licenses /\ a.token \in licenses[a.lic].live
    BY <1>6 DEF Grants, TypeInv, ClientOK, TokensOK
  <2>2. CommitRefresh(h) => a.token # h.call.token
    BY <1>2, <1>6 DEF TokensOK
  <2> QED BY <1>1, <2>1, <2>2
<1>7. ASSUME stored # None
      PROVE  \/ stored.token \in licenses'[stored.lic].live
             \/ \E a \in answers' : a.ok /\ Refreshes(a.to)
  <2>1. CASE \E a \in answers : a.ok /\ Refreshes(a.to)
    BY <1>1, <2>1
  <2>2. CASE stored.token \in licenses[stored.lic].live
    <3>1. stored.lic \in DOMAIN licenses
      BY <1>7 DEF TypeInv, ClientOK
    <3>2. CASE CommitRefresh(h)
      BY <1>2, <3>2
    <3>3. CASE ~CommitRefresh(h)
      BY <1>1, <2>2, <3>1, <3>3
    <3> QED BY <3>2, <3>3
  <2> QED BY <1>7, <2>1, <2>2 DEF TokensOK
<1>8. /\ \A a \in answers : a.token \in Nat /\ a.token <= minted
      /\ \A u \in Tasks : Refreshes(u) => calls[u].token \in Nat /\ calls[u].token <= minted
      /\ stored # None => stored.token \in Nat /\ stored.token <= minted
  BY NetworkTyped DEF Counted, Refreshes, Reply, Call
<1>9. ASSUME NEW a \in answers', Grants(a)
      PROVE  /\ \A u \in Tasks : Refreshes(u) => calls[u].token # a.token
             /\ stored # None => stored.token # a.token
             /\ \A b \in answers' : Grants(b) /\ b.token = a.token => b = a
  <2>1. CASE a \in answers
    <3>1. ASSUME NEW b \in answers', Grants(b), b.token = a.token PROVE b = a
      <4>1. b \in answers
        BY <1>0, <1>5, <1>8, <2>1, <3>1
      <4> QED BY <1>9, <2>1, <3>1, <4>1 DEF TokensOK
    <3> QED BY <1>9, <2>1, <3>1 DEF TokensOK
  <2>2. CASE a \notin answers
    <3>1. a.token = minted + 1 /\ a.to = h.by
      BY <1>5, <1>9, <2>2
    <3>2. ASSUME NEW b \in answers', Grants(b), b.token = a.token PROVE b = a
      <4>1. b \notin answers
        BY <1>0, <1>8, <3>1, <3>2
      <4>2. b.to = a.to
        BY <1>5, <3>1, <3>2, <4>1
      <4>3. OnePending'
        BY TypeStep DEF TypeInv, Next
      <4> QED BY <4>2, <4>3 DEF OnePending
    <3> QED BY <1>0, <1>8, <3>1, <3>2
  <2> QED BY <2>1, <2>2
<1>10. \A g \in handlers' : g.call.op = "refresh" => g.by # None
  BY <1>1 DEF TokensOK
<1>11. \A a \in answers' : Grants(a) => a.token \in licenses'[a.lic].live
  BY <1>5, <1>6
<1> QED BY <1>1, <1>3, <1>4, <1>7, <1>9, <1>10, <1>11 DEF TokensOK

\* a step of the client at one call, without a new token
LEMMA CountedAtCall ==
  ASSUME TypeInv, Counted, NEW t \in Tasks, NEW c \in Call \cup {None},
         calls' = [calls EXCEPT ![t] = c], minted' = minted, answers' \subseteq answers,
         c # None => c.token <= minted, stored' # None => stored'.token <= minted
  PROVE  Counted'
<1>1. calls'[t] = c /\ \A u \in Tasks : u # t => calls'[u] = calls[u]
  BY NetworkTyped
<1> QED BY <1>1 DEF Counted

LEMMA TokenStep == TokenInv /\ [Next]_vars => TokenInv'
<1> SUFFICES ASSUME TokenInv, [Next]_vars PROVE Counted' /\ (~lost' => TokensOK')
  BY TypeStep DEF TokenInv
<1>0. TypeInv /\ Tables /\ Counted /\ minted \in Nat
  BY NetworkTyped DEF TokenInv, Tables
<1>1. CASE Admin
  <2>1. UNCHANGED <<minted, handlers, answers, stored, calls, lost>>
    BY <1>1, AdminUnchanged
  <2>2. \A l \in DOMAIN licenses : licenses'[l].live = licenses[l].live
    <3>1. ASSUME NEW l \in DOMAIN licenses,
                 licenses' = [licenses EXCEPT ![l] = [licenses[l] EXCEPT !.status = "revoked"]]
          PROVE  \A k \in DOMAIN licenses : licenses'[k].live = licenses[k].live
      <4>1. licenses[l] \in License
        BY <1>0 DEF Tables
      <4>2. /\ [licenses[l] EXCEPT !.status = "revoked"] \in License
            /\ [licenses[l] EXCEPT !.status = "revoked"].live = licenses[l].live
        BY <4>1 DEF License
      <4>3. /\ licenses'[l].live = licenses[l].live
            /\ \A k \in DOMAIN licenses : k # l => licenses'[k] = licenses[k]
        BY <1>0, <3>1, <4>2, LicenseChanged
      <4> QED BY <4>3
    <3> QED BY <1>0, <1>1, <3>1, AdminRows
            DEF RequestAdded, RequestDecided, CodeInvited, LicenseRevoked
  <2>3. TokensOK => TokensOK'
    BY <1>0, <2>1, <2>2 DEF TypeInv, ClientOK, TokensOK, Grants, Refreshes, Saving
  <2> QED BY <1>0, <2>1, <2>3 DEF TokenInv, Counted
<1>2. ASSUME NEW h \in handlers, Handle(h) \/ Vanish(h)
      PROVE  Counted' /\ (~lost' => TokensOK')
  <2>1. UNCHANGED <<stored, calls>> /\ (lost => lost') /\ minted <= minted' /\ minted' \in Nat
    BY <1>0, <1>2, ServerAnswers DEF TablesKept, Tables
  <2>2. \A a \in answers' : a.token <= minted'
    <3>1. \A a \in answers : a.token \in Nat /\ a.token <= minted
      BY <1>0, NetworkTyped DEF Counted, Reply
    <3>2. \A a \in answers' \ answers : a.token <= minted'
      BY <1>0, <1>2, ServerTokens
    <3> QED BY <1>0, <2>1, <3>1, <3>2
  <2>3. /\ \A t \in Tasks : calls[t] # None => calls[t].token \in Nat /\ calls[t].token <= minted
        /\ stored # None => stored.token \in Nat /\ stored.token <= minted
    BY <1>0, NetworkTyped DEF Counted, Call
  <2>4. Counted'
    BY <1>0, <2>1, <2>2, <2>3 DEF Counted
  <2> QED BY <1>0, <1>2, <2>1, <2>4, TokensAtServer DEF TokenInv
<1>3. ASSUME NEW t \in Tasks, NEW c \in Call, calls[t] = None, Send(t, c),
             UNCHANGED <<server, answers, stored, ghosts>>,
             IF c.op = "refresh" THEN stored # None /\ c.token = stored.token ELSE c.token = 0
      PROVE  Counted' /\ (~lost' => TokensOK')
  <2>1. /\ UNCHANGED <<licenses, minted, answers, stored, lost>>
        /\ calls' = [calls EXCEPT ![t] = c]
        /\ handlers' = handlers \cup {[by |-> t, call |-> c, phase |-> "sent", code |-> 0]}
    BY <1>3 DEF server, ghosts, Send
  <2>2. \A a \in answers : a.to # t
    BY <1>0, <1>3, NothingPending
  <2>3. c.token <= minted /\ (stored # None => stored.token <= minted)
    BY <1>0, <1>3 DEF Counted
  <2>4. Counted'
    BY <1>0, <2>1, <2>3, CountedAtCall
  <2>5. ASSUME TokensOK PROVE \A g \in handlers' : g.call.op = "refresh" => g.by # None
    BY <2>1, <2>5, NoneFacts DEF TokensOK
  <2>6. TokensOK => TokensOK'
    BY <1>0, <1>3, <2>1, <2>2, <2>5, TokensAtCall
  <2> QED BY <2>1, <2>4, <2>6 DEF TokenInv
<1>4. ASSUME NEW t \in Tasks, NEW op \in {"redeem", "redeem_by_code"}, Redeem(t, op)
      PROVE  Counted' /\ (~lost' => TokensOK')
  <2>1. PICK r \in IF op = "redeem" THEN DOMAIN requests ELSE DOMAIN codes :
          Send(t, [op |-> op, of |-> r, lic |-> 0, token |-> 0, try |-> 1])
    BY <1>4 DEF Redeem
  <2> DEFINE c == [op |-> op, of |-> r, lic |-> 0, token |-> 0, try |-> 1]
  <2>2. c \in Call /\ c.op # "refresh" /\ c.token = 0
    <3>1. DOMAIN requests \subseteq Nat /\ DOMAIN codes \subseteq Nat
      BY <1>0 DEF Tables
    <3> QED BY <3>1 DEF Call, Ops
  <2> QED BY <1>3, <1>4, <2>1, <2>2 DEF Redeem
<1>5. ASSUME NEW t \in Tasks, NEW op \in {"refresh", "revoke_check"}, Ask(t, op)
      PROVE  Counted' /\ (~lost' => TokensOK')
  <2> DEFINE c == [op |-> op, of |-> 0, lic |-> stored.lic, try |-> 1,
                   token |-> IF op = "refresh" THEN stored.token ELSE 0]
  <2>1. stored \in [lic: Nat, token: Nat]
    BY <1>0, <1>5, NetworkTyped DEF Ask
  <2>2. c \in Call /\ (IF c.op = "refresh" THEN stored # None /\ c.token = stored.token ELSE c.token = 0)
    BY <1>5, <2>1 DEF Call, Ops, Ask
  <2> QED BY <1>3, <1>5, <2>2 DEF Ask
<1>6. ASSUME NEW t \in Tasks, Retry(t)
      PROVE  Counted' /\ (~lost' => TokensOK')
  <2> DEFINE again == [calls[t] EXCEPT !.try = @ + 1]
  <2>1. /\ answers' \subseteq answers /\ \A a \in answers' : a.to # t
        /\ answers' = answers \ AnswersTo(t)
        /\ UNCHANGED <<licenses, minted, stored>> /\ (lost \/ LosesToken(t) => lost')
    BY <1>6, NetworkTyped DEF Retry, AnswersTo, server
  <2>2. /\ again \in Call /\ again.op = calls[t].op /\ again.token = calls[t].token
        /\ calls[t] # None /\ again.token <= minted
    BY <1>0, <1>6, NetworkTyped DEF Retry, Call, Counted
  <2>3. PICK c \in {again, None} :
          /\ calls' = [calls EXCEPT ![t] = c]
          /\ \A g \in handlers' : g \in Abandoned({t}) \/ (g.by = t)
    BY <1>6 DEF Retry, SendAgain, GiveUp
  <2>4. c \in Call \cup {None} /\ (c # None => c.token <= minted)
    BY <2>2, <2>3
  <2>5. Counted'
    BY <1>0, <2>1, <2>3, <2>4, CountedAtCall DEF Counted
  <2>6. ASSUME ~lost', TokensOK PROVE TokensOK'
    <3>1. Refreshes(t) => Mine(t) = {} /\ \A a \in AnswersTo(t) : ~a.ok
      BY <2>1, <2>6 DEF LosesToken, Refreshes
    <3>2. ASSUME NEW g \in handlers', g.call.op = "refresh" PROVE g.by # None
      <4>1. CASE g.by = t
        BY <4>1, NoneFacts
      <4>2. CASE g \in Abandoned({t})
        <5>1. PICK h \in handlers : g = IF h.by \in {t} THEN [h EXCEPT !.by = None] ELSE h
          BY <4>2 DEF Abandoned
        <5>2. g.call = h.call /\ h \in Handler
          BY <1>0, <5>1, NetworkTyped DEF Handler
        <5>3. h.by # t
          BY <1>0, <2>2, <3>1, <3>2, <5>2, NoneFacts DEF TypeInv, HandlersOK, Refreshes, Mine
        <5> QED BY <2>6, <3>2, <5>1, <5>2, <5>3 DEF TokensOK
      <4> QED BY <2>3, <4>1, <4>2
    <3>3. \A a \in answers : a.ok /\ Refreshes(a.to) => a \in answers'
      BY <2>1, <3>1 DEF AnswersTo
    <3>4. c # None /\ c.op = "refresh" => Refreshes(t) /\ c.token = calls[t].token
      BY <2>2, <2>3 DEF Refreshes
    <3> QED BY <1>0, <2>1, <2>3, <2>4, <2>6, <3>2, <3>3, <3>4, TokensAtCall
  <2> QED BY <2>1, <2>5, <2>6 DEF TokenInv
<1>7. ASSUME NEW t \in Tasks, Receive(t)
      PROVE  Counted' /\ (~lost' => TokensOK')
  <2>1. PICK a \in AnswersTo(t) :
           /\ a \in answers /\ a \in Reply /\ a.to = t /\ calls[t] # None /\ Done(t, a)
           /\ Taken(t, a)
    BY <1>0, <1>7, Receipts
  <2>2. /\ calls' = [calls EXCEPT ![t] = None] /\ answers' = answers \ {a} /\ handlers' = handlers
        /\ UNCHANGED <<licenses, minted>> /\ \A b \in answers' : b.to # t
    BY <1>0, <2>1, NothingPending DEF Done, server
  <2>3. lost => lost'
    BY <2>1 DEF Taken
  <2>4. stored' # None => stored'.token <= minted
    <3>1. a.token <= minted /\ (stored # None => stored.token <= minted)
      BY <1>0, <2>1 DEF Counted
    <3> QED BY <2>1, <3>1 DEF Clear, Taken
  <2>5. Counted'
    BY <1>0, <2>2, <2>4, CountedAtCall
  <2>6. ASSUME ~lost', TokensOK PROVE TokensOK'
    <3>1. \A g \in handlers' : g.call.op = "refresh" => g.by # None
      BY <2>2, <2>6 DEF TokensOK
    <3>2. \/ stored' = None
          \/ /\ stored' = stored
             /\ \A b \in answers : b.ok /\ Refreshes(b.to) => b \in answers'
          \/ Grants(a) /\ stored' = [lic |-> a.lic, token |-> a.token]
      <4>1. CASE stored' = stored /\ ~(a.ok /\ Refreshes(t))
        BY <2>1, <2>2, <4>1
      <4>2. CASE a.ok /\ Saving(t) /\ stored' = [lic |-> a.lic, token |-> a.token]
        BY <2>1, <4>2 DEF Grants
      <4>3. CASE stored' = None
        BY <4>3
      <4>4. ~Saving(t) => ~Refreshes(t)
        BY DEF Saving, Refreshes
      <4>5. \/ ~a.ok /\ stored' = stored
            \/ a.ok /\ Saving(t) /\ stored' = [lic |-> a.lic, token |-> a.token]
            \/ stored' = stored /\ (calls[t].op = "refresh" => lost')
            \/ ~Saving(t) /\ stored' \in {None, stored}
        BY <2>1 DEF Taken, Clear
      <4>6. (calls[t].op = "refresh" => lost') => ~Refreshes(t)
        BY <2>6 DEF Refreshes
      <4> QED BY <4>1, <4>2, <4>3, <4>4, <4>5, <4>6
    <3> QED BY <1>0, <2>1, <2>2, <2>6, <3>1, <3>2, TokensAtCall
  <2> QED BY <2>3, <2>5, <2>6 DEF TokenInv
<1>8. CASE Deactivate
  <2>1. /\ UNCHANGED <<licenses, minted, handlers, answers, calls>> /\ stored' \in {None, stored}
        /\ lost => lost'
    BY <1>8 DEF Deactivate, Clear, server, network
  <2>2. TokensOK => TokensOK'
    BY <2>1 DEF TokensOK, Grants, Refreshes, Saving
  <2> QED BY <1>0, <2>1, <2>2 DEF TokenInv, Counted
<1>9. CASE Quit
  <2>1. /\ UNCHANGED <<licenses, minted, stored>> /\ (lost => lost')
        /\ calls' = [t \in Tasks |-> None] /\ answers' = {} /\ handlers' = Abandoned(Tasks)
        /\ ((\E t \in Tasks : LosesToken(t)) => lost')
    BY <1>9 DEF Quit, server
  <2>2. ASSUME ~lost', TokensOK PROVE TokensOK'
    <3>1. \A t \in Tasks : ~LosesToken(t)
      BY <2>1, <2>2
    <3>2. \A h \in handlers : h.call.op = "refresh" => h.by # None /\ h.by \notin Tasks
      <4> SUFFICES ASSUME NEW h \in handlers, h.call.op = "refresh"
                   PROVE  h.by # None /\ h.by \notin Tasks
        OBVIOUS
      <4>1. h.by # None /\ h \in Handler /\ h.call # None
        BY <1>0, <2>2, NetworkTyped, NoneFacts DEF TokensOK, Handler
      <4>2. h.by \in Tasks => calls[h.by] = h.call
        BY <1>0, <4>1 DEF TypeInv, HandlersOK
      <4>3. h.by \in Tasks => LosesToken(h.by)
        BY <4>1, <4>2 DEF LosesToken, Mine
      <4> QED BY <3>1, <4>1, <4>3
    <3>3. \A g \in handlers' : g.call.op # "refresh"
      <4> SUFFICES ASSUME NEW g \in handlers', g.call.op = "refresh" PROVE FALSE
        OBVIOUS
      <4>1. PICK h \in handlers : g = IF h.by \in Tasks THEN [h EXCEPT !.by = None] ELSE h
        BY <2>1 DEF Abandoned
      <4>2. h \in Handler /\ g.call = h.call
        BY <1>0, <4>1, NetworkTyped DEF Handler
      <4> QED BY <3>2, <4>2 DEF Handler
    <3>4. \A a \in answers : ~(a.ok /\ Refreshes(a.to))
      BY <1>0, <3>1, NetworkTyped DEF Refreshes, LosesToken, AnswersTo, Reply
    <3> QED BY <2>1, <2>2, <3>3, <3>4 DEF TokensOK
  <2>3. Counted'
    BY <1>0, <2>1 DEF Counted
  <2> QED BY <2>1, <2>2, <2>3 DEF TokenInv
<1>10. CASE UNCHANGED vars
  <2>1. UNCHANGED <<licenses, minted, handlers, answers, stored, calls, lost>>
    BY <1>10 DEF vars, server, network, client, ghosts
  <2>2. TokensOK => TokensOK'
    BY <2>1 DEF TokensOK, Grants, Refreshes, Saving
  <2> QED BY <1>0, <2>1, <2>2 DEF TokenInv, Counted
<1> QED BY <1>1, <1>2, <1>4, <1>5, <1>6, <1>7, <1>8, <1>9, <1>10 DEF Next, Admin

\* What the client has stored is the current token of its license at the server,
\* whatever refreshes and redemptions overlap there, unless an answer with a new
\* token was lost.
THEOREM TokenTheorem == Spec => []TokenUsable
<1>1. Init => TokenInv
  <2>1. Init => Counted /\ TokensOK
    BY DEF Init, Counted, TokensOK
  <2> QED BY <2>1, InitTyped DEF TokenInv
<1>2. TokenInv => TokenUsable
  <2>1. \A a \in answers : TypeInv /\ Refreshes(a.to) => a.to \in Tasks /\ Saving(a.to)
    BY NetworkTyped DEF Refreshes, Saving, Reply
  <2> QED BY <2>1 DEF TokenInv, TokensOK, TokenUsable
<1> QED BY <1>1, <1>2, TokenStep, PTL DEF Spec
-----------------------------------------------------------------------------
(* Grants *)

Issued(g) == {l \in DOMAIN licenses : licenses[l].for = g}
ReadFor(g) == {h \in handlers : h.phase = "read" /\ Grant(h.call) = g}

\* what a license was granted for is a request or a code the server knows
GrantsKnown ==
  \A l \in DOMAIN licenses :
    \/ \E r \in DOMAIN requests : licenses[l].for = <<"redeem", r>>
    \/ \E k \in DOMAIN codes : licenses[l].for = <<"redeem_by_code", k>>

\* handlers that have read for the same grant and are not the same are recorded
OneReader ==
  \A h, k \in handlers : h.phase = "read" /\ k.phase = "read" /\ Grant(h.call) = Grant(k.call)
    => h = k \/ Grant(h.call) \in slipped

\* An approved request, and one that a handler has read as approved, was approved
\* once more than it was redeemed.
RedeemedOK(r) ==
  LET n == Cardinality(Issued(<<"redeem", r>>))
  IN /\ n <= requests[r].approvals
     /\ requests[r].status = "approved" \/ ReadFor(<<"redeem", r>>) # {}
          => n + 1 <= requests[r].approvals

\* A pending request was never approved; who holds it pending is the only one
\* who approves it.
ApprovedOK(r) ==
  /\ requests[r].status = "pending" => requests[r].approvals = 0
  /\ <<"approve", r>> \notin slipped => requests[r].open + requests[r].approvals <= 1

\* the uses of a code cover the licenses it gave, and a handler has one left
CodeOK(k) ==
  LET g == <<"redeem_by_code", k>>
  IN /\ Cardinality(Issued(g)) <= codes[k].used
     /\ ReadFor(g) # {} => Cardinality(Issued(g)) < codes[k].max

RequestsOK ==
  \A r \in DOMAIN requests : (<<"redeem", r>> \notin slipped => RedeemedOK(r)) /\ ApprovedOK(r)

CodesOK ==
  \A k \in DOMAIN codes :
    codes[k].used <= codes[k].max /\ (<<"redeem_by_code", k>> \notin slipped => CodeOK(k))

GrantsOK == GrantsKnown /\ OneReader /\ RequestsOK /\ CodesOK

GrantsInv == TypeInv /\ GrantsOK

LEMMA IssuedFinite ==
  ASSUME Tables, NEW g PROVE IsFiniteSet(Issued(g)) /\ Cardinality(Issued(g)) \in Nat
<1>1. IsFiniteSet(1 .. Len(licenses))
  BY FS_Interval DEF Tables
<1>2. Issued(g) \in SUBSET (1 .. Len(licenses))
  BY DEF Issued, Tables
<1> QED BY <1>1, <1>2, FS_Subset, FS_CardinalityType

LEMMA RowTypes ==
  ASSUME Tables
  PROVE  /\ \A r \in DOMAIN requests : requests[r].open \in Nat /\ requests[r].approvals \in Nat
         /\ \A k \in DOMAIN codes : codes[k].used \in Nat /\ codes[k].max \in Nat
<1>1. /\ \A r \in DOMAIN requests : requests[r] \in Request
      /\ \A k \in DOMAIN codes : codes[k] \in Code
  BY DEF Tables
<1> QED BY <1>1 DEF Request, Code

\* what does not exist yet has no license and no handler
LEMMA NothingYet ==
  ASSUME GrantsInv
  PROVE  /\ \A r : r \notin DOMAIN requests => Issued(<<"redeem", r>>) = {} /\ ReadFor(<<"redeem", r>>) = {}
         /\ \A k : k \notin DOMAIN codes =>
              Issued(<<"redeem_by_code", k>>) = {} /\ ReadFor(<<"redeem_by_code", k>>) = {}
<1>1. ASSUME NEW r, r \notin DOMAIN requests
      PROVE  Issued(<<"redeem", r>>) = {} /\ ReadFor(<<"redeem", r>>) = {}
  <2>1. Issued(<<"redeem", r>>) = {}
    BY <1>1 DEF Issued, GrantsInv, GrantsOK, GrantsKnown
  <2>2. \A h \in handlers : h.call.op = "redeem" => h.call.of \in DOMAIN requests
    BY HandlerNames DEF GrantsInv
  <2> QED BY <1>1, <2>1, <2>2 DEF ReadFor, Grant
<1>2. ASSUME NEW k, k \notin DOMAIN codes
      PROVE  Issued(<<"redeem_by_code", k>>) = {} /\ ReadFor(<<"redeem_by_code", k>>) = {}
  <2>1. Issued(<<"redeem_by_code", k>>) = {}
    BY <1>2 DEF Issued, GrantsInv, GrantsOK, GrantsKnown
  <2>2. \A h \in handlers : h.call.op = "redeem_by_code" => h.call.of \in DOMAIN codes
    BY HandlerNames DEF GrantsInv
  <2> QED BY <1>2, <2>1, <2>2 DEF ReadFor, Grant
<1> QED BY <1>1, <1>2

\* no license is granted, and no handler starts to work on a grant
Quiet ==
  /\ TablesKept /\ Len(licenses') = Len(licenses) /\ slipped \subseteq slipped'
  /\ \A h \in handlers' : h.phase = "read" =>
       \E j \in handlers : j.phase = "read" /\ j.call = h.call
  /\ \A h, k \in handlers' :
       h.phase = "read" /\ k.phase = "read" /\ Grant(h.call) = Grant(k.call)
         => h = k \/ Grant(h.call) \in slipped

LEMMA QuietFacts ==
  ASSUME GrantsInv, Quiet
  PROVE  /\ Tables /\ Tables' /\ GrantsKnown' /\ OneReader'
         /\ \A g : Issued(g)' = Issued(g)
         /\ \A g : ReadFor(g)' # {} => ReadFor(g) # {}
<1>0. TypeInv /\ Tables /\ Tables' /\ GrantsKnown
  BY NetworkTyped DEF GrantsInv, GrantsOK, TablesKept, Quiet
<1>1. DOMAIN licenses' = DOMAIN licenses /\ DOMAIN requests \subseteq DOMAIN requests'
      /\ DOMAIN codes \subseteq DOMAIN codes'
  BY <1>0 DEF Tables, TablesKept, Quiet
<1>2. \A g : Issued(g)' = Issued(g)
  BY <1>1 DEF Issued, TablesKept, Quiet
<1>3. \A g : ReadFor(g)' # {} => ReadFor(g) # {}
  BY DEF ReadFor, Grant, Quiet
<1>4. GrantsKnown'
  BY <1>0, <1>1 DEF GrantsKnown, TablesKept, Quiet
<1>5. OneReader'
  BY DEF OneReader, Grant, Quiet
<1> QED BY <1>0, <1>2, <1>3, <1>4, <1>5

LEMMA CodesQuiet ==
  ASSUME GrantsInv, Quiet, \A k \in DOMAIN codes : codes'[k] = codes[k],
         \A k \in DOMAIN codes' \ DOMAIN codes : codes'[k].used = 0
  PROVE  CodesOK'
<1> SUFFICES ASSUME NEW k \in DOMAIN codes'
             PROVE  /\ codes'[k].used <= codes'[k].max
                    /\ <<"redeem_by_code", k>> \notin slipped' => CodeOK(k)'
  BY DEF CodesOK
<1> DEFINE g == <<"redeem_by_code", k>>
<1>1. /\ Tables' /\ Issued(g)' = Issued(g) /\ (ReadFor(g)' # {} => ReadFor(g) # {})
      /\ codes'[k].used \in Nat /\ codes'[k].max \in Nat
  <2>1. Tables'
    BY QuietFacts
  <2>2. codes'[k].used \in Nat /\ codes'[k].max \in Nat
    <3>1. codes'[k] \in Code
      BY <2>1 DEF Tables
    <3> QED BY <3>1 DEF Code
  <2> QED BY <2>1, <2>2, QuietFacts
<1>2. CASE k \in DOMAIN codes
  BY <1>1, <1>2 DEF GrantsInv, GrantsOK, CodesOK, CodeOK, Quiet
<1>3. CASE k \notin DOMAIN codes
  <2>1. Issued(g)' = {} /\ ReadFor(g)' = {} /\ Cardinality({}) = 0 /\ codes'[k].used = 0
    BY <1>1, <1>3, NothingYet, FS_EmptySet
  <2>2. Cardinality(Issued(g)') = 0
    BY <2>1
  <2>3. Cardinality(Issued(g)') <= codes'[k].used /\ ReadFor(g)' = {}
    BY <2>1, <2>2
  <2> QED BY <1>1, <2>1, <2>3 DEF CodeOK
<1> QED BY <1>2, <1>3

\* how the rows of requests may change while nothing is granted
RowsMove ==
  \A r \in DOMAIN requests :
    LET old == requests[r]
        row == requests'[r]
    IN row = old \/ RowMoves(old, row, <<"approve", r>>, slipped')

RowsNew ==
  \A r \in DOMAIN requests' \ DOMAIN requests :
    LET row == requests'[r]
    IN /\ row.open = 0
       /\ \/ row.status = "pending" /\ row.approvals = 0
          \/ row.status = "approved" /\ row.approvals = 1

LEMMA RequestsQuiet ==
  ASSUME GrantsInv, Quiet, RowsMove, RowsNew PROVE RequestsOK'
<1> SUFFICES ASSUME NEW r \in DOMAIN requests'
             PROVE  (<<"redeem", r>> \notin slipped' => RedeemedOK(r)') /\ ApprovedOK(r)'
  BY DEF RequestsOK
<1> DEFINE g == <<"redeem", r>>
           n == Cardinality(Issued(g))
<1>1. /\ Tables /\ Tables' /\ Issued(g)' = Issued(g) /\ (ReadFor(g)' # {} => ReadFor(g) # {})
      /\ n \in Nat /\ requests'[r].open \in Nat /\ requests'[r].approvals \in Nat
  <2>1. Tables /\ Tables'
    BY QuietFacts
  <2>2. requests'[r].open \in Nat /\ requests'[r].approvals \in Nat
    <3>1. requests'[r] \in Request
      BY <2>1 DEF Tables
    <3> QED BY <3>1 DEF Request
  <2> QED BY <2>1, <2>2, QuietFacts, IssuedFinite
<1>2. CASE r \in DOMAIN requests
  <2> DEFINE old == requests[r]
             row == requests'[r]
  <2>1. /\ old.open \in Nat /\ old.approvals \in Nat /\ ApprovedOK(r)
        /\ g \notin slipped' => RedeemedOK(r)
    BY <1>1, <1>2, RowTypes DEF GrantsInv, GrantsOK, RequestsOK, Quiet
  <2>2. row = old \/ RowMoves(old, row, <<"approve", r>>, slipped')
    BY <1>2 DEF RowsMove
  <2>3. g \notin slipped' => /\ n <= row.approvals
                             /\ row.status = "approved" \/ ReadFor(g)' # {} => n + 1 <= row.approvals
    <3> SUFFICES ASSUME g \notin slipped'
                 PROVE  /\ n <= row.approvals
                        /\ row.status = "approved" \/ ReadFor(g)' # {} => n + 1 <= row.approvals
      OBVIOUS
    <3>1. /\ n <= old.approvals
          /\ old.status = "approved" \/ ReadFor(g)' # {} => n + 1 <= old.approvals
      BY <1>1, <2>1 DEF RedeemedOK
    <3> HIDE DEF n, g
    <3> QED BY <1>1, <2>1, <2>2, <3>1 DEF RowMoves
  <2>4. ApprovedOK(r)'
    <3>1. /\ old.status = "pending" => old.approvals = 0
          /\ <<"approve", r>> \notin slipped' => old.open + old.approvals <= 1
      BY <2>1 DEF ApprovedOK, Quiet
    <3>2. /\ row.status = "pending" => row.approvals = 0
          /\ <<"approve", r>> \notin slipped' => row.open + row.approvals <= 1
      BY <1>1, <2>1, <2>2, <3>1 DEF RowMoves
    <3> QED BY <3>2 DEF ApprovedOK
  <2> QED BY <1>1, <2>3, <2>4 DEF RedeemedOK
<1>3. CASE r \notin DOMAIN requests
  <2>1. Issued(g)' = {} /\ ReadFor(g)' = {} /\ Cardinality({}) = 0
    BY <1>1, <1>3, NothingYet, FS_EmptySet
  <2>2. Cardinality(Issued(g)') = 0
    BY <2>1
  <2>3. RedeemedOK(r)'
    BY <1>1, <1>3, <2>1, <2>2 DEF RedeemedOK, RowsNew
  <2>4. ApprovedOK(r)'
    BY <1>1, <1>3 DEF ApprovedOK, RowsNew
  <2> QED BY <2>3, <2>4
<1> QED BY <1>2, <1>3

LEMMA GrantsKept ==
  ASSUME GrantsInv, Quiet, UNCHANGED <<requests, codes>> PROVE GrantsOK'
<1>1. RowsMove /\ RowsNew
  BY DEF RowsMove, RowsNew
<1> QED BY <1>1, QuietFacts, CodesQuiet, RequestsQuiet DEF GrantsOK

\* The transaction of a redemption is one more license for its grant.
LEMMA GrantsCommit ==
  ASSUME GrantsInv, NEW h \in handlers, CommitRedeem(h) PROVE GrantsOK'
<1> DEFINE r == h.call.of
           g == Grant(h.call)
           lic == Len(licenses) + 1
<1>0. /\ TypeInv /\ Tables /\ GrantsOK /\ TablesKept /\ Tables' /\ h \in Handler
      /\ h.phase = "read" /\ g = <<h.call.op, r>>
      /\ \/ h.call.op = "redeem" /\ r \in DOMAIN requests
         \/ h.call.op = "redeem_by_code" /\ r \in DOMAIN codes
  BY RedeemTables, HandlerNames DEF GrantsInv, TablesKept, CommitRedeem, Grant
<1>1. /\ handlers' = handlers \ {h} /\ slipped' \in {slipped, slipped \cup {g}}
      /\ Len(licenses') = lic
      /\ \A l \in DOMAIN licenses : licenses'[l] = licenses[l]
      /\ licenses'[lic].for = g
  <2>1. handlers' = handlers \ {h}
    BY DEF CommitRedeem
  <2>2. licenses'[lic] = [status |-> "active", live |-> {minted + 1}, for |-> g]
    BY <1>0, RedeemTables
  <2>3. /\ slipped' \in {slipped, slipped \cup {g}} /\ Len(licenses') = lic
        /\ \A l \in DOMAIN licenses : licenses'[l] = licenses[l]
    BY <1>0, RedeemTables
  <2> HIDE DEF g, lic
  <2> QED BY <2>1, <2>2, <2>3
<1>2. /\ DOMAIN requests' = DOMAIN requests /\ DOMAIN codes' = DOMAIN codes
      /\ DOMAIN licenses' = DOMAIN licenses \cup {lic} /\ lic \notin DOMAIN licenses
  BY <1>0, <1>1, RedeemRequests, RedeemCodes DEF Tables
<1>3. Issued(g)' = Issued(g) \cup {lic} /\ lic \notin Issued(g)
  <2>1. g' = g
    BY DEF Grant
  <2>2. Issued(g)' = {l \in DOMAIN licenses' : licenses'[l].for = g'}
    BY DEF Issued
  <2> HIDE DEF g, lic
  <2> QED BY <1>1, <1>2, <2>1, <2>2 DEF Issued
<1>4. \A f : f # g => Issued(f)' = Issued(f)
  BY <1>1, <1>2 DEF Issued
<1>5. \A f : ReadFor(f)' \subseteq ReadFor(f)
  BY <1>1 DEF ReadFor
<1>6. g \notin slipped => ReadFor(g)' = {} /\ ReadFor(g) # {}
  BY <1>0, <1>1 DEF ReadFor, GrantsOK, OneReader
<1>7. \A f : Cardinality(Issued(f)) \in Nat /\ IsFiniteSet(Issued(f))
  BY <1>0, IssuedFinite
<1>8. Cardinality(Issued(g)') = Cardinality(Issued(g)) + 1
  BY <1>3, <1>7, FS_AddElement
<1> HIDE DEF r, g, lic
<1>9. GrantsKnown'
  <2>1. \A l \in DOMAIN licenses :
          \/ \E q \in DOMAIN requests : licenses[l].for = <<"redeem", q>>
          \/ \E k \in DOMAIN codes : licenses[l].for = <<"redeem_by_code", k>>
    BY <1>0 DEF GrantsOK, GrantsKnown
  <2> QED BY <1>0, <1>1, <1>2, <2>1 DEF GrantsKnown
<1>10. OneReader'
  BY <1>0, <1>1 DEF GrantsOK, OneReader
<1>11. RequestsOK'
  <2> SUFFICES ASSUME NEW q \in DOMAIN requests
               PROVE  (<<"redeem", q>> \notin slipped' => RedeemedOK(q)') /\ ApprovedOK(q)'
    BY <1>2 DEF RequestsOK
  <2> DEFINE f == <<"redeem", q>>
             n == Cardinality(Issued(f))
  <2>1. \/ requests'[q] = requests[q]
        \/ requests'[q].status = "redeemed" /\ requests'[q].approvals = requests[q].approvals
             /\ requests'[q].open = requests[q].open
    BY <1>0, RedeemRequests
  <2>2. ApprovedOK(q)'
    BY <1>0, <1>1, <2>1 DEF GrantsOK, RequestsOK, ApprovedOK
  <2>3. ASSUME f \notin slipped' PROVE RedeemedOK(q)'
    <3>1. /\ n \in Nat /\ requests[q].approvals \in Nat /\ n <= requests[q].approvals
          /\ requests[q].status = "approved" \/ ReadFor(f) # {} => n + 1 <= requests[q].approvals
      BY <1>0, <1>1, <1>7, <2>3, RowTypes DEF GrantsOK, RequestsOK, RedeemedOK
    <3>2. CASE f = g
      <4>1. q = r /\ h.call.op = "redeem"
        BY <1>0, <3>2
      <4>2. requests'[q].status = "redeemed" /\ requests'[q].approvals = requests[q].approvals
        BY <1>0, <2>1, <2>3, <3>2, <4>1, RedeemRequests DEF r, g
      <4>3. ReadFor(f)' = {} /\ n + 1 <= requests[q].approvals
        BY <1>1, <1>6, <2>3, <3>1, <3>2
      <4>4. Cardinality(Issued(f)') = n + 1
        BY <1>8, <3>2
      <4> QED BY <4>2, <4>3, <4>4 DEF RedeemedOK
    <3>3. CASE f # g
      <4>1. Issued(f)' = Issued(f) /\ ReadFor(f)' \subseteq ReadFor(f)
        BY <1>4, <1>5, <3>3
      <4> QED BY <2>1, <3>1, <4>1 DEF RedeemedOK
    <3> QED BY <3>2, <3>3
  <2> QED BY <2>2, <2>3
<1>12. CodesOK'
  <2> SUFFICES ASSUME NEW k \in DOMAIN codes
               PROVE  /\ codes'[k].used <= codes'[k].max
                      /\ <<"redeem_by_code", k>> \notin slipped' => CodeOK(k)'
    BY <1>2 DEF CodesOK
  <2> DEFINE f == <<"redeem_by_code", k>>
             n == Cardinality(Issued(f))
  <2>1. /\ codes[k].used \in Nat /\ codes[k].max \in Nat /\ codes[k].used <= codes[k].max
        /\ \/ codes'[k] = codes[k]
           \/ /\ codes[k].used < codes[k].max
              /\ codes'[k].used = codes[k].used + 1 /\ codes'[k].max = codes[k].max
    BY <1>0, RedeemCodes, RowTypes DEF GrantsOK, CodesOK
  <2>2. /\ codes'[k].used <= codes'[k].max /\ codes'[k].max = codes[k].max
        /\ codes[k].used <= codes'[k].used /\ codes'[k].used \in Nat
    BY <2>1
  <2>3. ASSUME f \notin slipped' PROVE CodeOK(k)'
    <3>1. n \in Nat /\ n <= codes[k].used /\ (ReadFor(f) # {} => n < codes[k].max)
      BY <1>0, <1>1, <1>7, <2>3 DEF GrantsOK, CodesOK, CodeOK
    <3>2. CASE f = g
      <4>1. k = r /\ h.call.op = "redeem_by_code"
        BY <1>0, <3>2
      <4>2. codes[k].used < codes[k].max => codes'[k].used = codes[k].used + 1
        BY <1>0, <2>3, <3>2, <4>1, RedeemCodes DEF r, g
      <4>3. ReadFor(f)' = {} /\ n < codes[k].max
        BY <1>1, <1>6, <2>3, <3>1, <3>2
      <4>4. Cardinality(Issued(f)') = n + 1
        BY <1>8, <3>2
      <4>5. n + 1 <= codes'[k].used
        BY <2>1, <2>2, <3>1, <4>2, <4>3
      <4> QED BY <4>3, <4>4, <4>5 DEF CodeOK
    <3>3. CASE f # g
      <4>1. Issued(f)' = Issued(f) /\ ReadFor(f)' \subseteq ReadFor(f)
        BY <1>4, <1>5, <3>3
      <4>2. n <= codes'[k].used
        BY <2>1, <2>2, <3>1
      <4> QED BY <2>2, <3>1, <4>1, <4>2 DEF CodeOK
    <3> QED BY <3>2, <3>3
  <2> QED BY <2>2, <2>3
<1> QED BY <1>9, <1>10, <1>11, <1>12 DEF GrantsOK

\* The handler that reads joins the handlers of its grant.
LEMMA GrantsRead ==
  ASSUME GrantsInv, NEW h \in handlers, ReadsOn(h) PROVE GrantsOK'
<1> DEFINE new == [h EXCEPT !.phase = "read", !.code = CodeOf(h.call)]
           g == Grant(h.call)
<1>0. TypeInv /\ Tables /\ GrantsOK /\ h \in Handler
  BY NetworkTyped DEF GrantsInv
<1>1. /\ Admits(h.call) /\ UNCHANGED <<requests, codes, licenses>>
      /\ handlers' = (handlers \ {h}) \cup {new}
      /\ slipped' = slipped \cup {Grant(h.call) : k \in
           {k \in handlers : k.phase = "read" /\ Grant(k.call) = Grant(h.call)}}
  BY DEF ReadsOn, server
<1>2. new.phase = "read" /\ new.call = h.call
  BY <1>0 DEF Handler
<1> HIDE DEF new
<1>3. /\ \A f : Issued(f)' = Issued(f)
      /\ \A f : f # g => ReadFor(f)' \subseteq ReadFor(f)
  BY <1>1, <1>2 DEF Issued, ReadFor
<1>4. slipped \subseteq slipped'
  BY <1>1
<1>5. GrantsKnown'
  BY <1>0, <1>1 DEF GrantsOK, GrantsKnown
<1>6. OneReader'
  <2>1. ASSUME NEW k \in handlers, k.phase = "read", Grant(k.call) = g PROVE g \in slipped'
    BY <1>1, <2>1
  <2> QED BY <1>0, <1>1, <1>2, <1>4, <2>1 DEF GrantsOK, OneReader
<1>7. RequestsOK'
  <2> SUFFICES ASSUME NEW r \in DOMAIN requests
               PROVE  (<<"redeem", r>> \notin slipped' => RedeemedOK(r)') /\ ApprovedOK(r)'
    BY <1>1 DEF RequestsOK
  <2>1. ApprovedOK(r)'
    BY <1>0, <1>1, <1>4 DEF GrantsOK, RequestsOK, ApprovedOK
  <2>2. ASSUME <<"redeem", r>> \notin slipped' PROVE RedeemedOK(r)'
    <3>1. RedeemedOK(r)
      BY <1>0, <1>4, <2>2 DEF GrantsOK, RequestsOK
    <3>2. <<"redeem", r>> = g => requests[r].status = "approved"
      <4>1. <<"redeem", r>> = g => h.call.op = "redeem" /\ h.call.of = r
        BY DEF Grant
      <4>2. h.call.op = "redeem" => requests[h.call.of].status = "approved"
        BY <1>1 DEF Admits
      <4> QED BY <4>1, <4>2
    <3> QED BY <1>1, <1>3, <3>1, <3>2 DEF RedeemedOK
  <2> QED BY <2>1, <2>2
<1>8. CodesOK'
  <2> SUFFICES ASSUME NEW k \in DOMAIN codes
               PROVE  /\ codes[k].used <= codes[k].max
                      /\ <<"redeem_by_code", k>> \notin slipped' => CodeOK(k)'
    BY <1>1 DEF CodesOK
  <2> DEFINE f == <<"redeem_by_code", k>>
  <2>1. codes[k].used <= codes[k].max
    BY <1>0 DEF GrantsOK, CodesOK
  <2>2. ASSUME f \notin slipped' PROVE CodeOK(k)'
    <3>1. /\ Cardinality(Issued(f)) <= codes[k].used
          /\ ReadFor(f) # {} => Cardinality(Issued(f)) < codes[k].max
      BY <1>0, <1>4, <2>2 DEF GrantsOK, CodesOK, CodeOK
    <3>2. f = g => codes[k].used < codes[k].max
      <4>1. f = g => h.call.op = "redeem_by_code" /\ h.call.of = k
        BY DEF Grant
      <4>2. h.call.op = "redeem_by_code" => codes[h.call.of].used < codes[h.call.of].max
        BY <1>1 DEF Admits
      <4> QED BY <4>1, <4>2
    <3>3. codes[k].used \in Nat /\ codes[k].max \in Nat /\ Cardinality(Issued(f)) \in Nat
      BY <1>0, IssuedFinite, RowTypes
    <3>4. ReadFor(f)' # {} => Cardinality(Issued(f)) < codes[k].max
      BY <1>3, <3>1, <3>2, <3>3
    <3> QED BY <1>1, <1>3, <3>1, <3>4 DEF CodeOK
  <2> QED BY <2>1, <2>2
<1> QED BY <1>5, <1>6, <1>7, <1>8 DEF GrantsOK

\* The steps of the administrator and of the device's requests.
LEMMA GrantsAdmin ==
  ASSUME GrantsInv, Admin PROVE GrantsOK'
<1>0. TypeInv /\ Tables /\ OneReader
  BY NetworkTyped DEF GrantsInv, GrantsOK
<1>1. TablesKept /\ handlers' = handlers /\ slipped \subseteq slipped'
  BY <1>0, AdminTables, AdminUnchanged
<1>2. /\ Len(licenses') = Len(licenses) /\ RowsMove /\ RowsNew
  <2>1. CASE RequestAdded
    <3>1. PICK row \in Request :
            /\ requests' = Append(requests, row) /\ row.open = 0
            /\ \/ row.status = "pending" /\ row.approvals = 0
               \/ row.status = "approved" /\ row.approvals = 1
      BY <2>1 DEF RequestAdded
    <3>2. /\ \A r \in DOMAIN requests : requests'[r] = requests[r]
          /\ DOMAIN requests' = DOMAIN requests \cup {Len(requests) + 1}
          /\ requests'[Len(requests) + 1] = row
      BY <1>0, <3>1, AppendProperties DEF Tables
    <3> QED BY <2>1, <3>1, <3>2 DEF RequestAdded, RowsMove, RowsNew
  <2>2. CASE RequestDecided
    <3>1. PICK r \in DOMAIN requests, row \in Request :
            /\ requests' = [requests EXCEPT ![r] = row]
            /\ RowMoves(requests[r], row, <<"approve", r>>, slipped')
      BY <2>2 DEF RequestDecided
    <3>2. /\ Len(requests') = Len(requests) /\ requests' \in Seq(Request) /\ requests'[r] = row
          /\ \A q \in DOMAIN requests : q # r => requests'[q] = requests[q]
      BY <1>0, <3>1, RequestChanged
    <3>3. DOMAIN requests' = DOMAIN requests
      BY <1>0, <3>2 DEF Tables
    <3> QED BY <2>2, <3>1, <3>2, <3>3 DEF RequestDecided, RowsMove, RowsNew
  <2>3. CASE CodeInvited
    BY <2>3 DEF CodeInvited, RowsMove, RowsNew
  <2>4. CASE LicenseRevoked
    <3>1. PICK l \in DOMAIN licenses :
               licenses' = [licenses EXCEPT ![l] = [licenses[l] EXCEPT !.status = "revoked"]]
      BY <2>4 DEF LicenseRevoked
    <3>2. Len(licenses') = Len(licenses)
      BY <1>0, <3>1 DEF Tables
    <3> QED BY <2>4, <3>2 DEF LicenseRevoked, RowsMove, RowsNew
  <2> QED BY <1>0, <2>1, <2>2, <2>3, <2>4, AdminRows
<1>3. Quiet
  BY <1>0, <1>1, <1>2 DEF Quiet, OneReader
<1>4. CodesOK'
  BY <1>0, <1>3, AdminTables, CodesQuiet
<1> QED BY <1>2, <1>3, <1>4, QuietFacts, RequestsQuiet DEF GrantsOK

\* Handlers end, are abandoned by their tasks or come new to the server.
LEMMA GrantsCarried ==
  ASSUME GrantsInv, TablesKept, Len(licenses') = Len(licenses),
         UNCHANGED <<requests, codes, slipped>>,
         NEW T \in SUBSET Tasks, NEW N, \A h \in N : h.phase = "sent",
         handlers' \subseteq handlers \cup N \/ handlers' = Abandoned(T) \cup N
  PROVE  GrantsOK'
<1>0. TypeInv /\ OneReader
  BY DEF GrantsInv, GrantsOK
<1> DEFINE Now(j) == IF handlers' \subseteq handlers \cup N THEN j
                     ELSE IF j.by \in T THEN [j EXCEPT !.by = None] ELSE j
<1>1. ASSUME NEW g \in handlers', g.phase = "read"
      PROVE  \E j \in handlers : j.phase = "read" /\ j.call = g.call /\ g = Now(j)
  <2>1. CASE handlers' \subseteq handlers \cup N
    BY <1>1, <2>1
  <2>2. CASE ~(handlers' \subseteq handlers \cup N) /\ handlers' = Abandoned(T) \cup N
    <3>1. PICK j \in handlers : g = IF j.by \in T THEN [j EXCEPT !.by = None] ELSE j
      BY <1>1, <2>2 DEF Abandoned
    <3>2. j \in Handler
      BY <1>0, NetworkTyped
    <3>3. j.phase = g.phase /\ j.call = g.call
      BY <3>1, <3>2 DEF Handler
    <3> QED BY <1>1, <2>2, <3>1, <3>3
  <2> QED BY <2>1, <2>2
<1>2. ASSUME NEW g \in handlers', NEW k \in handlers', g.phase = "read", k.phase = "read",
             Grant(g.call) = Grant(k.call)
      PROVE  g = k \/ Grant(g.call) \in slipped
  <2>1. PICK i \in handlers : i.phase = "read" /\ i.call = g.call /\ g = Now(i)
    BY <1>1, <1>2
  <2>2. PICK j \in handlers : j.phase = "read" /\ j.call = k.call /\ k = Now(j)
    BY <1>1, <1>2
  <2>3. i = j \/ Grant(g.call) \in slipped
    BY <1>0, <1>2, <2>1, <2>2 DEF OneReader
  <2> QED BY <2>1, <2>2, <2>3
<1> HIDE DEF Now
<1>3. Quiet
  BY <1>1, <1>2 DEF Quiet
<1> QED BY <1>3, GrantsKept

LEMMA GrantsServer ==
  ASSUME GrantsInv, NEW h \in handlers, Handle(h) \/ Vanish(h) PROVE GrantsOK'
<1>0. TypeInv /\ Tables
  BY NetworkTyped DEF GrantsInv
<1>1. ASSUME TablesKept, Len(licenses') = Len(licenses), UNCHANGED <<requests, codes, slipped>>,
             handlers' = handlers \ {h}
      PROVE  GrantsOK'
  <2> DEFINE N == {}
  <2>1. handlers' \subseteq handlers \cup N /\ N \in SUBSET Tasks /\ \A k \in N : k.phase = "sent"
    BY <1>1
  <2> HIDE DEF N
  <2> QED BY <1>1, <2>1, GrantsCarried
<1>2. UNCHANGED <<requests, codes, licenses, minted>> => TablesKept
  BY <1>0, TablesStay
<1>3. CASE Read(h)
  <2>1. CASE ReadsOn(h)
    BY <2>1, GrantsRead
  <2>2. CASE Refuse(h) /\ UNCHANGED <<requests, codes, licenses, minted, slipped>>
    BY <1>1, <1>2, <2>2 DEF Refuse
  <2> QED BY <1>3, <2>1, <2>2 DEF Read, ReadsOn, server
<1>4. CASE CommitRedeem(h)
  BY <1>4, GrantsCommit
<1>5. CASE CommitRefresh(h)
  <2>1. TablesKept /\ Len(licenses') = Len(licenses) /\ UNCHANGED <<requests, codes>>
    BY <1>0, <1>5, RefreshTables
  <2> QED BY <1>1, <1>5, <2>1 DEF CommitRefresh, ghosts
<1>6. CASE CommitFails(h)
  <2>1. /\ UNCHANGED <<requests, codes, licenses, slipped>> /\ handlers' = handlers \ {h}
        /\ minted' \in {minted, minted + 1}
    BY <1>6 DEF CommitFails, Refuse
  <2>2. TablesKept
    BY <1>0, <2>1, TablesStay
  <2> QED BY <1>1, <2>1, <2>2
<1>7. CASE RevokeCheck(h) \/ RevokeCheckFails(h) \/ Vanish(h)
  <2>1. UNCHANGED <<requests, codes, licenses, minted, slipped>> /\ handlers' = handlers \ {h}
    BY <1>7 DEF RevokeCheck, RevokeCheckFails, Vanish, Refuse, server, ghosts
  <2> QED BY <1>1, <1>2, <2>1
<1> QED BY <1>3, <1>4, <1>5, <1>6, <1>7 DEF Handle

LEMMA GrantsStep == GrantsInv /\ [Next]_vars => GrantsInv'
<1> SUFFICES ASSUME GrantsInv, [Next]_vars PROVE GrantsOK'
  BY TypeStep DEF GrantsInv
<1>0. ASSUME UNCHANGED <<requests, codes, licenses, minted, slipped>>,
             NEW T \in SUBSET Tasks, NEW N, \A h \in N : h.phase = "sent",
             handlers' \subseteq handlers \cup N \/ handlers' = Abandoned(T) \cup N
      PROVE  GrantsOK'
  <2>1. TablesKept
    BY <1>0, NetworkTyped, TablesStay DEF GrantsInv
  <2> QED BY <1>0, <2>1, GrantsCarried
<1>1. CASE Admin
  BY <1>1, GrantsAdmin
<1>2. ASSUME NEW h \in handlers, Handle(h) \/ Vanish(h) PROVE GrantsOK'
  BY <1>2, GrantsServer
<1>3. ASSUME NEW t \in Tasks, NEW c, Send(t, c), UNCHANGED <<server, ghosts>> PROVE GrantsOK'
  <2> DEFINE N == {[by |-> t, call |-> c, phase |-> "sent", code |-> 0]}
  <2>1. UNCHANGED <<requests, codes, licenses, minted, slipped>> /\ handlers' = handlers \cup N
    BY <1>3 DEF Send, server, ghosts
  <2>2. (\A h \in N : h.phase = "sent") /\ {} \in SUBSET Tasks
    OBVIOUS
  <2> HIDE DEF N
  <2> QED BY <1>0, <2>1, <2>2
<1>4. ASSUME NEW t \in Tasks, Retry(t) PROVE GrantsOK'
  <2>1. UNCHANGED <<requests, codes, licenses, minted, slipped>> /\ {t} \in SUBSET Tasks
    BY <1>4 DEF Retry, server
  <2>2. PICK N : (\A h \in N : h.phase = "sent") /\ handlers' = Abandoned({t}) \cup N
    <3> DEFINE again == [calls[t] EXCEPT !.try = @ + 1]
               N == {[by |-> t, call |-> again, phase |-> "sent", code |-> 0]}
    <3>1. CASE SendAgain(t)
      <4>1. (\A h \in N : h.phase = "sent") /\ handlers' = Abandoned({t}) \cup N
        BY <3>1 DEF SendAgain
      <4> QED BY <4>1
    <3>2. CASE GiveUp(t)
      <4>1. handlers' = Abandoned({t}) \cup {}
        BY <3>2 DEF GiveUp
      <4> QED BY <4>1
    <3> QED BY <1>4, <3>1, <3>2 DEF Retry
  <2> QED BY <1>0, <2>1, <2>2
<1>5. ASSUME UNCHANGED <<server, handlers, slipped>> PROVE GrantsOK'
  <2> DEFINE N == {}
  <2>1. /\ UNCHANGED <<requests, codes, licenses, minted, slipped>>
        /\ handlers' \subseteq handlers \cup N
        /\ N \in SUBSET Tasks /\ \A h \in N : h.phase = "sent"
    BY <1>5 DEF server
  <2> HIDE DEF N
  <2> QED BY <1>0, <2>1
<1>6. CASE Quit
  <2> DEFINE N == {}
  <2>1. /\ UNCHANGED <<requests, codes, licenses, minted, slipped>>
        /\ handlers' = Abandoned(Tasks) \cup N
        /\ Tasks \in SUBSET Tasks /\ \A h \in N : h.phase = "sent"
    BY <1>6 DEF Quit, server
  <2> HIDE DEF N
  <2> QED BY <1>0, <2>1
<1>7. ASSUME NEW t \in Tasks, Receive(t) PROVE UNCHANGED <<server, handlers, slipped>>
  BY <1>7 DEF Receive, ReceiveFailure, ReceiveLicense, SaveFails, ReceiveRevoked, ClearFails, Done
<1>8. Deactivate \/ UNCHANGED vars => UNCHANGED <<server, handlers, slipped>>
  BY DEF Deactivate, vars, network, ghosts
<1>9. ASSUME NEW t \in Tasks, NEW op, Redeem(t, op) PROVE GrantsOK'
  BY <1>3, <1>9 DEF Redeem
<1>10. ASSUME NEW t \in Tasks, NEW op, Ask(t, op) PROVE GrantsOK'
  BY <1>3, <1>10 DEF Ask
<1> QED BY <1>1, <1>2, <1>4, <1>5, <1>6, <1>7, <1>8, <1>9, <1>10 DEF Next, Admin

\* A request becomes no more licenses than it was approved, and an invite code no
\* more than its limit, however often the calls are repeated and whatever the
\* administrator does meanwhile, unless two handlers of the same grant ran
\* together or its use could not be written; a request is approved once unless
\* two handlers held it pending together; and no code is counted above its limit.
THEOREM GrantsTheorem == Spec => []GrantsAccounted
<1>1. Init => GrantsInv
  <2>1. Init => GrantsOK
    BY DEF Init, GrantsOK, GrantsKnown, OneReader, RequestsOK, CodesOK
  <2> QED BY <2>1, InitTyped DEF GrantsInv
<1>2. GrantsInv => GrantsAccounted
  <2> SUFFICES ASSUME GrantsInv PROVE GrantsAccounted
    OBVIOUS
  <2>1. Tables /\ GrantsOK
    BY NetworkTyped DEF GrantsInv
  <2>2. \A g : Granted(g) = Cardinality(Issued(g))
    BY DEF Granted, Issued
  <2>3. ASSUME NEW k \in DOMAIN codes
        PROVE  /\ codes[k].used <= codes[k].max
               /\ <<"redeem_by_code", k>> \notin slipped
                    => Granted(<<"redeem_by_code", k>>) <= codes[k].max
    <3>1. codes[k].used <= codes[k].max /\ codes[k].used \in Nat /\ codes[k].max \in Nat
      BY <2>1, RowTypes DEF GrantsOK, CodesOK
    <3>2. <<"redeem_by_code", k>> \notin slipped
            => Cardinality(Issued(<<"redeem_by_code", k>>)) <= codes[k].used
      BY <2>1 DEF GrantsOK, CodesOK, CodeOK
    <3>3. Cardinality(Issued(<<"redeem_by_code", k>>)) \in Nat
      BY <2>1, IssuedFinite
    <3> QED BY <2>2, <3>1, <3>2, <3>3
  <2>4. ASSUME NEW r \in DOMAIN requests
        PROVE  /\ <<"redeem", r>> \notin slipped => Granted(<<"redeem", r>>) <= requests[r].approvals
               /\ <<"approve", r>> \notin slipped => requests[r].approvals <= 1
    <3>1. requests[r].open \in Nat /\ requests[r].approvals \in Nat
      BY <2>1, RowTypes
    <3>2. <<"approve", r>> \notin slipped => requests[r].approvals <= 1
      <4>1. ApprovedOK(r)
        BY <2>1 DEF GrantsOK, RequestsOK
      <4>2. <<"approve", r>> \notin slipped => requests[r].open + requests[r].approvals <= 1
        BY <4>1 DEF ApprovedOK
      <4> QED BY <3>1, <4>2
    <3> QED BY <2>1, <2>2, <3>2 DEF GrantsOK, RequestsOK, RedeemedOK
  <2> QED BY <2>3, <2>4 DEF GrantsAccounted
<1> QED BY <1>1, <1>2, GrantsStep, PTL DEF Spec
=============================================================================
