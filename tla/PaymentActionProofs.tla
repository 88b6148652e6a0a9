------------------------ MODULE PaymentActionProofs ------------------------
(***************************************************************************)
(* The action properties of PaymentRequest, for every value of the         *)
(* constants: what a single call may do to the records (RecordsImmutable) *)
(* and who may make each change (TransitionsAuthorized).  Each rests on   *)
(* the type invariant, proved in PaymentRequestProofs.                    *)
(***************************************************************************)
EXTENDS PaymentRequestProofs

-----------------------------------------------------------------------------
(* RecordsImmutable.                                                       *)

\* A step that writes neither DataKey::Request nor DataKey::ReferenceIndex.
LEMMA StaticImmutable ==
    ASSUME requests' = requests, refIndex' = refIndex
    PROVE  RecordsImmutableStep
BY DEF RecordsImmutableStep

\* The rewrite of one Pending record by mark_paid, cancel_request or
\* mark_expired touches only its status, paid_at and payment_id.
LEMMA TerminalImmutable ==
    ASSUME TypeOK, NEW id \in DOMAIN requests, NEW s, NEW pa, NEW pi,
           requests[id].status = "Pending",
           \/ requests' = [requests EXCEPT ![id].status = s,
                                           ![id].paid_at = pa,
                                           ![id].payment_id = pi]
           \/ requests' = [requests EXCEPT ![id].status = s],
           refIndex' = refIndex
    PROVE  RecordsImmutableStep
<1>1. requests[id] \in PaymentRequestRec
  BY DEF TypeOK
<1>2. DOMAIN requests' = DOMAIN requests
  OBVIOUS
<1>3. \A i \in DOMAIN requests \ {id} : requests'[i] = requests[i]
  OBVIOUS
<1>4. /\ requests'[id].merchant = requests[id].merchant
      /\ requests'[id].amount = requests[id].amount
      /\ requests'[id].reference = requests[id].reference
      /\ requests'[id].created_at = requests[id].created_at
      /\ requests'[id].expires_at = requests[id].expires_at
  BY <1>1 DEF PaymentRequestRec
<1>5. QED
  BY <1>2, <1>3, <1>4 DEF RecordsImmutableStep

\* create_request adds a record and an index entry under keys it has just
\* checked to be absent.
LEMMA CreateImmutable ==
    ASSUME TypeOK, NEW c \in Principals, NEW id \in RequestIds,
           NEW a \in Amounts, NEW r \in References, NEW e \in Time,
           CreateRequest(c, id, a, r, e)
    PROVE  RecordsImmutableStep
<1> DEFINE err == CreateRequestError(c, id, a, r, e)
<1>1. CASE err # "Ok"
  BY <1>1, StaticImmutable DEF CreateRequest, Fail, ledger
<1>2. CASE err = "Ok"
  <2>1. id \notin DOMAIN requests /\ r \notin DOMAIN refIndex
    BY <1>2 DEF CreateRequestError
  <2>2. /\ DOMAIN requests' = DOMAIN requests \cup {id}
        /\ \A i \in DOMAIN requests : requests'[i] = requests[i]
    BY <1>2, <2>1 DEF CreateRequest, Fail
  <2>3. /\ DOMAIN refIndex' = DOMAIN refIndex \cup {r}
        /\ \A x \in DOMAIN refIndex : refIndex'[x] = refIndex[x]
    BY <1>2, <2>1 DEF CreateRequest, Fail
  <2>4. QED
    BY <2>2, <2>3 DEF RecordsImmutableStep
<1>3. QED
  BY <1>1, <1>2

LEMMA MarkPaidImmutable ==
    ASSUME TypeOK, NEW c \in Principals, NEW id \in RequestIds,
           NEW p \in PaymentIds, MarkPaid(c, id, p)
    PROVE  RecordsImmutableStep
<1> DEFINE err == MarkPaidError(c, id)
<1>1. CASE err # "Ok"
  BY <1>1, StaticImmutable DEF MarkPaid, Fail, ledger
<1>2. CASE err = "Ok"
  <2>1. id \in DOMAIN requests /\ requests[id].status = "Pending"
    BY <1>2 DEF MarkPaidError
  <2>2. /\ requests' = [requests EXCEPT ![id].status = "Paid",
                                        ![id].paid_at = <<now>>,
                                        ![id].payment_id = <<p>>]
        /\ refIndex' = refIndex
    BY <1>2 DEF MarkPaid, Fail
  <2>3. QED
    BY <2>1, <2>2, TerminalImmutable
<1>3. QED
  BY <1>1, <1>2

LEMMA CancelImmutable ==
    ASSUME TypeOK, NEW c \in Principals, NEW id \in RequestIds,
           CancelRequest(c, id)
    PROVE  RecordsImmutableStep
<1> DEFINE err == CancelRequestError(c, id)
<1>1. CASE err # "Ok"
  BY <1>1, StaticImmutable DEF CancelRequest, Fail, ledger
<1>2. CASE err = "Ok"
  <2>1. id \in DOMAIN requests /\ requests[id].status = "Pending"
    BY <1>2 DEF CancelRequestError
  <2>2. requests' = [requests EXCEPT ![id].status = "Cancelled"] /\ refIndex' = refIndex
    BY <1>2 DEF CancelRequest, Fail
  <2>3. QED
    BY <2>1, <2>2, TerminalImmutable
<1>3. QED
  BY <1>1, <1>2

LEMMA ExpireImmutable ==
    ASSUME TypeOK, NEW c \in Principals, NEW id \in RequestIds,
           MarkExpired(c, id)
    PROVE  RecordsImmutableStep
<1> DEFINE err == MarkExpiredError(c, id)
<1>1. CASE err # "Ok"
  BY <1>1, StaticImmutable DEF MarkExpired, Fail, ledger
<1>2. CASE err = "Ok"
  <2>1. id \in DOMAIN requests /\ requests[id].status = "Pending"
    BY <1>2 DEF MarkExpiredError
  <2>2. requests' = [requests EXCEPT ![id].status = "Expired"] /\ refIndex' = refIndex
    BY <1>2 DEF MarkExpired, Fail
  <2>3. QED
    BY <2>1, <2>2, TerminalImmutable
<1>3. QED
  BY <1>1, <1>2

LEMMA ImmutableStep == TypeOK /\ [Next]_vars => [RecordsImmutableStep]_vars
<1> SUFFICES ASSUME TypeOK, [Next]_vars PROVE [RecordsImmutableStep]_vars
  OBVIOUS
<1>1. CASE \E c \in Principals, id \in RequestIds, a \in Amounts,
              r \in References, e \in Time : CreateRequest(c, id, a, r, e)
  BY <1>1, CreateImmutable
<1>2. CASE \E c \in Principals, id \in RequestIds, p \in PaymentIds :
              MarkPaid(c, id, p)
  BY <1>2, MarkPaidImmutable
<1>3. CASE \E c \in Principals, id \in RequestIds : CancelRequest(c, id)
  BY <1>3, CancelImmutable
<1>4. CASE \E c \in Principals, id \in RequestIds : MarkExpired(c, id)
  BY <1>4, ExpireImmutable
<1>5. CASE \E c \in Principals :
              \/ \E o \in Principals : SetOperator(c, o)
              \/ \E v \in Amounts : SetMinAmount(c, v) \/ SetMaxAmount(c, v)
              \/ Pause(c) \/ Unpause(c)
  <2>1. requests' = requests /\ refIndex' = refIndex
    BY <1>5 DEF SetOperator, SetMinAmount, SetMaxAmount, Pause, Unpause,
                SetPaused, Fail, ledger
  <2>2. QED
    BY <2>1, StaticImmutable
<1>6. CASE Tick \/ UNCHANGED vars
  BY <1>6, StaticImmutable DEF Tick, vars, ledger
<1>7. QED
  BY <1>1, <1>2, <1>3, <1>4, <1>5, <1>6 DEF Next

\* No sequence of calls deletes a stored request or index entry, changes a
\* request's creation fields, or rewrites a Paid, Cancelled or Expired
\* request: the Pending checks of mark_paid, cancel_request and
\* mark_expired (lib.rs:260, 304, 346) guard every record rewrite.
THEOREM RecordsImmutableCorrect == Spec => RecordsImmutable
<1>1. Spec => []TypeOK
  BY TypeCorrect
<1>2. QED
  BY <1>1, ImmutableStep, PTL DEF Spec, RecordsImmutable

-----------------------------------------------------------------------------
(* TransitionsAuthorized.                                                  *)

\* A step that does not write DataKey::Request.
LEMMA StaticAuthorized ==
    ASSUME requests' = requests
    PROVE  TransitionsAuthorizedStep
BY DEF TransitionsAuthorizedStep

\* The rewrite of one record's status to s, by a call entitled to move a
\* request to s.
LEMMA TerminalAuthorized ==
    ASSUME TypeOK, NEW id \in DOMAIN requests, NEW s, NEW pa, NEW pi,
           \/ requests' = [requests EXCEPT ![id].status = s,
                                           ![id].paid_at = pa,
                                           ![id].payment_id = pi]
           \/ requests' = [requests EXCEPT ![id].status = s],
           \/ /\ s = "Paid" /\ outcome'.op = "mark_paid"
              /\ outcome'.caller \in {Admin, operator}
           \/ /\ s = "Expired" /\ outcome'.op = "mark_expired"
              /\ outcome'.caller \in {Admin, operator}
           \/ /\ s = "Cancelled" /\ outcome'.op = "cancel_request"
              /\ outcome'.caller \in {Admin, requests[id].merchant}
    PROVE  TransitionsAuthorizedStep
<1>1. requests[id] \in PaymentRequestRec
  BY DEF TypeOK
<1>2. DOMAIN requests' = DOMAIN requests
  OBVIOUS
<1>3. \A i \in DOMAIN requests \ {id} : requests'[i] = requests[i]
  OBVIOUS
<1>4. requests'[id].status = s
  BY <1>1 DEF PaymentRequestRec
<1>5. QED
  BY <1>2, <1>3, <1>4 DEF TransitionsAuthorizedStep

\* create_request stores the new record with merchant = caller.
LEMMA CreateAuthorized ==
    ASSUME TypeOK, NEW c \in Principals, NEW id \in RequestIds,
           NEW a \in Amounts, NEW r \in References, NEW e \in Time,
           CreateRequest(c, id, a, r, e)
    PROVE  TransitionsAuthorizedStep
<1> DEFINE err == CreateRequestError(c, id, a, r, e)
<1>1. CASE err # "Ok"
  BY <1>1, StaticAuthorized DEF CreateRequest, Fail, ledger
<1>2. CASE err = "Ok"
  <2>1. id \notin DOMAIN requests
    BY <1>2 DEF CreateRequestError
  <2>2. /\ DOMAIN requests' = DOMAIN requests \cup {id}
        /\ \A i \in DOMAIN requests : requests'[i] = requests[i]
        /\ requests'[id].merchant = c
        /\ outcome' = [op |-> "create_request", caller |-> c, id |-> id, res |-> "Ok"]
    BY <1>2, <2>1 DEF CreateRequest, Fail, Succeed
  <2>3. DOMAIN requests' \ DOMAIN requests = {id}
    BY <2>1, <2>2
  <2>4. QED
    BY <2>2, <2>3 DEF TransitionsAuthorizedStep
<1>3. QED
  BY <1>1, <1>2

\* mark_paid passes require_operator_or_admin before it writes.
LEMMA MarkPaidAuthorized ==
    ASSUME TypeOK, NEW c \in Principals, NEW id \in RequestIds,
           NEW p \in PaymentIds, MarkPaid(c, id, p)
    PROVE  TransitionsAuthorizedStep
<1> DEFINE err == MarkPaidError(c, id)
<1>1. CASE err # "Ok"
  BY <1>1, StaticAuthorized DEF MarkPaid, Fail, ledger
<1>2. CASE err = "Ok"
  <2>1. id \in DOMAIN requests /\ c \in {Admin, operator}
    BY <1>2 DEF MarkPaidError, IsOperatorOrAdmin
  <2>2. /\ requests' = [requests EXCEPT ![id].status = "Paid",
                                        ![id].paid_at = <<now>>,
                                        ![id].payment_id = <<p>>]
        /\ outcome' = [op |-> "mark_paid", caller |-> c, id |-> id, res |-> "Ok"]
    BY <1>2 DEF MarkPaid, Fail, Succeed
  <2>3. QED
    BY <2>1, <2>2, TerminalAuthorized
<1>3. QED
  BY <1>1, <1>2

\* cancel_request passes its merchant-or-admin check before it writes.
LEMMA CancelAuthorized ==
    ASSUME TypeOK, NEW c \in Principals, NEW id \in RequestIds,
           CancelRequest(c, id)
    PROVE  TransitionsAuthorizedStep
<1> DEFINE err == CancelRequestError(c, id)
<1>1. CASE err # "Ok"
  BY <1>1, StaticAuthorized DEF CancelRequest, Fail, ledger
<1>2. CASE err = "Ok"
  <2>1. id \in DOMAIN requests /\ c \in {Admin, requests[id].merchant}
    BY <1>2 DEF CancelRequestError
  <2>2. /\ requests' = [requests EXCEPT ![id].status = "Cancelled"]
        /\ outcome' = [op |-> "cancel_request", caller |-> c, id |-> id, res |-> "Ok"]
    BY <1>2 DEF CancelRequest, Fail, Succeed
  <2>3. QED
    BY <2>1, <2>2, TerminalAuthorized
<1>3. QED
  BY <1>1, <1>2

\* mark_expired passes require_operator_or_admin before it writes.
LEMMA ExpireAuthorized ==
    ASSUME TypeOK, NEW c \in Principals, NEW id \in RequestIds,
           MarkExpired(c, id)
    PROVE  TransitionsAuthorizedStep
<1> DEFINE err == MarkExpiredError(c, id)
<1>1. CASE err # "Ok"
  BY <1>1, StaticAuthorized DEF MarkExpired, Fail, ledger
<1>2. CASE err = "Ok"
  <2>1. id \in DOMAIN requests /\ c \in {Admin, operator}
    BY <1>2 DEF MarkExpiredError, IsOperatorOrAdmin
  <2>2. /\ requests' = [requests EXCEPT ![id].status = "Expired"]
        /\ outcome' = [op |-> "mark_expired", caller |-> c, id |-> id, res |-> "Ok"]
    BY <1>2 DEF MarkExpired, Fail, Succeed
  <2>3. QED
    BY <2>1, <2>2, TerminalAuthorized
<1>3. QED
  BY <1>1, <1>2

LEMMA AuthorizedStep == TypeOK /\ [Next]_vars => [TransitionsAuthorizedStep]_vars
<1> SUFFICES ASSUME TypeOK, [Next]_vars PROVE [TransitionsAuthorizedStep]_vars
  OBVIOUS
<1>1. CASE \E c \in Principals, id \in RequestIds, a \in Amounts,
              r \in References, e \in Time : CreateRequest(c, id, a, r, e)
  BY <1>1, CreateAuthorized
<1>2. CASE \E c \in Principals, id \in RequestIds, p \in PaymentIds :
              MarkPaid(c, id, p)
  BY <1>2, MarkPaidAuthorized
<1>3. CASE \E c \in Principals, id \in RequestIds : CancelRequest(c, id)
  BY <1>3, CancelAuthorized
<1>4. CASE \E c \in Principals, id \in RequestIds : MarkExpired(c, id)
  BY <1>4, ExpireAuthorized
<1>5. CASE \E c \in Principals :
              \/ \E o \in Principals : SetOperator(c, o)
              \/ \E v \in Amounts : SetMinAmount(c, v) \/ SetMaxAmount(c, v)
              \/ Pause(c) \/ Unpause(c)
  <2>1. requests' = requests
    BY <1>5 DEF SetOperator, SetMinAmount, SetMaxAmount, Pause, Unpause,
                SetPaused, Fail, ledger
  <2>2. QED
    BY <2>1, StaticAuthorized
<1>6. CASE Tick \/ UNCHANGED vars
  BY <1>6, StaticAuthorized DEF Tick, vars, ledger
<1>7. QED
  BY <1>1, <1>2, <1>3, <1>4, <1>5, <1>6 DEF Next

\* For every set of principals, ids and references: a request belongs to
\* whoever created it, only the operator or the admin of the moment marks
\* it Paid or Expired, and only its merchant or the admin cancels it
\* (require_operator_or_admin, lib.rs:252 and 338; the check of lib.rs:309).
THEOREM TransitionsAuthorizedCorrect == Spec => TransitionsAuthorized
<1>1. Spec => []TypeOK
  BY TypeCorrect
<1>2. QED
  BY <1>1, AuthorizedStep, PTL DEF Spec, TransitionsAuthorized

=============================================================================
