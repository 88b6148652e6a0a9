--------------------------- MODULE PaymentRequest ---------------------------
(***************************************************************************)
(* The payment-request contract of contracts/payment_request/src/lib.rs:   *)
(* the instance-storage configuration (operator, pause flag, amount        *)
(* bounds, counters), the persistent ledger of PaymentRequest records      *)
(* keyed by request id, the secondary index reference -> request id, and  *)
(* the ledger clock.  Every public entry point that writes storage is one *)
(* action; it succeeds with all its writes or panics with no write at all *)
(* (Soroban rolls back a panicking invocation), and the variable          *)
(* `outcome` records which of the two happened and with which panic, in   *)
(* the order the code checks its conditions.                              *)
(*                                                                         *)
(* Data is abstracted: addresses, request ids, references and payment ids *)
(* are model values, error messages are short names, events are left out. *)
(***************************************************************************)
EXTENDS Integers, FiniteSets

CONSTANTS
    Principals,     \* addresses that may call the contract
    Admin,          \* the admin given to __constructor (never changes)
    InitOperator,   \* the operator given to __constructor
    RequestIds,     \* BytesN<32> request ids callers may supply
    References,     \* BytesN<32> reference hashes callers may supply
    PaymentIds,     \* BytesN<32> settlement ids passed to mark_paid
    AmountCap,      \* largest i128 amount or bound a call supplies
    MaxTime         \* bound on the ledger timestamp (u64)

ASSUME PrincipalsAssumption ==
    /\ Admin \in Principals
    /\ InitOperator \in Principals
ASSUME FiniteIdsAssumption == IsFiniteSet(RequestIds)
ASSUME AmountCapAssumption == AmountCap \in Nat /\ AmountCap >= 2
ASSUME MaxTimeAssumption == MaxTime \in Nat

VARIABLES
    operator,         \* DataKey::Operator
    paused,           \* DataKey::Paused
    minAmount,        \* DataKey::MinAmount
    maxAmount,        \* DataKey::MaxAmount
    totalRequests,    \* DataKey::TotalRequests
    pendingRequests,  \* DataKey::PendingRequests
    requests,         \* DataKey::Request(id): a function on the stored ids
    refIndex,         \* DataKey::ReferenceIndex(ref): a function on the stored refs
    now,              \* env.ledger().timestamp()
    outcome           \* the last call: its name, caller, the id it names, its result

config == <<operator, paused, minAmount, maxAmount>>
ledger == <<totalRequests, pendingRequests, requests, refIndex>>
vars == <<config, ledger, now, outcome>>

-----------------------------------------------------------------------------
(* Types.                                                                  *)

Time == 0..MaxTime
Amounts == 0..AmountCap            \* inputs; 0 stands for every amount <= 0
Statuses == {"Pending", "Paid", "Cancelled", "Expired"}

\* Option<T>: None is <<>>, Some(x) is <<x>>.
Option(S) == {<<>>} \cup {<<x>> : x \in S}

PaymentRequestRec ==
    [request_id : RequestIds, merchant : Principals, amount : 1..AmountCap,
     reference : References, status : Statuses,
     created_at : Time, expires_at : Time,
     paid_at : Option(Time), payment_id : Option(PaymentIds)]

\* Ids of no request: the id field of calls that name none.
NoId == "none"

\* The caller field of the initial outcome, before any call.
NoCaller == "nocaller"

Results ==
    {"Ok", "Paused", "AmountNotPositive", "BelowMin", "AboveMax",
     "ExpiryNotFuture", "DuplicateId", "DuplicateReference",
     "NotOperatorOrAdmin", "NotFound", "NotPending", "NotAuthorizedToCancel",
     "NotExpiredYet", "NotAdmin", "MinNotPositive", "MinNotBelowMax",
     "MaxNotPositive", "MaxNotAboveMin", "None"}

Ops == {"none", "create_request", "mark_paid", "cancel_request",
        "mark_expired", "set_operator", "set_min_amount", "set_max_amount",
        "pause", "unpause"}

Outcome == [op : Ops, caller : Principals \cup {NoCaller},
            id : RequestIds \cup {NoId}, res : Results]

\* Pending ids, the value PendingRequests should count.
PendingIds == {i \in DOMAIN requests : requests[i].status = "Pending"}

\* `pending -= 1` guarded by `if pending > 0`.
DecrementPending(p) == IF p > 0 THEN p - 1 ELSE p

\* Lookup through the reference index (get_request_by_reference).
GetRequestByReference(r) == requests[refIndex[r]]

-----------------------------------------------------------------------------
(* __constructor: its three checks hold for the bounds it stores.          *)

Init ==
    /\ operator = InitOperator
    /\ paused = FALSE
    /\ minAmount \in 1..AmountCap
    /\ maxAmount \in 1..AmountCap
    /\ minAmount < maxAmount
    /\ totalRequests = 0
    /\ pendingRequests = 0
    /\ requests = [i \in {} |-> {}]
    /\ refIndex = [r \in {} |-> {}]
    /\ now \in Time
    /\ outcome = [op |-> "none", caller |-> NoCaller, id |-> NoId, res |-> "None"]

\* A call that panics: nothing but its outcome is observed.
Fail(op, caller, id, err) ==
    /\ err # "Ok"
    /\ outcome' = [op |-> op, caller |-> caller, id |-> id, res |-> err]
    /\ UNCHANGED <<config, ledger, now>>

Succeed(op, caller, id) ==
    outcome' = [op |-> op, caller |-> caller, id |-> id, res |-> "Ok"]

-----------------------------------------------------------------------------
(* create_request                                                          *)

\* Mutant: the amount checks left out.
CreateRequestErrorNoAmountCheck(caller, id, amount, ref, expiresAt) ==
    IF paused THEN "Paused"
    ELSE IF expiresAt <= now THEN "ExpiryNotFuture"
    ELSE IF id \in DOMAIN requests THEN "DuplicateId"
    ELSE IF ref \in DOMAIN refIndex THEN "DuplicateReference"
    ELSE "Ok"

\* Mutant: the duplicate-reference check left out.
CreateRequestErrorNoRefCheck(caller, id, amount, ref, expiresAt) ==
    IF paused THEN "Paused"
    ELSE IF amount <= 0 THEN "AmountNotPositive"
    ELSE IF amount < minAmount THEN "BelowMin"
    ELSE IF amount > maxAmount THEN "AboveMax"
    ELSE IF expiresAt <= now THEN "ExpiryNotFuture"
    ELSE IF id \in DOMAIN requests THEN "DuplicateId"
    ELSE "Ok"

\* Mutant: the expiry accepted when it equals the current time.
CreateRequestErrorExpiryInclusive(caller, id, amount, ref, expiresAt) ==
    IF paused THEN "Paused"
    ELSE IF amount <= 0 THEN "AmountNotPositive"
    ELSE IF amount < minAmount THEN "BelowMin"
    ELSE IF amount > maxAmount THEN "AboveMax"
    ELSE IF expiresAt < now THEN "ExpiryNotFuture"
    ELSE IF id \in DOMAIN requests THEN "DuplicateId"
    ELSE IF ref \in DOMAIN refIndex THEN "DuplicateReference"
    ELSE "Ok"

CreateRequestError(caller, id, amount, ref, expiresAt) ==
    IF paused THEN "Paused"
    ELSE IF amount <= 0 THEN "AmountNotPositive"
    ELSE IF amount < minAmount THEN "BelowMin"
    ELSE IF amount > maxAmount THEN "AboveMax"
    ELSE IF expiresAt <= now THEN "ExpiryNotFuture"
    ELSE IF id \in DOMAIN requests THEN "DuplicateId"
    ELSE IF ref \in DOMAIN refIndex THEN "DuplicateReference"
    ELSE "Ok"

CreateRequest(caller, id, amount, ref, expiresAt) ==
    LET err == CreateRequestError(caller, id, amount, ref, expiresAt) IN
    \/ Fail("create_request", caller, id, err)
    \/ /\ err = "Ok"
       /\ requests' = [i \in DOMAIN requests \cup {id} |->
                         IF i = id
                         THEN [request_id |-> id, merchant |-> caller,
                               amount |-> amount, reference |-> ref,
                               status |-> "Pending", created_at |-> now,
                               expires_at |-> expiresAt,
                               paid_at |-> <<>>, payment_id |-> <<>>]
                         ELSE requests[i]]
       /\ refIndex' = [r \in DOMAIN refIndex \cup {ref} |->
                         IF r = ref THEN id ELSE refIndex[r]]
       /\ totalRequests' = totalRequests + 1
       /\ pendingRequests' = pendingRequests + 1
       /\ Succeed("create_request", caller, id)
       /\ UNCHANGED <<config, now>>

-----------------------------------------------------------------------------
(* mark_paid, cancel_request, mark_expired                                 *)

\* require_operator_or_admin
IsOperatorOrAdmin(caller) == caller \in {Admin, operator}

\* Mutant: the status check left out.
MarkPaidErrorNoStatusCheck(caller, id) ==
    IF ~IsOperatorOrAdmin(caller) THEN "NotOperatorOrAdmin"
    ELSE IF id \notin DOMAIN requests THEN "NotFound"
    ELSE "Ok"

MarkPaidError(caller, id) ==
    IF ~IsOperatorOrAdmin(caller) THEN "NotOperatorOrAdmin"
    ELSE IF id \notin DOMAIN requests THEN "NotFound"
    ELSE IF requests[id].status # "Pending" THEN "NotPending"
    ELSE "Ok"

MarkPaid(caller, id, paymentId) ==
    LET err == MarkPaidError(caller, id) IN
    \/ Fail("mark_paid", caller, id, err)
    \/ /\ err = "Ok"
       /\ requests' = [requests EXCEPT ![id].status = "Paid",
                                       ![id].paid_at = <<now>>,
                                       ![id].payment_id = <<paymentId>>]
       /\ pendingRequests' = DecrementPending(pendingRequests)
       /\ Succeed("mark_paid", caller, id)
       /\ UNCHANGED <<config, totalRequests, refIndex, now>>

\* Mutant: the status check left out.
CancelRequestErrorNoStatusCheck(caller, id) ==
    IF id \notin DOMAIN requests THEN "NotFound"
    ELSE IF caller # requests[id].merchant /\ caller # Admin
         THEN "NotAuthorizedToCancel"
    ELSE "Ok"

\* Mutant: the merchant-or-admin check of cancel_request left out.
CancelRequestErrorAnyCaller(caller, id) ==
    IF id \notin DOMAIN requests THEN "NotFound"
    ELSE IF requests[id].status # "Pending" THEN "NotPending"
    ELSE "Ok"

CancelRequestError(caller, id) ==
    IF id \notin DOMAIN requests THEN "NotFound"
    ELSE IF requests[id].status # "Pending" THEN "NotPending"
    ELSE IF caller # requests[id].merchant /\ caller # Admin
         THEN "NotAuthorizedToCancel"
    ELSE "Ok"

CancelRequest(caller, id) ==
    LET err == CancelRequestError(caller, id) IN
    \/ Fail("cancel_request", caller, id, err)
    \/ /\ err = "Ok"
       /\ requests' = [requests EXCEPT ![id].status = "Cancelled"]
       /\ pendingRequests' = DecrementPending(pendingRequests)
       /\ Succeed("cancel_request", caller, id)
       /\ UNCHANGED <<config, totalRequests, refIndex, now>>

\* Mutant: the expiry comparison one tick early.
MarkExpiredErrorEarly(caller, id) ==
    IF ~IsOperatorOrAdmin(caller) THEN "NotOperatorOrAdmin"
    ELSE IF id \notin DOMAIN requests THEN "NotFound"
    ELSE IF requests[id].status # "Pending" THEN "NotPending"
    ELSE IF now + 1 < requests[id].expires_at THEN "NotExpiredYet"
    ELSE "Ok"

MarkExpiredError(caller, id) ==
    IF ~IsOperatorOrAdmin(caller) THEN "NotOperatorOrAdmin"
    ELSE IF id \notin DOMAIN requests THEN "NotFound"
    ELSE IF requests[id].status # "Pending" THEN "NotPending"
    ELSE IF now < requests[id].expires_at THEN "NotExpiredYet"
    ELSE "Ok"

MarkExpired(caller, id) ==
    LET err == MarkExpiredError(caller, id) IN
    \/ Fail("mark_expired", caller, id, err)
    \/ /\ err = "Ok"
       /\ requests' = [requests EXCEPT ![id].status = "Expired"]
       /\ pendingRequests' = DecrementPending(pendingRequests)
       /\ Succeed("mark_expired", caller, id)
       /\ UNCHANGED <<config, totalRequests, refIndex, now>>

-----------------------------------------------------------------------------
(* Admin functions (require_admin first in each).                          *)

AdminError(caller) == IF caller # Admin THEN "NotAdmin" ELSE "Ok"

SetOperator(caller, newOperator) ==
    LET err == AdminError(caller) IN
    \/ Fail("set_operator", caller, NoId, err)
    \/ /\ err = "Ok"
       /\ operator' = newOperator
       /\ Succeed("set_operator", caller, NoId)
       /\ UNCHANGED <<paused, minAmount, maxAmount, ledger, now>>

SetMinAmountError(caller, newMin) ==
    IF caller # Admin THEN "NotAdmin"
    ELSE IF newMin <= 0 THEN "MinNotPositive"
    ELSE IF newMin >= maxAmount THEN "MinNotBelowMax"
    ELSE "Ok"

SetMinAmount(caller, newMin) ==
    LET err == SetMinAmountError(caller, newMin) IN
    \/ Fail("set_min_amount", caller, NoId, err)
    \/ /\ err = "Ok"
       /\ minAmount' = newMin
       /\ Succeed("set_min_amount", caller, NoId)
       /\ UNCHANGED <<operator, paused, maxAmount, ledger, now>>

\* Mutant: a new max equal to min accepted.
SetMaxAmountErrorAllowEqual(caller, newMax) ==
    IF caller # Admin THEN "NotAdmin"
    ELSE IF newMax <= 0 THEN "MaxNotPositive"
    ELSE IF newMax < minAmount THEN "MaxNotAboveMin"
    ELSE "Ok"

SetMaxAmountError(caller, newMax) ==
    IF caller # Admin THEN "NotAdmin"
    ELSE IF newMax <= 0 THEN "MaxNotPositive"
    ELSE IF newMax <= minAmount THEN "MaxNotAboveMin"
    ELSE "Ok"

SetMaxAmount(caller, newMax) ==
    LET err == SetMaxAmountError(caller, newMax) IN
    \/ Fail("set_max_amount", caller, NoId, err)
    \/ /\ err = "Ok"
       /\ maxAmount' = newMax
       /\ Succeed("set_max_amount", caller, NoId)
       /\ UNCHANGED <<operator, paused, minAmount, ledger, now>>

\* pause (flag = TRUE) and unpause (flag = FALSE).
SetPaused(op, caller, flag) ==
    LET err == AdminError(caller) IN
    \/ Fail(op, caller, NoId, err)
    \/ /\ err = "Ok"
       /\ paused' = flag
       /\ Succeed(op, caller, NoId)
       /\ UNCHANGED <<operator, minAmount, maxAmount, ledger, now>>

Pause(caller) == SetPaused("pause", caller, TRUE)
Unpause(caller) == SetPaused("unpause", caller, FALSE)

-----------------------------------------------------------------------------
(* The host advances the ledger timestamp between invocations.             *)

Tick ==
    /\ now < MaxTime
    /\ now' = now + 1
    /\ UNCHANGED <<config, ledger, outcome>>

Next ==
    \/ \E c \in Principals :
          \/ \E id \in RequestIds, a \in Amounts, r \in References, e \in Time :
                CreateRequest(c, id, a, r, e)
          \/ \E id \in RequestIds, p \in PaymentIds : MarkPaid(c, id, p)
          \/ \E id \in RequestIds : CancelRequest(c, id) \/ MarkExpired(c, id)
          \/ \E o \in Principals : SetOperator(c, o)
          \/ \E v \in Amounts : SetMinAmount(c, v) \/ SetMaxAmount(c, v)
          \/ Pause(c)
          \/ Unpause(c)
    \/ Tick

Spec == Init /\ [][Next]_vars

-----------------------------------------------------------------------------
(* Properties.                                                             *)

\* Every variable holds a value of its storage type.
TypeOK ==
    /\ operator \in Principals
    /\ paused \in BOOLEAN
    /\ minAmount \in 1..AmountCap
    /\ maxAmount \in 1..AmountCap
    /\ totalRequests \in Nat
    /\ pendingRequests \in Nat
    /\ DOMAIN requests \subseteq RequestIds
    /\ requests \in [DOMAIN requests -> PaymentRequestRec]
    /\ DOMAIN refIndex \subseteq References
    /\ refIndex \in [DOMAIN refIndex -> RequestIds]
    /\ now \in Time
    /\ outcome \in Outcome

\* The counters of create_request, mark_paid, cancel_request and
\* mark_expired agree with the ledger: TotalRequests is the number of stored
\* requests and PendingRequests the number still Pending, so the floored
\* decrement `if pending > 0` never actually fires at zero.
CountersTrackLedger ==
    /\ totalRequests = Cardinality(DOMAIN requests)
    /\ pendingRequests = Cardinality(PendingIds)

\* The reference index written by create_request is a bijection between
\* the references of stored requests and their ids: no two requests share
\* a reference, and get_request_by_reference(r) returns the request whose
\* reference is r, whatever happened to it since.
ReferenceIndexSound ==
    /\ DOMAIN refIndex = {requests[i].reference : i \in DOMAIN requests}
    /\ \A r \in DOMAIN refIndex :
          /\ refIndex[r] \in DOMAIN requests
          /\ GetRequestByReference(r).reference = r
    /\ \A i, j \in DOMAIN requests :
          requests[i].reference = requests[j].reference => i = j

\* The admin setters set_min_amount and set_max_amount, each validating its
\* new bound only against the other current bound, keep 0 < min < max.
AmountBoundsOrdered == 0 < minAmount /\ minAmount < maxAmount

\* Each stored record is consistent with the clock and with its status:
\* created before it expires and not in the future, paid_at and payment_id
\* set exactly when Paid with paid_at between creation and now, and a
\* request is Expired only once the clock reached expires_at (mark_expired's
\* boundary-inclusive check).
RequestTimeline ==
    \A i \in DOMAIN requests :
       LET q == requests[i] IN
       /\ q.request_id = i
       /\ q.created_at < q.expires_at
       /\ q.created_at <= now
       /\ (q.status = "Paid") = (q.paid_at # <<>>)
       /\ (q.status = "Paid") = (q.payment_id # <<>>)
       /\ q.status = "Paid" => q.created_at <= q.paid_at[1] /\ q.paid_at[1] <= now
       /\ q.status = "Expired" => q.expires_at <= now

\* No step deletes a stored request or index entry, changes a request's
\* merchant, amount, reference or timestamps of creation and expiry, or
\* changes a request at all once it is Paid, Cancelled or Expired: the
\* terminal transitions of mark_paid, cancel_request and mark_expired are
\* never reversed or overwritten.
RecordsImmutableStep ==
       /\ DOMAIN requests \subseteq DOMAIN requests'
       /\ DOMAIN refIndex \subseteq DOMAIN refIndex'
       /\ \A r \in DOMAIN refIndex : refIndex'[r] = refIndex[r]
       /\ \A i \in DOMAIN requests :
             /\ requests'[i].merchant = requests[i].merchant
             /\ requests'[i].amount = requests[i].amount
             /\ requests'[i].reference = requests[i].reference
             /\ requests'[i].created_at = requests[i].created_at
             /\ requests'[i].expires_at = requests[i].expires_at
             /\ requests[i].status # "Pending" => requests'[i] = requests[i]

\* Every step of the contract keeps stored requests, index entries, their
\* creation fields and terminal records as they were.
RecordsImmutable == [][RecordsImmutableStep]_vars

\* Every change to the request ledger is made by a caller entitled to it
\* as of the state the call starts in: a new request belongs to the caller
\* of create_request; only the operator or the admin (require_operator_or_
\* admin) marks a request Paid or Expired; only the request's own merchant
\* or the admin cancels it.  An operator replaced by set_operator, or a
\* merchant acting on another merchant's request, changes nothing.
TransitionsAuthorizedStep ==
    /\ \A i \in DOMAIN requests' \ DOMAIN requests :
          /\ outcome'.op = "create_request"
          /\ requests'[i].merchant = outcome'.caller
    /\ \A i \in DOMAIN requests :
          requests'[i].status # requests[i].status =>
             \/ /\ requests'[i].status = "Paid" /\ outcome'.op = "mark_paid"
                /\ outcome'.caller \in {Admin, operator}
             \/ /\ requests'[i].status = "Expired" /\ outcome'.op = "mark_expired"
                /\ outcome'.caller \in {Admin, operator}
             \/ /\ requests'[i].status = "Cancelled" /\ outcome'.op = "cancel_request"
                /\ outcome'.caller \in {Admin, requests[i].merchant}

\* Every step of the contract keeps TransitionsAuthorizedStep.
TransitionsAuthorized == [][TransitionsAuthorizedStep]_vars

\* Spec section 4.2 gives the reason create_request checks Paused first as
\* "pause gate protects against all state mutation": while the contract is
\* paused no call changes the request ledger.  Only create_request reads
\* DataKey::Paused; mark_paid, cancel_request and mark_expired do not.
PauseFreezesLedger ==
    [][paused => UNCHANGED ledger]_vars

-----------------------------------------------------------------------------
(* Refinement: the contract read through its storage is the lifecycle of   *)
(* PaymentLifecycle.  A stored record gives the status, reference and      *)
(* deadline of its id; an id with no record is Absent.                     *)

LifecycleStatus == [i \in RequestIds |->
                       IF i \in DOMAIN requests THEN requests[i].status ELSE "Absent"]
LifecycleRef == [i \in RequestIds |->
                    IF i \in DOMAIN requests THEN requests[i].reference ELSE "noref"]
LifecycleDeadline == [i \in RequestIds |->
                         IF i \in DOMAIN requests THEN requests[i].expires_at ELSE 0]

Lifecycle == INSTANCE PaymentLifecycle WITH
    status <- LifecycleStatus, refOf <- LifecycleRef, deadline <- LifecycleDeadline

\* Every behaviour of the contract is a behaviour of the lifecycle: each
\* create_request, mark_paid, cancel_request and mark_expired that succeeds
\* is one lifecycle step (unique reference, future deadline, one terminal
\* transition from Pending, expiry only when due), and every other call,
\* panic or config change leaves the lifecycle as it was.
ImplementsLifecycle == Lifecycle!LSpec

=============================================================================
