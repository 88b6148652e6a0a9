---------------------- MODULE PaymentRefinementProofs ----------------------
(***************************************************************************)
(* The payment-request contract implements its abstract lifecycle          *)
(* (PaymentLifecycle under the mapping LifecycleStatus, LifecycleRef,      *)
(* LifecycleDeadline of module PaymentRequest), for every value of the     *)
(* constants.  The step proof rests on the inductive invariant IInv of     *)
(* PaymentRequestProofs: the type of the records and the reference index   *)
(* are what make create_request's guards the abstract guards.              *)
(***************************************************************************)
EXTENDS PaymentRequestProofs

-----------------------------------------------------------------------------
(* Steps that leave the records and the clock alone are lifecycle stutters. *)

LEMMA StutterRefines ==
    ASSUME requests' = requests, now' = now
    PROVE  UNCHANGED Lifecycle!lvars
BY DEF Lifecycle!lvars, LifecycleStatus, LifecycleRef, LifecycleDeadline

(* A terminal transition of one Pending record: the domain, the other      *)
(* records and the clock stay, the record keeps its reference and expiry   *)
(* and takes status s.                                                     *)
LEMMA ResolveRefines ==
    ASSUME NEW id \in RequestIds, NEW s \in Lifecycle!Terminal,
           id \in DOMAIN requests,
           requests[id].status = "Pending",
           s = "Expired" => requests[id].expires_at <= now,
           DOMAIN requests' = DOMAIN requests,
           requests'[id].status = s,
           requests'[id].reference = requests[id].reference,
           requests'[id].expires_at = requests[id].expires_at,
           \A i \in DOMAIN requests \ {id} : requests'[i] = requests[i],
           now' = now
    PROVE  Lifecycle!Resolve(id, s)
<1>1. LifecycleStatus[id] = "Pending"
  BY DEF LifecycleStatus
<1>2. s = "Expired" => LifecycleDeadline[id] <= now
  BY DEF LifecycleDeadline
<1>3. LifecycleStatus' = [LifecycleStatus EXCEPT ![id] = s]
  BY DEF LifecycleStatus
<1>4. LifecycleRef' = LifecycleRef
  BY DEF LifecycleRef
<1>5. LifecycleDeadline' = LifecycleDeadline
  BY DEF LifecycleDeadline
<1>6. QED
  BY <1>1, <1>2, <1>3, <1>4, <1>5 DEF Lifecycle!Resolve

(* The record rewrites of mark_paid, cancel_request and mark_expired.      *)
LEMMA RecordRewrite ==
    ASSUME TypeOK, NEW id \in DOMAIN requests, NEW s,
           NEW pa, NEW pi,
           \/ requests' = [requests EXCEPT ![id].status = s,
                                           ![id].paid_at = pa,
                                           ![id].payment_id = pi]
           \/ requests' = [requests EXCEPT ![id].status = s]
    PROVE  /\ DOMAIN requests' = DOMAIN requests
           /\ requests'[id].status = s
           /\ requests'[id].reference = requests[id].reference
           /\ requests'[id].expires_at = requests[id].expires_at
           /\ \A i \in DOMAIN requests \ {id} : requests'[i] = requests[i]
<1>1. requests[id] \in PaymentRequestRec
  BY DEF TypeOK
<1>2. QED
  BY <1>1 DEF PaymentRequestRec

\* mark_paid refines Resolve(id, "Paid") or stutters.
LEMMA MarkPaidRefines ==
    ASSUME TypeOK, NEW c \in Principals, NEW id \in RequestIds,
           NEW p \in PaymentIds, MarkPaid(c, id, p)
    PROVE  [Lifecycle!LNext]_Lifecycle!lvars
<1> DEFINE err == MarkPaidError(c, id)
<1>1. CASE err # "Ok"
  <2>1. requests' = requests /\ now' = now
    BY <1>1 DEF MarkPaid, Fail, ledger
  <2>2. QED
    BY <2>1, StutterRefines
<1>2. CASE err = "Ok"
  <2>1. id \in DOMAIN requests /\ requests[id].status = "Pending"
    BY <1>2 DEF MarkPaidError
  <2>2. /\ requests' = [requests EXCEPT ![id].status = "Paid",
                                        ![id].paid_at = <<now>>,
                                        ![id].payment_id = <<p>>]
        /\ now' = now
    BY <1>2 DEF MarkPaid, Fail
  <2>3. Lifecycle!Resolve(id, "Paid")
    BY <2>1, <2>2, RecordRewrite, ResolveRefines DEF Lifecycle!Terminal
  <2>4. QED
    BY <2>3 DEF Lifecycle!LNext, Lifecycle!Terminal
<1>3. QED
  BY <1>1, <1>2

\* cancel_request refines Resolve(id, "Cancelled") or stutters.
LEMMA CancelRequestRefines ==
    ASSUME TypeOK, NEW c \in Principals, NEW id \in RequestIds,
           CancelRequest(c, id)
    PROVE  [Lifecycle!LNext]_Lifecycle!lvars
<1> DEFINE err == CancelRequestError(c, id)
<1>1. CASE err # "Ok"
  <2>1. requests' = requests /\ now' = now
    BY <1>1 DEF CancelRequest, Fail, ledger
  <2>2. QED
    BY <2>1, StutterRefines
<1>2. CASE err = "Ok"
  <2>1. id \in DOMAIN requests /\ requests[id].status = "Pending"
    BY <1>2 DEF CancelRequestError
  <2>2. requests' = [requests EXCEPT ![id].status = "Cancelled"] /\ now' = now
    BY <1>2 DEF CancelRequest, Fail
  <2>3. Lifecycle!Resolve(id, "Cancelled")
    BY <2>1, <2>2, RecordRewrite, ResolveRefines DEF Lifecycle!Terminal
  <2>4. QED
    BY <2>3 DEF Lifecycle!LNext, Lifecycle!Terminal
<1>3. QED
  BY <1>1, <1>2

\* mark_expired refines Resolve(id, "Expired"), whose guard is the
\* contract's `current_time >= expires_at`, or stutters.
LEMMA MarkExpiredRefines ==
    ASSUME TypeOK, NEW c \in Principals, NEW id \in RequestIds,
           MarkExpired(c, id)
    PROVE  [Lifecycle!LNext]_Lifecycle!lvars
<1> DEFINE err == MarkExpiredError(c, id)
<1>1. CASE err # "Ok"
  <2>1. requests' = requests /\ now' = now
    BY <1>1 DEF MarkExpired, Fail, ledger
  <2>2. QED
    BY <2>1, StutterRefines
<1>2. CASE err = "Ok"
  <2>1. /\ id \in DOMAIN requests
        /\ requests[id].status = "Pending"
        /\ ~(now < requests[id].expires_at)
    BY <1>2 DEF MarkExpiredError
  <2>2. requests[id].expires_at <= now
    BY <2>1 DEF TypeOK, PaymentRequestRec, Time
  <2>3. requests' = [requests EXCEPT ![id].status = "Expired"] /\ now' = now
    BY <1>2 DEF MarkExpired, Fail
  <2>4. Lifecycle!Resolve(id, "Expired")
    BY <2>1, <2>2, <2>3, RecordRewrite, ResolveRefines DEF Lifecycle!Terminal
  <2>5. QED
    BY <2>4 DEF Lifecycle!LNext, Lifecycle!Terminal
<1>3. QED
  BY <1>1, <1>2

\* create_request refines Create(id, ref, expires_at) or stutters: its
\* duplicate checks on DataKey::Request and DataKey::ReferenceIndex are the
\* abstract "unused id" and "unused reference", by ReferenceIndexSound.
LEMMA CreateRequestRefines ==
    ASSUME IInv, NEW c \in Principals, NEW id \in RequestIds,
           NEW a \in Amounts, NEW r \in References, NEW e \in Time,
           CreateRequest(c, id, a, r, e)
    PROVE  [Lifecycle!LNext]_Lifecycle!lvars
<1> DEFINE err == CreateRequestError(c, id, a, r, e)
           new == [request_id |-> id, merchant |-> c,
                   amount |-> a, reference |-> r,
                   status |-> "Pending", created_at |-> now,
                   expires_at |-> e,
                   paid_at |-> <<>>, payment_id |-> <<>>]
<1>1. CASE err # "Ok"
  <2>1. requests' = requests /\ now' = now
    BY <1>1 DEF CreateRequest, Fail, ledger
  <2>2. QED
    BY <2>1, StutterRefines
<1>2. CASE err = "Ok"
  <2>1. /\ id \notin DOMAIN requests
        /\ r \notin DOMAIN refIndex
        /\ now < e
    BY <1>2 DEF CreateRequestError, IInv, TypeOK, Time
  <2>2. /\ requests' = [i \in DOMAIN requests \cup {id} |->
                          IF i = id THEN new ELSE requests[i]]
        /\ now' = now
    BY <1>2 DEF CreateRequest, Fail
  <2>3. LifecycleStatus[id] = "Absent"
    BY <2>1 DEF LifecycleStatus
  <2>4. r \notin Lifecycle!UsedRefs
    <3>1. \A j \in RequestIds : LifecycleStatus[j] # "Absent" =>
             /\ j \in DOMAIN requests
             /\ LifecycleRef[j] = requests[j].reference
      BY DEF LifecycleStatus, LifecycleRef
    <3>2. \A j \in DOMAIN requests : requests[j].reference \in DOMAIN refIndex
      BY DEF IInv, LedgerSafety, ReferenceIndexSound
    <3>3. QED
      BY <2>1, <3>1, <3>2 DEF Lifecycle!UsedRefs, Lifecycle!Absent
  <2>5. LifecycleStatus' = [LifecycleStatus EXCEPT ![id] = "Pending"]
    BY <2>2 DEF LifecycleStatus
  <2>6. LifecycleRef' = [LifecycleRef EXCEPT ![id] = r]
    BY <2>2 DEF LifecycleRef
  <2>7. LifecycleDeadline' = [LifecycleDeadline EXCEPT ![id] = e]
    BY <2>2 DEF LifecycleDeadline
  <2>8. Lifecycle!Create(id, r, e)
    BY <2>1, <2>2, <2>3, <2>4, <2>5, <2>6, <2>7 DEF Lifecycle!Create, Lifecycle!Absent
  <2>9. QED
    BY <2>8 DEF Lifecycle!LNext
<1>3. QED
  BY <1>1, <1>2

\* The admin calls write only instance configuration: lifecycle stutters.
LEMMA ConfigRefines ==
    ASSUME NEW c \in Principals,
           \/ \E o \in Principals : SetOperator(c, o)
           \/ \E v \in Amounts : SetMinAmount(c, v) \/ SetMaxAmount(c, v)
           \/ Pause(c) \/ Unpause(c)
    PROVE  [Lifecycle!LNext]_Lifecycle!lvars
<1>1. requests' = requests /\ now' = now
  BY DEF SetOperator, SetMinAmount, SetMaxAmount, Pause, Unpause, SetPaused,
         Fail, ledger
<1>2. QED
  BY <1>1, StutterRefines

\* The host's clock step is Advance(now + 1).
LEMMA TickRefines ==
    ASSUME TypeOK, Tick
    PROVE  [Lifecycle!LNext]_Lifecycle!lvars
<1>1. now + 1 \in Time /\ now < now + 1 /\ now' = now + 1
  <2>1. now \in 0..MaxTime /\ now < MaxTime /\ now' = now + 1
    BY DEF Tick, TypeOK, Time
  <2>2. QED
    BY <2>1, MaxTimeAssumption DEF Time
<1>2. UNCHANGED <<LifecycleStatus, LifecycleRef, LifecycleDeadline>>
  BY DEF Tick, ledger, LifecycleStatus, LifecycleRef, LifecycleDeadline
<1>3. Lifecycle!Advance(now + 1)
  BY <1>1, <1>2 DEF Lifecycle!Advance
<1>4. QED
  BY <1>1, <1>3 DEF Lifecycle!LNext

LEMMA StepRefines == IInv /\ [Next]_vars => [Lifecycle!LNext]_Lifecycle!lvars
<1> SUFFICES ASSUME IInv, [Next]_vars PROVE [Lifecycle!LNext]_Lifecycle!lvars
  OBVIOUS
<1>1. TypeOK
  BY DEF IInv
<1>2. CASE \E c \in Principals, id \in RequestIds, a \in Amounts,
              r \in References, e \in Time : CreateRequest(c, id, a, r, e)
  BY <1>2, CreateRequestRefines
<1>3. CASE \E c \in Principals, id \in RequestIds, p \in PaymentIds :
              MarkPaid(c, id, p)
  BY <1>1, <1>3, MarkPaidRefines
<1>4. CASE \E c \in Principals, id \in RequestIds : CancelRequest(c, id)
  BY <1>1, <1>4, CancelRequestRefines
<1>5. CASE \E c \in Principals, id \in RequestIds : MarkExpired(c, id)
  BY <1>1, <1>5, MarkExpiredRefines
<1>6. CASE \E c \in Principals :
              \/ \E o \in Principals : SetOperator(c, o)
              \/ \E v \in Amounts : SetMinAmount(c, v) \/ SetMaxAmount(c, v)
              \/ Pause(c) \/ Unpause(c)
  BY <1>6, ConfigRefines
<1>7. CASE Tick
  BY <1>1, <1>7, TickRefines
<1>8. CASE UNCHANGED vars
  BY <1>8, StutterRefines DEF vars, ledger
<1>9. QED
  BY <1>2, <1>3, <1>4, <1>5, <1>6, <1>7, <1>8 DEF Next

\* The contract implements its lifecycle: from the constructor's empty
\* storage, every sequence of calls is a sequence of lifecycle steps and
\* stutters, so no request is created twice or with a used reference or a
\* past expiry, and none leaves Pending twice or expires before its time.
THEOREM Refinement == Spec => ImplementsLifecycle
<1>1. Init => Lifecycle!LInit
  BY DEF Init, Lifecycle!LInit, LifecycleStatus, LifecycleRef, LifecycleDeadline,
         Lifecycle!Absent, Lifecycle!NoRef
<1>2. Init => IInv
  BY InitTypeOK, InitLedgerSafety DEF IInv
<1>3. QED
  BY <1>1, <1>2, NextInductive, StepRefines, PTL
     DEF Spec, ImplementsLifecycle, Lifecycle!LSpec

=============================================================================
