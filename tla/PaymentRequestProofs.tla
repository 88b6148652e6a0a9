------------------------ MODULE PaymentRequestProofs ------------------------
(***************************************************************************)
(* Proofs about PaymentRequest for every value of its constants.           *)
(***************************************************************************)
EXTENDS PaymentRequest, TLAPS, FiniteSetTheorems

USE PrincipalsAssumption, AmountCapAssumption, MaxTimeAssumption

-----------------------------------------------------------------------------
(* Type correctness.                                                       *)

LEMMA InitTypeOK == Init => TypeOK
<1> SUFFICES ASSUME Init PROVE TypeOK
  OBVIOUS
<1>1. DOMAIN requests = {} /\ requests \in [DOMAIN requests -> PaymentRequestRec]
  BY DEF Init
<1>2. DOMAIN refIndex = {} /\ refIndex \in [DOMAIN refIndex -> RequestIds]
  BY DEF Init
<1>3. outcome \in Outcome
  BY DEF Init, Outcome, Ops, Results, NoId, NoCaller
<1>4. QED
  BY <1>1, <1>2, <1>3 DEF Init, TypeOK

\* A panicking call changes only `outcome`.
LEMMA FailTypeOK ==
    ASSUME TypeOK, NEW op \in Ops, NEW c \in Principals,
           NEW id \in RequestIds \cup {NoId}, NEW err \in Results,
           Fail(op, c, id, err)
    PROVE  TypeOK'
BY DEF Fail, TypeOK, Outcome, config, ledger

\* The storage of a new Pending record keeps the ledger's type.
LEMMA CreateRequestTypeOK ==
    ASSUME TypeOK, NEW c \in Principals, NEW id \in RequestIds,
           NEW a \in Amounts, NEW r \in References, NEW e \in Time,
           CreateRequest(c, id, a, r, e)
    PROVE  TypeOK'
<1> DEFINE err == CreateRequestError(c, id, a, r, e)
<1>1. err \in Results
  BY DEF CreateRequestError, Results
<1>2. CASE err # "Ok"
  <2>1. Fail("create_request", c, id, err)
    BY <1>2 DEF CreateRequest
  <2>2. QED
    BY <1>1, <2>1, FailTypeOK DEF Ops
<1>3. CASE err = "Ok"
  <2>1. a \in 1..AmountCap
    BY <1>3 DEF CreateRequestError, Amounts, TypeOK
  <2>2. /\ requests' = [i \in DOMAIN requests \cup {id} |->
                         IF i = id
                         THEN [request_id |-> id, merchant |-> c,
                               amount |-> a, reference |-> r,
                               status |-> "Pending", created_at |-> now,
                               expires_at |-> e,
                               paid_at |-> <<>>, payment_id |-> <<>>]
                         ELSE requests[i]]
        /\ refIndex' = [x \in DOMAIN refIndex \cup {r} |->
                         IF x = r THEN id ELSE refIndex[x]]
        /\ totalRequests' = totalRequests + 1
        /\ pendingRequests' = pendingRequests + 1
        /\ outcome' = [op |-> "create_request", caller |-> c, id |-> id, res |-> "Ok"]
        /\ UNCHANGED <<config, now>>
    BY <1>3 DEF CreateRequest, Fail, Succeed
  <2>3. [request_id |-> id, merchant |-> c, amount |-> a, reference |-> r,
         status |-> "Pending", created_at |-> now, expires_at |-> e,
         paid_at |-> <<>>, payment_id |-> <<>>] \in PaymentRequestRec
    BY <2>1 DEF TypeOK, PaymentRequestRec, Option, Statuses
  <2>4. requests' \in [DOMAIN requests' -> PaymentRequestRec]
        /\ DOMAIN requests' \subseteq RequestIds
    BY <2>2, <2>3 DEF TypeOK
  <2>5. refIndex' \in [DOMAIN refIndex' -> RequestIds]
        /\ DOMAIN refIndex' \subseteq References
    BY <2>2 DEF TypeOK
  <2>6. outcome' \in Outcome
    BY <2>2 DEF Outcome, Ops, Results
  <2>7. /\ operator' = operator /\ paused' = paused
        /\ minAmount' = minAmount /\ maxAmount' = maxAmount /\ now' = now
    BY <2>2 DEF config
  <2>8. totalRequests' \in Nat /\ pendingRequests' \in Nat
    BY <2>2 DEF TypeOK
  <2>9. QED
    BY <2>4, <2>5, <2>6, <2>7, <2>8 DEF TypeOK
<1>4. QED
  BY <1>2, <1>3


\* The three terminal transitions rewrite fields of one stored record.
LEMMA MarkPaidTypeOK ==
    ASSUME TypeOK, NEW c \in Principals, NEW id \in RequestIds,
           NEW p \in PaymentIds, MarkPaid(c, id, p)
    PROVE  TypeOK'
<1> DEFINE err == MarkPaidError(c, id)
<1>1. err \in Results
  BY DEF MarkPaidError, Results
<1>2. CASE err # "Ok"
  BY <1>1, <1>2, FailTypeOK DEF MarkPaid, Ops
<1>3. CASE err = "Ok"
  <2>1. id \in DOMAIN requests
    BY <1>3 DEF MarkPaidError
  <2>2. /\ requests' = [requests EXCEPT ![id].status = "Paid",
                                        ![id].paid_at = <<now>>,
                                        ![id].payment_id = <<p>>]
        /\ pendingRequests' = DecrementPending(pendingRequests)
        /\ outcome' = [op |-> "mark_paid", caller |-> c, id |-> id, res |-> "Ok"]
        /\ UNCHANGED <<config, totalRequests, refIndex, now>>
    BY <1>3 DEF MarkPaid, Fail, Succeed
  <2>3. <<now>> \in Option(Time) /\ <<p>> \in Option(PaymentIds)
    BY DEF TypeOK, Option
  <2>4. requests' \in [DOMAIN requests' -> PaymentRequestRec]
        /\ DOMAIN requests' \subseteq RequestIds
    BY <2>1, <2>2, <2>3 DEF TypeOK, PaymentRequestRec, Statuses
  <2>5. pendingRequests' \in Nat
    BY <2>2 DEF TypeOK, DecrementPending
  <2>6. outcome' \in Outcome
    BY <2>2 DEF Outcome, Ops, Results
  <2>7. QED
    BY <2>2, <2>4, <2>5, <2>6 DEF TypeOK, config
<1>4. QED
  BY <1>2, <1>3

LEMMA CancelRequestTypeOK ==
    ASSUME TypeOK, NEW c \in Principals, NEW id \in RequestIds,
           CancelRequest(c, id)
    PROVE  TypeOK'
<1> DEFINE err == CancelRequestError(c, id)
<1>1. err \in Results
  BY DEF CancelRequestError, Results
<1>2. CASE err # "Ok"
  BY <1>1, <1>2, FailTypeOK DEF CancelRequest, Ops
<1>3. CASE err = "Ok"
  <2>1. id \in DOMAIN requests
    BY <1>3 DEF CancelRequestError
  <2>2. /\ requests' = [requests EXCEPT ![id].status = "Cancelled"]
        /\ pendingRequests' = DecrementPending(pendingRequests)
        /\ outcome' = [op |-> "cancel_request", caller |-> c, id |-> id, res |-> "Ok"]
        /\ UNCHANGED <<config, totalRequests, refIndex, now>>
    BY <1>3 DEF CancelRequest, Fail, Succeed
  <2>4. requests' \in [DOMAIN requests' -> PaymentRequestRec]
        /\ DOMAIN requests' \subseteq RequestIds
    BY <2>1, <2>2 DEF TypeOK, PaymentRequestRec, Statuses
  <2>5. pendingRequests' \in Nat
    BY <2>2 DEF TypeOK, DecrementPending
  <2>6. outcome' \in Outcome
    BY <2>2 DEF Outcome, Ops, Results
  <2>7. QED
    BY <2>2, <2>4, <2>5, <2>6 DEF TypeOK, config
<1>4. QED
  BY <1>2, <1>3

LEMMA MarkExpiredTypeOK ==
    ASSUME TypeOK, NEW c \in Principals, NEW id \in RequestIds,
           MarkExpired(c, id)
    PROVE  TypeOK'
<1> DEFINE err == MarkExpiredError(c, id)
<1>1. err \in Results
  BY DEF MarkExpiredError, Results
<1>2. CASE err # "Ok"
  BY <1>1, <1>2, FailTypeOK DEF MarkExpired, Ops
<1>3. CASE err = "Ok"
  <2>1. id \in DOMAIN requests
    BY <1>3 DEF MarkExpiredError
  <2>2. /\ requests' = [requests EXCEPT ![id].status = "Expired"]
        /\ pendingRequests' = DecrementPending(pendingRequests)
        /\ outcome' = [op |-> "mark_expired", caller |-> c, id |-> id, res |-> "Ok"]
        /\ UNCHANGED <<config, totalRequests, refIndex, now>>
    BY <1>3 DEF MarkExpired, Fail, Succeed
  <2>4. requests' \in [DOMAIN requests' -> PaymentRequestRec]
        /\ DOMAIN requests' \subseteq RequestIds
    BY <2>1, <2>2 DEF TypeOK, PaymentRequestRec, Statuses
  <2>5. pendingRequests' \in Nat
    BY <2>2 DEF TypeOK, DecrementPending
  <2>6. outcome' \in Outcome
    BY <2>2 DEF Outcome, Ops, Results
  <2>7. QED
    BY <2>2, <2>4, <2>5, <2>6 DEF TypeOK, config
<1>4. QED
  BY <1>2, <1>3

\* The admin setters write one configuration key each.
LEMMA SetOperatorTypeOK ==
    ASSUME TypeOK, NEW c \in Principals, NEW o \in Principals,
           SetOperator(c, o)
    PROVE  TypeOK'
<1> DEFINE err == AdminError(c)
<1>1. err \in Results
  BY DEF AdminError, Results
<1>2. CASE err # "Ok"
  BY <1>1, <1>2, FailTypeOK DEF SetOperator, Ops
<1>3. CASE err = "Ok"
  <2>1. /\ operator' = o
        /\ outcome' \in Outcome
        /\ UNCHANGED <<paused, minAmount, maxAmount, ledger, now>>
    BY <1>3 DEF SetOperator, Fail, Succeed, Outcome, Ops, Results, NoId
  <2>2. operator' \in Principals
    BY <1>3, <2>1 DEF AdminError, Amounts
  <2>3. QED
    BY <2>1, <2>2 DEF TypeOK, ledger
<1>4. QED
  BY <1>2, <1>3

LEMMA SetMinAmountTypeOK ==
    ASSUME TypeOK, NEW c \in Principals, NEW v \in Amounts,
           SetMinAmount(c, v)
    PROVE  TypeOK'
<1> DEFINE err == SetMinAmountError(c, v)
<1>1. err \in Results
  BY DEF SetMinAmountError, Results
<1>2. CASE err # "Ok"
  BY <1>1, <1>2, FailTypeOK DEF SetMinAmount, Ops
<1>3. CASE err = "Ok"
  <2>1. /\ minAmount' = v
        /\ outcome' \in Outcome
        /\ UNCHANGED <<operator, paused, maxAmount, ledger, now>>
    BY <1>3 DEF SetMinAmount, Fail, Succeed, Outcome, Ops, Results, NoId
  <2>2. minAmount' \in 1..AmountCap
    BY <1>3, <2>1 DEF SetMinAmountError, Amounts
  <2>3. QED
    BY <2>1, <2>2 DEF TypeOK, ledger
<1>4. QED
  BY <1>2, <1>3

LEMMA SetMaxAmountTypeOK ==
    ASSUME TypeOK, NEW c \in Principals, NEW v \in Amounts,
           SetMaxAmount(c, v)
    PROVE  TypeOK'
<1> DEFINE err == SetMaxAmountError(c, v)
<1>1. err \in Results
  BY DEF SetMaxAmountError, Results
<1>2. CASE err # "Ok"
  BY <1>1, <1>2, FailTypeOK DEF SetMaxAmount, Ops
<1>3. CASE err = "Ok"
  <2>1. /\ maxAmount' = v
        /\ outcome' \in Outcome
        /\ UNCHANGED <<operator, paused, minAmount, ledger, now>>
    BY <1>3 DEF SetMaxAmount, Fail, Succeed, Outcome, Ops, Results, NoId
  <2>2. maxAmount' \in 1..AmountCap
    BY <1>3, <2>1 DEF SetMaxAmountError, Amounts
  <2>3. QED
    BY <2>1, <2>2 DEF TypeOK, ledger
<1>4. QED
  BY <1>2, <1>3

LEMMA SetPausedTypeOK ==
    ASSUME TypeOK, NEW op \in Ops, NEW c \in Principals, NEW flag \in BOOLEAN,
           SetPaused(op, c, flag)
    PROVE  TypeOK'
<1> DEFINE err == AdminError(c)
<1>1. err \in Results
  BY DEF AdminError, Results
<1>2. CASE err # "Ok"
  BY <1>1, <1>2, FailTypeOK DEF SetPaused, Ops
<1>3. CASE err = "Ok"
  <2>1. /\ paused' = flag
        /\ outcome' \in Outcome
        /\ UNCHANGED <<operator, minAmount, maxAmount, ledger, now>>
    BY <1>3 DEF SetPaused, Fail, Succeed, Outcome, Ops, Results, NoId
  <2>2. paused' \in BOOLEAN
    BY <1>3, <2>1 DEF AdminError, Amounts
  <2>3. QED
    BY <2>1, <2>2 DEF TypeOK, ledger
<1>4. QED
  BY <1>2, <1>3

LEMMA TickTypeOK == TypeOK /\ Tick => TypeOK'
BY DEF Tick, TypeOK, Time, config, ledger

LEMMA NextTypeOK == TypeOK /\ [Next]_vars => TypeOK'
<1> SUFFICES ASSUME TypeOK, [Next]_vars PROVE TypeOK'
  OBVIOUS
<1>1. CASE \E c \in Principals, id \in RequestIds, a \in Amounts,
              r \in References, e \in Time : CreateRequest(c, id, a, r, e)
  BY <1>1, CreateRequestTypeOK
<1>2. CASE \E c \in Principals, id \in RequestIds, p \in PaymentIds :
              MarkPaid(c, id, p)
  BY <1>2, MarkPaidTypeOK
<1>3. CASE \E c \in Principals, id \in RequestIds : CancelRequest(c, id)
  BY <1>3, CancelRequestTypeOK
<1>4. CASE \E c \in Principals, id \in RequestIds : MarkExpired(c, id)
  BY <1>4, MarkExpiredTypeOK
<1>5. CASE \E c \in Principals :
              \/ \E o \in Principals : SetOperator(c, o)
              \/ \E v \in Amounts : SetMinAmount(c, v) \/ SetMaxAmount(c, v)
              \/ Pause(c)
              \/ Unpause(c)
  BY <1>5, SetOperatorTypeOK, SetMinAmountTypeOK, SetMaxAmountTypeOK,
     SetPausedTypeOK DEF Pause, Unpause, Ops
<1>6. CASE Tick
  BY <1>6, TickTypeOK
<1>7. CASE UNCHANGED vars
  BY <1>7 DEF TypeOK, vars, config, ledger
<1>8. QED
  BY <1>1, <1>2, <1>3, <1>4, <1>5, <1>6, <1>7 DEF Next

\* The type invariant holds in every reachable state.
THEOREM TypeCorrect == Spec => []TypeOK
BY InitTypeOK, NextTypeOK, PTL DEF Spec


-----------------------------------------------------------------------------
(* The ledger invariants.  Each of CountersTrackLedger, ReferenceIndexSound *)
(* and RequestTimeline is inductive once the types are known: a step keeps  *)
(* the three of them from a state where all hold with TypeOK.               *)

LedgerSafety == CountersTrackLedger /\ ReferenceIndexSound /\ RequestTimeline
IInv == TypeOK /\ LedgerSafety

LEMMA DomainFinite ==
    ASSUME TypeOK
    PROVE  /\ IsFiniteSet(DOMAIN requests)
           /\ IsFiniteSet(PendingIds)
<1>1. IsFiniteSet(DOMAIN requests)
  BY FiniteIdsAssumption, FS_Subset DEF TypeOK
<1>2. PendingIds \subseteq DOMAIN requests
  BY DEF PendingIds
<1>3. QED
  BY <1>1, <1>2, FS_Subset

LEMMA InitLedgerSafety == Init => LedgerSafety
<1> SUFFICES ASSUME Init PROVE LedgerSafety
  OBVIOUS
<1>1. DOMAIN requests = {} /\ DOMAIN refIndex = {} /\ PendingIds = {}
  BY DEF Init, PendingIds
<1>2. QED
  BY <1>1, FS_EmptySet
     DEF Init, LedgerSafety, CountersTrackLedger, ReferenceIndexSound,
         RequestTimeline

\* A step that leaves the ledger alone and does not move the clock back.
LEMMA StaticLedgerSafety ==
    ASSUME LedgerSafety, UNCHANGED ledger, now' >= now,
           now \in Nat, now' \in Nat, TypeOK
    PROVE  LedgerSafety'
<1>1. CountersTrackLedger'
  BY DEF LedgerSafety, CountersTrackLedger, ledger, PendingIds
<1>2. ReferenceIndexSound'
  BY DEF LedgerSafety, ReferenceIndexSound, ledger, GetRequestByReference
<1>3. RequestTimeline'
  BY DEF LedgerSafety, RequestTimeline, ledger, TypeOK, PaymentRequestRec,
         Option, Time
<1>4. QED
  BY <1>1, <1>2, <1>3 DEF LedgerSafety

\* A step that moves stored request id from Pending to another status,
\* leaves every other record alone and applies the floored decrement.
LEMMA TerminalCounters ==
    ASSUME TypeOK, CountersTrackLedger,
           NEW id \in PendingIds,
           DOMAIN requests' = DOMAIN requests,
           requests'[id].status # "Pending",
           \A i \in DOMAIN requests \ {id} : requests'[i] = requests[i],
           pendingRequests' = DecrementPending(pendingRequests),
           totalRequests' = totalRequests
    PROVE  CountersTrackLedger'
<1>1. PendingIds' = PendingIds \ {id}
  BY DEF PendingIds
<1>2. IsFiniteSet(PendingIds) /\ Cardinality(PendingIds \ {id}) = Cardinality(PendingIds) - 1
  BY DomainFinite, FS_RemoveElement
<1>3. Cardinality(PendingIds) >= 1
  BY <1>2, FS_CardinalityType, FS_RemoveElement
<1>4. pendingRequests' = pendingRequests - 1
  BY <1>3 DEF CountersTrackLedger, DecrementPending, TypeOK
<1>5. QED
  BY <1>1, <1>2, <1>4 DEF CountersTrackLedger


\* A step that keeps every stored reference and the index.
LEMMA TerminalReferences ==
    ASSUME ReferenceIndexSound,
           DOMAIN requests' = DOMAIN requests,
           \A i \in DOMAIN requests : requests'[i].reference = requests[i].reference,
           refIndex' = refIndex
    PROVE  ReferenceIndexSound'
<1>1. DOMAIN refIndex' = {requests'[i].reference : i \in DOMAIN requests'}
  BY DEF ReferenceIndexSound
<1>2. \A x \in DOMAIN refIndex' :
          /\ refIndex'[x] \in DOMAIN requests'
          /\ GetRequestByReference(x)'.reference = x
  BY DEF ReferenceIndexSound, GetRequestByReference
<1>3. \A i, j \in DOMAIN requests' :
          requests'[i].reference = requests'[j].reference => i = j
  BY DEF ReferenceIndexSound
<1>4. QED
  BY <1>1, <1>2, <1>3 DEF ReferenceIndexSound

LEMMA CreateRequestSafety ==
    ASSUME IInv, NEW c \in Principals, NEW id \in RequestIds,
           NEW a \in Amounts, NEW r \in References, NEW e \in Time,
           CreateRequest(c, id, a, r, e)
    PROVE  LedgerSafety'
<1> DEFINE err == CreateRequestError(c, id, a, r, e)
           new == [request_id |-> id, merchant |-> c,
                   amount |-> a, reference |-> r,
                   status |-> "Pending", created_at |-> now,
                   expires_at |-> e,
                   paid_at |-> <<>>, payment_id |-> <<>>]
<1>1. CASE err # "Ok"
  <2>1. UNCHANGED <<ledger, now>>
    BY <1>1 DEF CreateRequest, Fail
  <2>2. QED
    BY <2>1, StaticLedgerSafety DEF IInv, TypeOK, Time
<1>2. CASE err = "Ok"
  <2>1. /\ id \notin DOMAIN requests
        /\ r \notin DOMAIN refIndex
        /\ now < e
    BY <1>2 DEF CreateRequestError, TypeOK, IInv, Time
  <2>2. /\ requests' = [i \in DOMAIN requests \cup {id} |->
                          IF i = id THEN new ELSE requests[i]]
        /\ refIndex' = [x \in DOMAIN refIndex \cup {r} |->
                          IF x = r THEN id ELSE refIndex[x]]
        /\ totalRequests' = totalRequests + 1
        /\ pendingRequests' = pendingRequests + 1
        /\ now' = now
    BY <1>2 DEF CreateRequest, Fail, config
  <2>3. CountersTrackLedger'
    <3>1. PendingIds' = PendingIds \cup {id}
      BY <2>2 DEF PendingIds
    <3>2. id \notin PendingIds
      BY <2>1 DEF PendingIds
    <3>3. /\ Cardinality(DOMAIN requests') = Cardinality(DOMAIN requests) + 1
          /\ Cardinality(PendingIds') = Cardinality(PendingIds) + 1
      BY <2>1, <2>2, <3>1, <3>2, DomainFinite, FS_AddElement DEF IInv
    <3>4. QED
      BY <2>2, <3>3 DEF IInv, LedgerSafety, CountersTrackLedger
  <2>4. ReferenceIndexSound'
    <3>1. DOMAIN refIndex' = {requests'[i].reference : i \in DOMAIN requests'}
      <4>1. DOMAIN refIndex' = DOMAIN refIndex \cup {r}
        BY <2>2
      <4>2. {requests'[i].reference : i \in DOMAIN requests'}
              = {requests[i].reference : i \in DOMAIN requests} \cup {r}
        <5>1. ASSUME NEW i \in DOMAIN requests'
              PROVE  requests'[i].reference
                       \in {requests[k].reference : k \in DOMAIN requests} \cup {r}
          BY <2>2
        <5>2. ASSUME NEW k \in DOMAIN requests
              PROVE  requests[k].reference
                       \in {requests'[i].reference : i \in DOMAIN requests'}
          <6>1. k # id /\ requests'[k] = requests[k]
            BY <2>1, <2>2
          <6>2. QED
            BY <2>2, <6>1
        <5>3. r \in {requests'[i].reference : i \in DOMAIN requests'}
          BY <2>2
        <5>4. QED
          BY <5>1, <5>2, <5>3
      <4>3. QED
        BY <4>1, <4>2 DEF IInv, LedgerSafety, ReferenceIndexSound
    <3>2. \A x \in DOMAIN refIndex' :
              /\ refIndex'[x] \in DOMAIN requests'
              /\ requests'[refIndex'[x]].reference = x
      BY <2>1, <2>2 DEF IInv, LedgerSafety, ReferenceIndexSound,
                        GetRequestByReference
    <3>3. \A i, j \in DOMAIN requests' :
              requests'[i].reference = requests'[j].reference => i = j
      BY <2>1, <2>2 DEF IInv, LedgerSafety, ReferenceIndexSound
    <3>4. QED
      BY <3>1, <3>2, <3>3 DEF ReferenceIndexSound, GetRequestByReference
  <2>5. RequestTimeline'
    BY <2>1, <2>2 DEF IInv, LedgerSafety, RequestTimeline, TypeOK, Time
  <2>6. QED
    BY <2>3, <2>4, <2>5 DEF LedgerSafety
<1>3. QED
  BY <1>1, <1>2


LEMMA MarkPaidSafety ==
    ASSUME IInv, NEW c \in Principals, NEW id \in RequestIds, NEW p \in PaymentIds,
           MarkPaid(c, id, p)
    PROVE  LedgerSafety'
<1> DEFINE err == MarkPaidError(c, id)
<1>1. CASE err # "Ok"
  <2>1. UNCHANGED <<ledger, now>>
    BY <1>1 DEF MarkPaid, Fail
  <2>2. QED
    BY <2>1, StaticLedgerSafety DEF IInv, TypeOK, Time
<1>2. CASE err = "Ok"
  <2>1. /\ id \in PendingIds
    BY <1>2 DEF MarkPaidError, PendingIds
  <2>2. /\ requests' = [requests EXCEPT ![id].status = "Paid",
                                        ![id].paid_at = <<now>>,
                                        ![id].payment_id = <<p>>]
        /\ pendingRequests' = DecrementPending(pendingRequests)
        /\ UNCHANGED <<totalRequests, refIndex, now>>
    BY <1>2 DEF MarkPaid, Fail
  <2>3. /\ DOMAIN requests' = DOMAIN requests
        /\ requests'[id].status = "Paid"
        /\ \A i \in DOMAIN requests \ {id} : requests'[i] = requests[i]
        /\ \A i \in DOMAIN requests : requests'[i].reference = requests[i].reference
        /\ requests'[id].paid_at = <<now>>
        /\ requests'[id].payment_id = <<p>>
        /\ requests'[id].created_at = requests[id].created_at
        /\ requests'[id].expires_at = requests[id].expires_at
    BY <2>1, <2>2 DEF PendingIds, IInv, TypeOK, PaymentRequestRec
  <2>4. CountersTrackLedger'
    BY <2>1, <2>2, <2>3, TerminalCounters DEF IInv, LedgerSafety
  <2>5. ReferenceIndexSound'
    BY <2>2, <2>3, TerminalReferences DEF IInv, LedgerSafety
  <2>6. RequestTimeline'
    BY <2>1, <2>2, <2>3
       DEF IInv, LedgerSafety, RequestTimeline, PendingIds, TypeOK,
           PaymentRequestRec, Option, Time
  <2>7. QED
    BY <2>4, <2>5, <2>6 DEF LedgerSafety
<1>3. QED
  BY <1>1, <1>2

LEMMA CancelRequestSafety ==
    ASSUME IInv, NEW c \in Principals, NEW id \in RequestIds,
           CancelRequest(c, id)
    PROVE  LedgerSafety'
<1> DEFINE err == CancelRequestError(c, id)
<1>1. CASE err # "Ok"
  <2>1. UNCHANGED <<ledger, now>>
    BY <1>1 DEF CancelRequest, Fail
  <2>2. QED
    BY <2>1, StaticLedgerSafety DEF IInv, TypeOK, Time
<1>2. CASE err = "Ok"
  <2>1. /\ id \in PendingIds
    BY <1>2 DEF CancelRequestError, PendingIds
  <2>2. /\ requests' = [requests EXCEPT ![id].status = "Cancelled"]
        /\ pendingRequests' = DecrementPending(pendingRequests)
        /\ UNCHANGED <<totalRequests, refIndex, now>>
    BY <1>2 DEF CancelRequest, Fail
  <2>3. /\ DOMAIN requests' = DOMAIN requests
        /\ requests'[id].status = "Cancelled"
        /\ \A i \in DOMAIN requests \ {id} : requests'[i] = requests[i]
        /\ \A i \in DOMAIN requests : requests'[i].reference = requests[i].reference
        /\ requests'[id].paid_at = requests[id].paid_at
        /\ requests'[id].payment_id = requests[id].payment_id
        /\ requests'[id].created_at = requests[id].created_at
        /\ requests'[id].expires_at = requests[id].expires_at
    BY <2>1, <2>2 DEF PendingIds, IInv, TypeOK, PaymentRequestRec
  <2>4. CountersTrackLedger'
    BY <2>1, <2>2, <2>3, TerminalCounters DEF IInv, LedgerSafety
  <2>5. ReferenceIndexSound'
    BY <2>2, <2>3, TerminalReferences DEF IInv, LedgerSafety
  <2>6. RequestTimeline'
    BY <2>1, <2>2, <2>3
       DEF IInv, LedgerSafety, RequestTimeline, PendingIds, TypeOK,
           PaymentRequestRec, Option, Time
  <2>7. QED
    BY <2>4, <2>5, <2>6 DEF LedgerSafety
<1>3. QED
  BY <1>1, <1>2

LEMMA MarkExpiredSafety ==
    ASSUME IInv, NEW c \in Principals, NEW id \in RequestIds,
           MarkExpired(c, id)
    PROVE  LedgerSafety'
<1> DEFINE err == MarkExpiredError(c, id)
<1>1. CASE err # "Ok"
  <2>1. UNCHANGED <<ledger, now>>
    BY <1>1 DEF MarkExpired, Fail
  <2>2. QED
    BY <2>1, StaticLedgerSafety DEF IInv, TypeOK, Time
<1>2. CASE err = "Ok"
  <2>1. /\ id \in PendingIds
        /\ requests[id].expires_at <= now
    BY <1>2 DEF MarkExpiredError, PendingIds, IInv, TypeOK, PaymentRequestRec, Time
  <2>2. /\ requests' = [requests EXCEPT ![id].status = "Expired"]
        /\ pendingRequests' = DecrementPending(pendingRequests)
        /\ UNCHANGED <<totalRequests, refIndex, now>>
    BY <1>2 DEF MarkExpired, Fail
  <2>3. /\ DOMAIN requests' = DOMAIN requests
        /\ requests'[id].status = "Expired"
        /\ \A i \in DOMAIN requests \ {id} : requests'[i] = requests[i]
        /\ \A i \in DOMAIN requests : requests'[i].reference = requests[i].reference
        /\ requests'[id].paid_at = requests[id].paid_at
        /\ requests'[id].payment_id = requests[id].payment_id
        /\ requests'[id].created_at = requests[id].created_at
        /\ requests'[id].expires_at = requests[id].expires_at
    BY <2>1, <2>2 DEF PendingIds, IInv, TypeOK, PaymentRequestRec
  <2>4. CountersTrackLedger'
    BY <2>1, <2>2, <2>3, TerminalCounters DEF IInv, LedgerSafety
  <2>5. ReferenceIndexSound'
    BY <2>2, <2>3, TerminalReferences DEF IInv, LedgerSafety
  <2>6. RequestTimeline'
    BY <2>1, <2>2, <2>3
       DEF IInv, LedgerSafety, RequestTimeline, PendingIds, TypeOK,
           PaymentRequestRec, Option, Time
  <2>7. QED
    BY <2>4, <2>5, <2>6 DEF LedgerSafety
<1>3. QED
  BY <1>1, <1>2

\* The admin setters and the clock leave the ledger alone.
LEMMA ConfigStepSafety ==
    ASSUME IInv,
           \/ \E c, o \in Principals : SetOperator(c, o)
           \/ \E c \in Principals, v \in Amounts :
                 SetMinAmount(c, v) \/ SetMaxAmount(c, v)
           \/ \E c \in Principals : Pause(c) \/ Unpause(c)
           \/ Tick
    PROVE  LedgerSafety'
<1>1. UNCHANGED ledger /\ now' >= now /\ now' \in Nat
  BY DEF SetOperator, SetMinAmount, SetMaxAmount, Pause, Unpause, SetPaused,
         Fail, Tick, IInv, TypeOK, Time, ledger
<1>2. QED
  BY <1>1, StaticLedgerSafety DEF IInv, TypeOK, Time

LEMMA NextInductive == IInv /\ [Next]_vars => IInv'
<1> SUFFICES ASSUME IInv, [Next]_vars PROVE IInv'
  OBVIOUS
<1>1. TypeOK'
  BY NextTypeOK DEF IInv
<1>2. LedgerSafety'
  <2>1. CASE \E c \in Principals, id \in RequestIds, a \in Amounts,
                r \in References, e \in Time : CreateRequest(c, id, a, r, e)
    BY <2>1, CreateRequestSafety
  <2>2. CASE \E c \in Principals, id \in RequestIds, p \in PaymentIds :
                MarkPaid(c, id, p)
    BY <2>2, MarkPaidSafety
  <2>3. CASE \E c \in Principals, id \in RequestIds : CancelRequest(c, id)
    BY <2>3, CancelRequestSafety
  <2>4. CASE \E c \in Principals, id \in RequestIds : MarkExpired(c, id)
    BY <2>4, MarkExpiredSafety
  <2>5. CASE \/ \E c, o \in Principals : SetOperator(c, o)
             \/ \E c \in Principals, v \in Amounts :
                   SetMinAmount(c, v) \/ SetMaxAmount(c, v)
             \/ \E c \in Principals : Pause(c) \/ Unpause(c)
             \/ Tick
    BY <2>5, ConfigStepSafety
  <2>6. CASE UNCHANGED vars
    BY <2>6, StaticLedgerSafety DEF IInv, TypeOK, Time, vars
  <2>7. QED
    BY <2>1, <2>2, <2>3, <2>4, <2>5, <2>6 DEF Next
<1>3. QED
  BY <1>1, <1>2 DEF IInv

\* The counters agree with the ledger, the reference index is a bijection
\* and every record is consistent with the clock, in every reachable state
\* and for every value of the constants.
THEOREM LedgerInvariants ==
    Spec => [](CountersTrackLedger /\ ReferenceIndexSound /\ RequestTimeline)
<1>1. Init => IInv
  BY InitTypeOK, InitLedgerSafety DEF IInv
<1>2. IInv => CountersTrackLedger /\ ReferenceIndexSound /\ RequestTimeline
  BY DEF IInv, LedgerSafety
<1>3. QED
  BY <1>1, <1>2, NextInductive, PTL DEF Spec

\* total_requests counts the stored requests and pending_requests the
\* Pending ones after every call: create_request's increments and the
\* floored decrements of mark_paid, cancel_request and mark_expired.
THEOREM CountersCorrect == Spec => []CountersTrackLedger
BY LedgerInvariants, PTL

\* The reference index written by create_request maps each stored reference
\* to the one request carrying it, and every request is indexed.
THEOREM ReferenceIndexCorrect == Spec => []ReferenceIndexSound
BY LedgerInvariants, PTL

\* Creation, payment and expiry times of every record are ordered as
\* create_request, mark_paid and mark_expired write them.
THEOREM TimelineCorrect == Spec => []RequestTimeline
BY LedgerInvariants, PTL

-----------------------------------------------------------------------------
(* The amount bounds.  AmountBoundsOrdered is inductive by itself: each     *)
(* setter compares its new bound with the other, current one.               *)

LEMMA BoundsStep == TypeOK /\ AmountBoundsOrdered /\ [Next]_vars => AmountBoundsOrdered'
<1> SUFFICES ASSUME TypeOK, AmountBoundsOrdered, [Next]_vars
             PROVE  AmountBoundsOrdered'
  OBVIOUS
<1>1. CASE \E c \in Principals, v \in Amounts : SetMinAmount(c, v)
  <2>1. PICK c \in Principals, v \in Amounts : SetMinAmount(c, v)
    BY <1>1
  <2>2. CASE SetMinAmountError(c, v) = "Ok"
    BY <2>1, <2>2 DEF SetMinAmount, SetMinAmountError, Fail, AmountBoundsOrdered,
                      TypeOK, Amounts
  <2>3. CASE SetMinAmountError(c, v) # "Ok"
    BY <2>1, <2>3 DEF SetMinAmount, Fail, AmountBoundsOrdered, config
  <2>4. QED
    BY <2>2, <2>3
<1>2. CASE \E c \in Principals, v \in Amounts : SetMaxAmount(c, v)
  <2>1. PICK c \in Principals, v \in Amounts : SetMaxAmount(c, v)
    BY <1>2
  <2>2. CASE SetMaxAmountError(c, v) = "Ok"
    BY <2>1, <2>2 DEF SetMaxAmount, SetMaxAmountError, Fail, AmountBoundsOrdered,
                      TypeOK, Amounts
  <2>3. CASE SetMaxAmountError(c, v) # "Ok"
    BY <2>1, <2>3 DEF SetMaxAmount, Fail, AmountBoundsOrdered, config
  <2>4. QED
    BY <2>2, <2>3
<1>3. CASE \E c \in Principals : \E id \in RequestIds, a \in Amounts, r \in References, e \in Time :
                CreateRequest(c, id, a, r, e)
  BY <1>3 DEF CreateRequest, Fail, config, AmountBoundsOrdered
<1>4. CASE \E c \in Principals : \E id \in RequestIds, p \in PaymentIds : MarkPaid(c, id, p)
  BY <1>4 DEF MarkPaid, Fail, config, AmountBoundsOrdered
<1>5. CASE \E c \in Principals : \E id \in RequestIds : CancelRequest(c, id)
  BY <1>5 DEF CancelRequest, Fail, config, AmountBoundsOrdered
<1>6. CASE \E c \in Principals : \E id \in RequestIds : MarkExpired(c, id)
  BY <1>6 DEF MarkExpired, Fail, config, AmountBoundsOrdered
<1>7. CASE \E c \in Principals : \E o \in Principals : SetOperator(c, o)
  BY <1>7 DEF SetOperator, Fail, config, AmountBoundsOrdered
<1>8. CASE \E c \in Principals : Pause(c) \/ Unpause(c)
  BY <1>8 DEF Pause, Unpause, SetPaused, Fail, config, AmountBoundsOrdered
<1>9. CASE Tick \/ UNCHANGED vars
  BY <1>9 DEF Tick, vars, config, AmountBoundsOrdered
<1>10. QED
  BY <1>1, <1>2, <1>3, <1>4, <1>5, <1>6, <1>7, <1>8, <1>9 DEF Next

\* The configured bounds satisfy 0 < min_amount < max_amount in every
\* reachable state, whatever sequence of set_min_amount and set_max_amount
\* calls the admin makes.
THEOREM BoundsCorrect == Spec => []AmountBoundsOrdered
<1>1. Init => TypeOK /\ AmountBoundsOrdered
  BY InitTypeOK DEF Init, AmountBoundsOrdered
<1>2. TypeOK /\ AmountBoundsOrdered /\ [Next]_vars
        => TypeOK' /\ AmountBoundsOrdered'
  BY NextTypeOK, BoundsStep
<1>3. QED
  BY <1>1, <1>2, PTL DEF Spec

=============================================================================
