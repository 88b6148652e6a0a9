-------------------------- MODULE PaymentLifecycle --------------------------
(***************************************************************************)
(* What the payment-request contract promises its callers (spec sections  *)
(* 3 and 4), independent of storage layout, counters and roles: a request *)
(* id is unused until it is created Pending with a reference no other     *)
(* request carries and a deadline in the future; a Pending request ends   *)
(* exactly once, as Paid, Cancelled or Expired, and Expired only once the *)
(* clock reached its deadline; the clock never goes back.  A created      *)
(* request keeps its reference and deadline for ever.                     *)
(***************************************************************************)
EXTENDS Naturals

CONSTANTS
    RequestIds,   \* request ids
    References,   \* merchant references
    Time          \* ledger timestamps

VARIABLES
    status,     \* RequestIds -> {"Absent"} \cup the contract's statuses
    refOf,      \* the reference of each created request
    deadline,   \* the expiry time of each created request
    now         \* the ledger clock

lvars == <<status, refOf, deadline, now>>

Absent == "Absent"
NoRef == "noref"
Terminal == {"Paid", "Cancelled", "Expired"}

\* References carried by created requests.
UsedRefs == {refOf[i] : i \in {j \in RequestIds : status[j] # Absent}}

LInit ==
    /\ status = [i \in RequestIds |-> Absent]
    /\ refOf = [i \in RequestIds |-> NoRef]
    /\ deadline = [i \in RequestIds |-> 0]
    /\ now \in Time

Create(i, r, e) ==
    /\ status[i] = Absent
    /\ r \notin UsedRefs
    /\ now < e
    /\ status' = [status EXCEPT ![i] = "Pending"]
    /\ refOf' = [refOf EXCEPT ![i] = r]
    /\ deadline' = [deadline EXCEPT ![i] = e]
    /\ UNCHANGED now

\* A Pending request ends as s; Expired only once its deadline is reached.
Resolve(i, s) ==
    /\ status[i] = "Pending"
    /\ s = "Expired" => deadline[i] <= now
    /\ status' = [status EXCEPT ![i] = s]
    /\ UNCHANGED <<refOf, deadline, now>>

Advance(t) ==
    /\ now < t
    /\ now' = t
    /\ UNCHANGED <<status, refOf, deadline>>

LNext ==
    \/ \E i \in RequestIds, r \in References, e \in Time : Create(i, r, e)
    \/ \E i \in RequestIds, s \in Terminal : Resolve(i, s)
    \/ \E t \in Time : Advance(t)

LSpec == LInit /\ [][LNext]_lvars

=============================================================================
