# Formal models of the dabdub contracts

This directory holds TLA+ models of the Soroban contracts under
`src/dabdub_contracts/contracts/`. It has TLC configurations that check the
models on small instances, and TLAPS proofs of the main invariants for every
value of the constants. `PROJECT.json` lists the components, runs, mutants,
the map from definitions to source lines, findings, hazards and theorems.

## 1. The system

| Part | Source | State | Operations |
|---|---|---|---|
| Payment-request contract: config store | `payment_request/src/lib.rs` | instance storage: `Admin`, `Operator`, `Vault`, `Paused`, `MinAmount`, `MaxAmount` | `__constructor`, `set_operator`, `set_min_amount`, `set_max_amount`, `pause`, `unpause` |
| Payment-request contract: ledger | same | instance counters `TotalRequests`, `PendingRequests`; persistent `Request(id)` records and the `ReferenceIndex(ref) -> id` index | `create_request`; views `get_request`, `get_request_by_reference`, getters |
| Payment-request contract: lifecycle engine | same | the `status`, `paid_at` and `payment_id` of each record; the ledger timestamp | `mark_paid`, `cancel_request`, `mark_expired` |
| Custodial user wallet | `user_wallet/src/test.rs` only (its `lib.rs` is not in the repository) | `owner: Option<Address>`, backend, the token balance of the wallet | `withdraw`, `set_owner`, `emergency_withdraw`, `transfer_to_vault` |
| Token ledger (Stellar asset contract) | external | balance per account | `transfer` (all or nothing), `mint` (used by the tests to fund the wallet) |
| Vault contract | external, not in the repository | fee policy | `compute_fee`, queried by `transfer_to_vault` |

How the parts interact:
- An off-chain backend creates a payment request, which is `Pending`.
- When the payment is observed, the operator calls `mark_paid`.
- Separately, the backend sweeps a user's wallet into the vault with
  `transfer_to_vault`. The wallet asks the vault for the fee and moves
  payment plus fee in one token transfer.
- The two contracts never call each other. They are linked only by the
  backend, so each is modelled on its own.

Behaviours that make the contracts hard to test:
- **Atomic calls.** Every invocation is atomic: a `panic!` rolls back all
  its writes. A call therefore either runs its whole success path or
  changes nothing.
- **Interleaved callers.** The contracts are sequential, but calls from
  admin, operator, merchants and backend interleave in any order. The
  clock advances between calls.
- **Error order.** The order of a handler's checks decides which panic
  wins. For example, `cancel_request` checks the status before the
  caller's role.
- **Silent counter floor.** The pending counter is decremented with a
  floor at 0 (`if pending > 0`). A double decrement would be silently
  masked.
- **Partial pause.** Only `create_request` checks the pause flag.

## 2. Modules

| Module | Models | Status |
|---|---|---|
| `PaymentRequest` | the whole payment-request contract (config store, ledger, lifecycle) | from `lib.rs` |
| `MCPaymentRequest` | TLC instance: principals `adm`, `opr`, `mer`; ids, references and payment ids as model values; symmetry; view | |
| `PaymentRequestProofs` | TLAPS proofs about `PaymentRequest`: types, ledger invariants, bounds | |
| `PaymentLifecycle` | abstract specification of the request lifecycle the contract promises | abstract |
| `PaymentRefinementProofs` | TLAPS proof that `PaymentRequest` implements `PaymentLifecycle` | |
| `PaymentActionProofs` | TLAPS proofs of the action properties `RecordsImmutable` and `TransitionsAuthorized` | |
| `UserWallet` | the user wallet and the token ledger it moves funds on | spec-modelled (spec section 4.3 and the panics its tests expect) |
| `MCUserWallet` | TLC instance of the wallet | |
| `UserWalletProofs` | TLAPS proofs of the wallet's type correctness, `OnlyAuthorizedDebit` and `SweepExact` | |

### PaymentRequest

The variables are the storage keys, one each:
- `operator`, `paused`, `minAmount`, `maxAmount` (the tuple `config`);
- `totalRequests`, `pendingRequests`, `requests` and `refIndex` (the tuple
  `ledger`). `requests` and `refIndex` are functions whose domain is the set
  of keys present, so `has()` is membership in `DOMAIN`;
- `now`, the ledger timestamp;
- `outcome`, the last call's name, caller, request id and result.

`outcome` is observation only. No guard reads it, which is why the MC
configs leave it out of the `VIEW`.

Each public entry point that writes storage is one action. Its error chain
is an operator (`CreateRequestError`, `MarkPaidError`, ...) that returns
the first panic in the code's order, or `"Ok"`. An action has two
disjuncts:
- `Fail`: only `outcome` changes, which is Soroban's rollback;
- success: all the handler's writes at once.

The writes of the success disjuncts:
- `create_request` stores the record and the index entry, and increments
  both counters.
- The three lifecycle calls rewrite the record and apply the floored
  `DecrementPending`.
- `Tick` advances the clock. The host does this between invocations.

Data is abstracted:
- amounts are `0..AmountCap`, where 0 stands for every non-positive i128;
- times are `0..MaxTime`;
- events and views are left out, except `GetRequestByReference`, which the
  properties use;
- the vault address is stored but never read, so it is left out.

### PaymentLifecycle (abstract) and the refinement

The abstract spec keeps, per request id:
- a `status`: `"Absent"`, `Pending`, `Paid`, `Cancelled` or `Expired`;
- a reference `refOf`;
- a `deadline`;
- plus the clock `now`.

It has three actions:
- `Create(i, r, e)`: an absent id, a reference no created request carries,
  and `now < e`;
- `Resolve(i, s)`: `Pending` to one terminal `s`, and `Expired` only when
  `deadline[i] <= now`;
- `Advance(t)`: the clock moves forward.

`PaymentRequest` defines the refinement mapping:
- `LifecycleStatus`, `LifecycleRef` and `LifecycleDeadline` read each
  id's record, or give `"Absent"`, `"noref"` and 0 when there is none;
- `Lifecycle == INSTANCE PaymentLifecycle WITH ...`;
- `ImplementsLifecycle == Lifecycle!LSpec`.

Every panic and every admin call is a lifecycle stutter. Counters,
amounts, roles and payment ids are below the abstraction.

### UserWallet

The wallet's implementation is not in the repository. Its actions follow
the spec and the panics its tests expect (`test.rs`): `Not authorized`,
`Insufficient balance`, `Only backend`, `Owner not set`, `Only owner`.

The variables are `owner` (an `Option<Address>` as a sequence of length at
most 1), the token `balance` of every account, `minted` (funding, bounded
by `MaxSupply`) and `outcome`.

Assumptions about the other contracts:
- `TokenTransfer` is the asset contract's `transfer`: all or nothing, and
  it panics on a short balance.
- The vault's fee is a nondeterministic choice from `Fees` on every
  `transfer_to_vault`, because the vault's admin can change it between
  calls.

## 3. Runs

| Run | Config | Checks | Bounds | Result |
|---|---|---|---|---|
| `pr_ledger` | `MCPaymentRequest.cfg` | `TypeOK`, `CountersTrackLedger`, `ReferenceIndexSound`, `RequestTimeline`, `RecordsImmutable`, `TransitionsAuthorized` | 3 principals, 2 ids, 2 refs, 1 payment id, `AmountCap` 2, `MaxTime` 2 | pass (about 52k distinct states) |
| `pr_refinement` | `MCPaymentRequestRefinement.cfg` | `ImplementsLifecycle` | 2 principals (admin, merchant), 2 ids, 2 refs, `MaxTime` 2 | pass (about 16k distinct states) |
| `pr_bounds` | `MCPaymentRequestBounds.cfg` | `AmountBoundsOrdered` | 1 id, `AmountCap` 3 | pass |
| `pr_pause` | `MCPaymentRequestPause.cfg` | `PauseFreezesLedger` | 1 id | **violation**, expected (see Findings) |
| `wallet` | `MCUserWallet.cfg` | `OnlyAuthorizedDebit`, `SweepExact` | backend, owner, other; amounts {1,2}; fees {0,1}; supply 4 | pass |

Why these bounds are enough:
- **`pr_ledger`.** Two ids and two references are the least that let two
  requests coexist, collide on an id or reference, and reach different
  terminal states in either order. With `MaxTime` 2 a request can be
  created at 0 and expire at 1 or 2, so the expiry boundary is reached from
  both sides. With `AmountCap` 2 the bounds stay at `min` 1 and `max` 2
  (the setters keep `min < max`), so the only rejected amount here is the
  non-positive 0; amounts below `min` and above `max` occur in `pr_bounds`.
- **`pr_bounds`.** Needs `AmountCap` 3 so that the bounds can move past
  each other in several steps, and so that `create_request` meets amounts
  below `min` (bounds 2..3) and above `max` (bounds 1..2).
- **`wallet`.** Reaches every panic, an owner replacement followed by a
  debit attempt, and sweeps where the fee tips the balance check.

- **`pr_refinement`.** Drops the operator principal: roles only decide
  which calls panic, and a panic is a stutter of the lifecycle.

Symmetry over request ids and over references is sound. The model never
distinguishes two ids or two references except by equality.

### Fairness and liveness

None is assumed, and no liveness property is stated. The contract has no
timer: spec section 5 makes expiry a caller-driven transition
(`mark_expired`), and nothing in the repository schedules that call. No
call is guaranteed to happen, so no weak fairness of any action is
justified by the code, and a `Pending` request may stay `Pending` for ever.

### Properties

- `CountersTrackLedger`: `totalRequests` equals the number of stored
  records, and `pendingRequests` the number of `Pending` records. A second
  decrement, hidden by the floor at `lib.rs:279`, would break it.
- `ReferenceIndexSound`: the index and the records agree in both
  directions, and references are unique. This holds even after a request
  with a given reference has become terminal.
- `RequestTimeline`: the order of the timestamps in each record, and the
  coupling of `paid_at` and `payment_id` to status `Paid`.
- `RecordsImmutable` (an action property): nothing is deleted, the
  creation fields never change, and terminal records never change.
- `TransitionsAuthorized` (an action property): a new request's merchant
  is the caller of `create_request`; a request becomes `Paid` or `Expired`
  only through `mark_paid` or `mark_expired` by the operator or the admin
  of that moment; it becomes `Cancelled` only through `cancel_request` by
  its own merchant or the admin. In `pr_ledger` the operator `opr` can also
  create requests, so a merchant acting on another's request and an
  operator replaced by `set_operator` both occur. Its mutant drops the
  merchant-or-admin check of `cancel_request`.
- `ImplementsLifecycle`: the refinement described above.
- `AmountBoundsOrdered`: `0 < min_amount < max_amount` after any sequence
  of setter calls.
- `OnlyAuthorizedDebit` (an action property): the wallet balance falls only
  on calls by the backend or by the owner as of the start of the call.
  `emergency_withdraw` is allowed only for the owner.
- `SweepExact` (an action property): `transfer_to_vault` moves exactly
  payment plus fee from the wallet to the vault and returns that sum, or
  moves nothing.

Each property has a mutant: a plausible bug in the mapped code that TLC
catches (`PROJECT.json`, "mutants").

## 4. Findings

**The pause gate is partial** (`pr_pause`).
- Spec section 4.2 says pausing protects against all state mutation.
- The code checks `Paused` only in `create_request` (`lib.rs:149-156`).
- TLC's counterexample: create a request, pause, then `mark_paid`
  succeeds and changes the record and the pending counter.
- `cancel_request` and `mark_expired` also run while paused.

## 5. Proofs (checked by `tlapm`)

The theorems hold for every value of the constants, under the assumptions
`PrincipalsAssumption`, `AmountCapAssumption` and `MaxTimeAssumption`.

| Theorem | Statement |
|---|---|
| `TypeCorrect` | `Spec => []TypeOK` |
| `LedgerInvariants` | `Spec => [](CountersTrackLedger /\ ReferenceIndexSound /\ RequestTimeline)` |
| `CountersCorrect`, `ReferenceIndexCorrect`, `TimelineCorrect` | each conjunct of `LedgerInvariants` on its own |
| `BoundsCorrect` | `Spec => []AmountBoundsOrdered` |
| `Refinement` (in `PaymentRefinementProofs`) | `Spec => ImplementsLifecycle` |
| `RecordsImmutableCorrect` (in `PaymentActionProofs`) | `Spec => RecordsImmutable` |
| `TypeCorrect` (in `UserWalletProofs`) | `Spec => []TypeOK` for the wallet |
| `OnlyAuthorizedDebitCorrect` (in `UserWalletProofs`) | `Spec => OnlyAuthorizedDebit` |
| `SweepExactCorrect` (in `UserWalletProofs`) | `Spec => SweepExact` |
| `TransitionsAuthorizedCorrect` (in `PaymentActionProofs`) | `Spec => TransitionsAuthorized` |

The wallet theorems assume `WalletConstantsAssumption`.

The argument for `TypeCorrect`:
- one lemma per action that preserves `TypeOK`;
- their union, `NextTypeOK`;
- `InitTypeOK`.

The argument for `LedgerInvariants`:
- **The inductive invariant.** It is
  `IInv == TypeOK /\ CountersTrackLedger /\ ReferenceIndexSound /\ RequestTimeline`.
  The three ledger invariants are not inductive alone, because the counter
  arithmetic and the cardinality facts need the types. They are not
  inductive separately either: the counter step of `create_request` needs
  the fact that a fresh id is not yet a key (its own guard). The index step
  needs the fact that a stored reference belongs to a stored record.
- **Lemmas for each kind of step.** There is one lemma per ledger-changing
  action. `TerminalCounters` and `TerminalReferences` are shared by the
  three lifecycle calls. For each, the set of pending ids loses exactly the
  one id, and since the pending count is positive, the floor in
  `DecrementPending` is never taken. `StaticLedgerSafety` covers steps that
  leave the ledger alone and only move the clock forward.
- **Finite sets.** `DomainFinite` with `FS_AddElement`, `FS_RemoveElement`
  and `FS_Subset` give the cardinality facts.

The argument for `BoundsCorrect`:
- `AmountBoundsOrdered` is inductive together with `TypeOK`.
- Each setter compares its new bound with the other, current bound.
- Every other action leaves both bounds unchanged.

The argument for `Refinement`:
- **Initial states.** The constructor's empty storage maps to
  `Lifecycle!LInit`.
- **Steps.** `StepRefines` shows `IInv /\ [Next]_vars => [Lifecycle!LNext]_lvars`,
  with one lemma per kind of call.
- **`create_request`** is `Create`. Its duplicate-reference check is about
  `DataKey::ReferenceIndex`, while the abstract guard is about the
  references of the stored records. The two agree by the first conjunct of
  `ReferenceIndexSound`, which is why the step proof needs the invariant
  and not just the types.
- **The three lifecycle calls** are `Resolve`, through `ResolveRefines` and
  `RecordRewrite`. A rewrite keeps the reference and the expiry of the
  record.
- **`Tick`** is `Advance(now + 1)`.
- **Everything else** leaves `requests` and `now` alone, so it is a
  stutter (`StutterRefines`).
- **Combining.** The last step combines these with `NextInductive`
  through PTL.

The argument for the action properties:
- Each is stated as `[][XStep]_vars`. The proof shows
  `TypeOK /\ [Next]_vars => [XStep]_vars` with one lemma per action, and
  PTL lifts it with `TypeCorrect`.
- **`RecordsImmutable`.** There is one lemma per kind of step.
  `StaticImmutable` covers steps that do not touch `requests`.
  `CreateImmutable` adds one record at a fresh id. The three lifecycle
  lemmas rewrite only a `Pending` record and keep its creation fields.
- **`TransitionsAuthorized`.** `TerminalAuthorized` covers the rewrite of
  one status by a call entitled to it; each lifecycle lemma reads the
  entitlement off the call's check chain (`IsOperatorOrAdmin`, or the
  merchant-or-admin test of `CancelRequestError`), and `CreateAuthorized`
  reads the merchant off the stored record. It needs only `TypeOK`: the
  operator of the pre-state is the one the check compares with, since no
  call changes both the operator and a record.
- **Wallet.** `TokenTransfer` with distinct `from` and `to` changes
  exactly those two balances. A panicking call leaves every balance alone.
  `WalletAcct` and `VaultAcct` are not principals, so no recipient is the
  wallet itself.

Only model-checked: nothing among the passing runs. Every invariant and
action property they check is also a theorem above. `pr_pause` is a
violation run and has no theorem.

## 6. Not modelled

- **Events and views.** These are outputs only. No state depends on them.
- **`require_auth`.** The host's signature checking is taken as given:
  each call comes from its caller. The contracts' own role checks are
  modelled.
- **The vault contract.** Only its fee answer is modelled, as a
  nondeterministic choice.
- **Counter overflow.** The u64 counters and i128 amounts do not overflow
  in the model. Reaching the u64 limit needs 2^64 requests. The sum
  `payment + fee` is taken unbounded.
- **Liveness.** Nothing in the wallet has to happen: every call is at the
  backend's or the owner's discretion. In the payment contract, expiry
  waits for a caller of `mark_expired` that the repository does not
  provide, so no fairness is justified (see Fairness and liveness).

## 7. Plan

Done:
- `PaymentRequest` with its runs and mutants, the abstract lifecycle and
  the refinement proof;
- `UserWallet` with its run;
- the proofs of type correctness, the ledger invariants and the bounds;
- proofs of `RecordsImmutable` and the wallet properties;
- `outcome` records the caller; `TransitionsAuthorized`, checked and
  proved. The order of the checks in
  `cancel_request` is observable now, but neither the spec nor the tests
  fix one, so no property states it.

Next, in order:
1. **Late payment.** Decide, with the authors, whether `mark_paid` after
   `expires_at` is allowed; if not, a violation run shows it happens.
2. **Composition.** A module in which `mark_paid` is driven by a wallet's
   `transfer_to_vault`, relating the vault's receipts to `Paid` records.
