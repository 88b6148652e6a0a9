----------------------------- MODULE UserWallet -----------------------------
(***************************************************************************)
(* The custodial user wallet (contracts/user_wallet) and the token ledger  *)
(* it moves funds on.  The wallet's lib.rs is not part of the repository   *)
(* sources; this module follows spec section 4.3 and the panics its tests  *)
(* (contracts/user_wallet/src/test.rs) expect.  The token ledger is the    *)
(* asset contract: a balance per account and transfer(from, to, amount),   *)
(* which panics when `from` holds less than `amount`.  The vault's fee     *)
(* query is opaque: each transfer_to_vault is answered with some fee in    *)
(* Fees, since the vault's admin may change its fee policy between calls.  *)
(* A call either completes or panics with no effect, and `outcome` records *)
(* the last call: name, caller, arguments that matter, fee, result and the *)
(* value returned.                                                         *)
(***************************************************************************)
EXTENDS Naturals, FiniteSets, Sequences

CONSTANTS
    Principals,   \* addresses that may call the wallet or receive funds
    Backend,      \* the backend given to the constructor
    WalletAcct,   \* the wallet contract's own token account
    VaultAcct,    \* the vault contract's token account
    Amounts,      \* amounts passed to withdraw and transfer_to_vault
    Fees,         \* fees the vault's compute_fee may answer
    MaxSupply     \* bound on the tokens minted into the wallet

ASSUME WalletConstantsAssumption ==
    /\ Backend \in Principals
    /\ WalletAcct \notin Principals /\ VaultAcct \notin Principals
    /\ WalletAcct # VaultAcct
    /\ Amounts \subseteq Nat /\ Fees \subseteq Nat
    /\ MaxSupply \in Nat

VARIABLES
    owner,     \* Option<Address>: <<>> or <<o>>
    balance,   \* the token ledger: balance of every account
    minted,    \* tokens minted into the wallet so far (bounded by MaxSupply)
    outcome    \* the last call and its result

vars == <<owner, balance, minted, outcome>>

Accounts == Principals \cup {WalletAcct, VaultAcct}
Option(S) == {s \in Seq(S) : Len(s) <= 1}   \* <<>> is None, <<x>> is Some(x)
None == "none"   \* the caller of a step that is not a call

Results == {"Ok", "NotAuthorized", "InsufficientBalance", "OnlyBackend",
            "OwnerNotSet", "OnlyOwner", "None"}
Ops == {"none", "withdraw", "set_owner", "emergency_withdraw",
        "transfer_to_vault", "deposit"}
\* amount, fee and ret are Option values: <<>> when the call has none.
Outcome == [op : Ops, caller : Principals \cup {None},
            amount : Option(Nat), fee : Option(Nat),
            res : Results, ret : Option(Nat)]

Call(op, caller, amount, fee, res, ret) ==
    [op |-> op, caller |-> caller, amount |-> amount, fee |-> fee,
     res |-> res, ret |-> ret]

\* Mutant: authorization that only asks whether an owner is set.
IsAuthorizedAnyOwner(caller) == caller = Backend \/ owner # <<>>

\* The wallet's authorization rule: the backend, or the owner once set.
IsAuthorized(caller) == caller = Backend \/ owner = <<caller>>

\* token::Client::transfer: all or nothing, panics on a short balance.
TokenTransfer(from, to, amt) ==
    /\ balance[from] >= amt
    /\ balance' = [balance EXCEPT ![from] = @ - amt, ![to] = @ + amt]

Init ==
    /\ owner \in {<<>>} \cup {<<p>> : p \in Principals}
    /\ balance = [a \in Accounts |-> 0]
    /\ minted = 0
    /\ outcome = Call("none", None, <<>>, <<>>, "None", <<>>)

\* A panicking call changes nothing but the outcome.
Fail(op, caller, amount, fee, err) ==
    /\ outcome' = Call(op, caller, amount, fee, err, <<>>)
    /\ UNCHANGED <<owner, balance, minted>>

-----------------------------------------------------------------------------

\* Funding: the asset's admin mints to the wallet (how the tests fund it).
Deposit(amt) ==
    /\ minted + amt <= MaxSupply
    /\ minted' = minted + amt
    /\ balance' = [balance EXCEPT ![WalletAcct] = @ + amt]
    /\ outcome' = Call("deposit", None, <<amt>>, <<>>, "Ok", <<>>)
    /\ UNCHANGED owner

\* withdraw(caller, amount, recipient)
Withdraw(caller, amt, to) ==
    \/ /\ ~IsAuthorized(caller)
       /\ Fail("withdraw", caller, <<amt>>, <<>>, "NotAuthorized")
    \/ /\ IsAuthorized(caller)
       /\ balance[WalletAcct] < amt
       /\ Fail("withdraw", caller, <<amt>>, <<>>, "InsufficientBalance")
    \/ /\ IsAuthorized(caller)
       /\ balance[WalletAcct] >= amt
       /\ TokenTransfer(WalletAcct, to, amt)
       /\ outcome' = Call("withdraw", caller, <<amt>>, <<>>, "Ok", <<>>)
       /\ UNCHANGED <<owner, minted>>

\* set_owner(caller, new_owner): backend only, replaces any owner.
SetOwner(caller, newOwner) ==
    \/ /\ caller # Backend
       /\ Fail("set_owner", caller, <<>>, <<>>, "OnlyBackend")
    \/ /\ caller = Backend
       /\ owner' = <<newOwner>>
       /\ outcome' = Call("set_owner", caller, <<>>, <<>>, "Ok", <<>>)
       /\ UNCHANGED <<balance, minted>>

\* emergency_withdraw(caller): the owner sweeps the whole balance to itself.
EmergencyWithdraw(caller) ==
    \/ /\ owner = <<>>
       /\ Fail("emergency_withdraw", caller, <<>>, <<>>, "OwnerNotSet")
    \/ /\ owner # <<>> /\ owner # <<caller>>
       /\ Fail("emergency_withdraw", caller, <<>>, <<>>, "OnlyOwner")
    \/ /\ owner = <<caller>>
       /\ TokenTransfer(WalletAcct, caller, balance[WalletAcct])
       /\ outcome' = Call("emergency_withdraw", caller, <<balance[WalletAcct]>>,
                          <<>>, "Ok", <<>>)
       /\ UNCHANGED <<owner, minted>>

\* Mutant: the sweep moves the payment amount and leaves the fee behind.
SweepTotalPaymentOnly(paymentAmount, fee) == paymentAmount

\* The amount transfer_to_vault moves for a payment and the vault's fee.
SweepTotal(paymentAmount, fee) == paymentAmount + fee

\* transfer_to_vault(caller, payment_amount): fee-inclusive sweep; the
\* sufficiency check covers payment and fee, and one transfer moves both.
TransferToVault(caller, amt) ==
    \/ /\ ~IsAuthorized(caller)
       /\ Fail("transfer_to_vault", caller, <<amt>>, <<>>, "NotAuthorized")
    \/ \E fee \in Fees :
          /\ IsAuthorized(caller)
          /\ \/ /\ balance[WalletAcct] < amt + fee
                /\ Fail("transfer_to_vault", caller, <<amt>>, <<fee>>, "InsufficientBalance")
             \/ /\ balance[WalletAcct] >= amt + fee
                /\ TokenTransfer(WalletAcct, VaultAcct, SweepTotal(amt, fee))
                /\ outcome' = Call("transfer_to_vault", caller, <<amt>>, <<fee>>,
                                   "Ok", <<amt + fee>>)
                /\ UNCHANGED <<owner, minted>>

Next ==
    \/ \E a \in Amounts : Deposit(a)
    \/ \E c \in Principals :
          \/ \E a \in Amounts, to \in Principals : Withdraw(c, a, to)
          \/ \E o \in Principals : SetOwner(c, o)
          \/ EmergencyWithdraw(c)
          \/ \E a \in Amounts : TransferToVault(c, a)

Spec == Init /\ [][Next]_vars

-----------------------------------------------------------------------------
(* Properties.                                                             *)

\* Every variable holds a value of its type: owner is None or one address,
\* balances are natural numbers (a transfer never overdraws an account).
TypeOK ==
    /\ owner \in Option(Principals)
    /\ balance \in [Accounts -> Nat]
    /\ minted \in 0..MaxSupply
    /\ outcome \in Outcome

\* Funds leave the wallet only on a call the authorization rule allows as
\* of the state the call starts in: withdraw or transfer_to_vault by the
\* backend or the current owner, or emergency_withdraw by the current owner.
\* An owner replaced by set_owner can move nothing afterwards.
OnlyAuthorizedDebitStep ==
    balance'[WalletAcct] < balance[WalletAcct] =>
        \/ /\ outcome'.op \in {"withdraw", "transfer_to_vault"}
           /\ outcome'.caller = Backend \/ owner = <<outcome'.caller>>
        \/ /\ outcome'.op = "emergency_withdraw"
           /\ owner = <<outcome'.caller>>

\* Every step of the wallet keeps OnlyAuthorizedDebitStep.
OnlyAuthorizedDebit == [][OnlyAuthorizedDebitStep]_vars

\* transfer_to_vault either moves exactly payment_amount + fee from the
\* wallet to the vault, returns that sum and changes no other balance, or
\* moves nothing (spec section 8).
SweepExactStep ==
    outcome'.op = "transfer_to_vault" /\ balance' # balance =>
        LET total == outcome'.amount[1] + outcome'.fee[1] IN
        /\ outcome'.res = "Ok"
        /\ outcome'.ret = <<total>>
        /\ balance'[WalletAcct] = balance[WalletAcct] - total
        /\ balance'[VaultAcct] = balance[VaultAcct] + total
        /\ \A a \in Accounts \ {WalletAcct, VaultAcct} : balance'[a] = balance[a]

\* Every step of the wallet keeps SweepExactStep.
SweepExact == [][SweepExactStep]_vars


=============================================================================
