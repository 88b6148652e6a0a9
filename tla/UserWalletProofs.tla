-------------------------- MODULE UserWalletProofs --------------------------
(***************************************************************************)
(* Proofs about UserWallet for every value of its constants: the type      *)
(* invariant, and the two action properties the wallet run checks.        *)
(***************************************************************************)
EXTENDS UserWallet, TLAPS

USE WalletConstantsAssumption

-----------------------------------------------------------------------------
(* Type correctness.                                                       *)

\* A transfer between two accounts, guarded by the sender's balance,
\* keeps every balance a natural number.
LEMMA TransferTypeOK ==
    ASSUME balance \in [Accounts -> Nat],
           NEW from \in Accounts, NEW to \in Accounts, NEW amt \in Nat,
           TokenTransfer(from, to, amt)
    PROVE  balance' \in [Accounts -> Nat]
BY DEF TokenTransfer

LEMMA CallOutcome ==
    ASSUME NEW op \in Ops, NEW c \in Principals \cup {None},
           NEW a \in Option(Nat), NEW f \in Option(Nat),
           NEW res \in Results, NEW ret \in Option(Nat)
    PROVE  Call(op, c, a, f, res, ret) \in Outcome
BY DEF Call, Outcome

LEMMA OptionFacts ==
    ASSUME NEW S, NEW x \in S
    PROVE  <<>> \in Option(S) /\ <<x>> \in Option(S)
BY DEF Option

LEMMA InitTypeOK == Init => TypeOK
<1> SUFFICES ASSUME Init PROVE TypeOK
  OBVIOUS
<1>1. owner \in Option(Principals)
  BY OptionFacts DEF Init
<1>2. outcome \in Outcome
  BY OptionFacts, CallOutcome DEF Init, Ops, Results, None
<1>3. QED
  BY <1>1, <1>2 DEF Init, TypeOK, Accounts

\* A panicking call changes only outcome.
LEMMA FailTypeOK ==
    ASSUME TypeOK, NEW op \in Ops, NEW c \in Principals,
           NEW a \in Option(Nat), NEW f \in Option(Nat), NEW err \in Results,
           Fail(op, c, a, f, err)
    PROVE  TypeOK'
BY OptionFacts, CallOutcome DEF Fail, TypeOK

LEMMA DepositTypeOK ==
    ASSUME TypeOK, NEW amt \in Amounts, Deposit(amt)
    PROVE  TypeOK'
<1>1. amt \in Nat
  OBVIOUS
<1>2. minted' \in 0..MaxSupply
  BY <1>1 DEF Deposit, TypeOK
<1>3. balance' \in [Accounts -> Nat]
  BY <1>1 DEF Deposit, TypeOK, Accounts
<1>4. outcome' \in Outcome
  BY <1>1, OptionFacts, CallOutcome DEF Deposit, Ops, Results, None
<1>5. QED
  BY <1>2, <1>3, <1>4 DEF Deposit, TypeOK

LEMMA WithdrawTypeOK ==
    ASSUME TypeOK, NEW c \in Principals, NEW amt \in Amounts,
           NEW to \in Principals, Withdraw(c, amt, to)
    PROVE  TypeOK'
<1>1. amt \in Nat /\ <<amt>> \in Option(Nat) /\ <<>> \in Option(Nat)
  BY OptionFacts
<1>2. CASE Fail("withdraw", c, <<amt>>, <<>>, "NotAuthorized")
             \/ Fail("withdraw", c, <<amt>>, <<>>, "InsufficientBalance")
  BY <1>1, <1>2, FailTypeOK DEF Ops, Results
<1>3. CASE /\ TokenTransfer(WalletAcct, to, amt)
           /\ outcome' = Call("withdraw", c, <<amt>>, <<>>, "Ok", <<>>)
           /\ UNCHANGED <<owner, minted>>
  <2>1. balance' \in [Accounts -> Nat]
    BY <1>1, <1>3, TransferTypeOK DEF TypeOK, Accounts
  <2>2. outcome' \in Outcome
    BY <1>1, <1>3, CallOutcome DEF Ops, Results
  <2>3. QED
    BY <1>3, <2>1, <2>2 DEF TypeOK
<1>4. QED
  BY <1>2, <1>3 DEF Withdraw

LEMMA SetOwnerTypeOK ==
    ASSUME TypeOK, NEW c \in Principals, NEW o \in Principals, SetOwner(c, o)
    PROVE  TypeOK'
<1>1. <<>> \in Option(Nat) /\ <<o>> \in Option(Principals)
  BY OptionFacts
<1>2. CASE Fail("set_owner", c, <<>>, <<>>, "OnlyBackend")
  BY <1>1, <1>2, FailTypeOK DEF Ops, Results
<1>3. CASE /\ owner' = <<o>>
           /\ outcome' = Call("set_owner", c, <<>>, <<>>, "Ok", <<>>)
           /\ UNCHANGED <<balance, minted>>
  BY <1>1, <1>3, CallOutcome DEF TypeOK, Ops, Results
<1>4. QED
  BY <1>2, <1>3 DEF SetOwner

LEMMA EmergencyWithdrawTypeOK ==
    ASSUME TypeOK, NEW c \in Principals, EmergencyWithdraw(c)
    PROVE  TypeOK'
<1>1. <<>> \in Option(Nat)
  BY OptionFacts
<1>2. CASE Fail("emergency_withdraw", c, <<>>, <<>>, "OwnerNotSet")
             \/ Fail("emergency_withdraw", c, <<>>, <<>>, "OnlyOwner")
  BY <1>1, <1>2, FailTypeOK DEF Ops, Results
<1>3. CASE /\ TokenTransfer(WalletAcct, c, balance[WalletAcct])
           /\ outcome' = Call("emergency_withdraw", c, <<balance[WalletAcct]>>,
                              <<>>, "Ok", <<>>)
           /\ UNCHANGED <<owner, minted>>
  <2>1. balance[WalletAcct] \in Nat /\ <<balance[WalletAcct]>> \in Option(Nat)
    BY OptionFacts DEF TypeOK, Accounts
  <2>2. balance' \in [Accounts -> Nat]
    BY <2>1, <1>3, TransferTypeOK DEF TypeOK, Accounts
  <2>3. outcome' \in Outcome
    BY <1>1, <2>1, <1>3, CallOutcome DEF Ops, Results
  <2>4. QED
    BY <1>3, <2>2, <2>3 DEF TypeOK
<1>4. QED
  BY <1>2, <1>3 DEF EmergencyWithdraw

LEMMA TransferToVaultTypeOK ==
    ASSUME TypeOK, NEW c \in Principals, NEW amt \in Amounts,
           TransferToVault(c, amt)
    PROVE  TypeOK'
<1>1. amt \in Nat /\ <<amt>> \in Option(Nat) /\ <<>> \in Option(Nat)
  BY OptionFacts
<1>2. CASE Fail("transfer_to_vault", c, <<amt>>, <<>>, "NotAuthorized")
  BY <1>1, <1>2, FailTypeOK DEF Ops, Results
<1>3. CASE \E fee \in Fees :
             \/ Fail("transfer_to_vault", c, <<amt>>, <<fee>>, "InsufficientBalance")
             \/ /\ TokenTransfer(WalletAcct, VaultAcct, SweepTotal(amt, fee))
                /\ outcome' = Call("transfer_to_vault", c, <<amt>>, <<fee>>,
                                   "Ok", <<amt + fee>>)
                /\ UNCHANGED <<owner, minted>>
  <2>1. PICK fee \in Fees :
             \/ Fail("transfer_to_vault", c, <<amt>>, <<fee>>, "InsufficientBalance")
             \/ /\ TokenTransfer(WalletAcct, VaultAcct, SweepTotal(amt, fee))
                /\ outcome' = Call("transfer_to_vault", c, <<amt>>, <<fee>>,
                                   "Ok", <<amt + fee>>)
                /\ UNCHANGED <<owner, minted>>
    BY <1>3
  <2>2. fee \in Nat /\ <<fee>> \in Option(Nat) /\ <<amt + fee>> \in Option(Nat)
    BY <1>1, OptionFacts
  <2>3. CASE Fail("transfer_to_vault", c, <<amt>>, <<fee>>, "InsufficientBalance")
    BY <1>1, <2>2, <2>3, FailTypeOK DEF Ops, Results
  <2>4. CASE /\ TokenTransfer(WalletAcct, VaultAcct, SweepTotal(amt, fee))
             /\ outcome' = Call("transfer_to_vault", c, <<amt>>, <<fee>>,
                                "Ok", <<amt + fee>>)
             /\ UNCHANGED <<owner, minted>>
    <3>1. balance' \in [Accounts -> Nat]
      BY <1>1, <2>2, <2>4, TransferTypeOK DEF TypeOK, Accounts, SweepTotal
    <3>2. outcome' \in Outcome
      BY <1>1, <2>2, <2>4, CallOutcome DEF Ops, Results
    <3>3. QED
      BY <2>4, <3>1, <3>2 DEF TypeOK
  <2>5. QED
    BY <2>1, <2>3, <2>4
<1>4. QED
  <2>1. TransferToVault(c, amt) =>
          \/ Fail("transfer_to_vault", c, <<amt>>, <<>>, "NotAuthorized")
          \/ \E fee \in Fees :
               \/ Fail("transfer_to_vault", c, <<amt>>, <<fee>>, "InsufficientBalance")
               \/ /\ TokenTransfer(WalletAcct, VaultAcct, SweepTotal(amt, fee))
                  /\ outcome' = Call("transfer_to_vault", c, <<amt>>, <<fee>>,
                                     "Ok", <<amt + fee>>)
                  /\ UNCHANGED <<owner, minted>>
    BY DEF TransferToVault
  <2>2. QED
    BY <1>2, <1>3, <2>1

LEMMA NextTypeOK == TypeOK /\ [Next]_vars => TypeOK'
<1> SUFFICES ASSUME TypeOK, [Next]_vars PROVE TypeOK'
  OBVIOUS
<1>1. CASE \E a \in Amounts : Deposit(a)
  BY <1>1, DepositTypeOK
<1>2. CASE \E c \in Principals, a \in Amounts, to \in Principals : Withdraw(c, a, to)
  BY <1>2, WithdrawTypeOK
<1>3. CASE \E c, o \in Principals : SetOwner(c, o)
  BY <1>3, SetOwnerTypeOK
<1>4. CASE \E c \in Principals : EmergencyWithdraw(c)
  BY <1>4, EmergencyWithdrawTypeOK
<1>5. CASE \E c \in Principals, a \in Amounts : TransferToVault(c, a)
  BY <1>5, TransferToVaultTypeOK
<1>6. CASE UNCHANGED vars
  BY <1>6 DEF TypeOK, vars
<1>7. QED
  BY <1>1, <1>2, <1>3, <1>4, <1>5, <1>6 DEF Next

\* Every reachable state of the wallet is well typed; in particular no
\* withdraw, emergency_withdraw or transfer_to_vault overdraws the wallet.
THEOREM TypeCorrect == Spec => []TypeOK
BY InitTypeOK, NextTypeOK, PTL DEF Spec

-----------------------------------------------------------------------------
(* The two action properties.  Each is shown for every action separately; *)
(* a panicking call leaves the balances alone, so both hold of it         *)
(* vacuously.                                                              *)

LEMMA FailSteps ==
    ASSUME TypeOK, NEW op, NEW c, NEW a, NEW f, NEW err, Fail(op, c, a, f, err)
    PROVE  OnlyAuthorizedDebitStep /\ SweepExactStep
<1>1. balance' = balance
  BY DEF Fail
<1>2. balance[WalletAcct] \in Nat
  BY DEF TypeOK, Accounts
<1>3. ~(balance'[WalletAcct] < balance[WalletAcct])
  BY <1>1, <1>2
<1>4. QED
  BY <1>1, <1>3 DEF OnlyAuthorizedDebitStep, SweepExactStep

LEMMA DepositSteps ==
    ASSUME TypeOK, NEW amt \in Amounts, Deposit(amt)
    PROVE  OnlyAuthorizedDebitStep /\ SweepExactStep
<1>1. ~(balance'[WalletAcct] < balance[WalletAcct])
  BY DEF Deposit, TypeOK, Accounts
<1>2. outcome'.op = "deposit"
  BY DEF Deposit, Call
<1>3. QED
  BY <1>1, <1>2 DEF OnlyAuthorizedDebitStep, SweepExactStep

LEMMA WithdrawSteps ==
    ASSUME TypeOK, NEW c \in Principals, NEW amt \in Amounts,
           NEW to \in Principals, Withdraw(c, amt, to)
    PROVE  OnlyAuthorizedDebitStep /\ SweepExactStep
<1>1. CASE Fail("withdraw", c, <<amt>>, <<>>, "NotAuthorized")
             \/ Fail("withdraw", c, <<amt>>, <<>>, "InsufficientBalance")
  BY <1>1, FailSteps
<1>2. CASE /\ IsAuthorized(c)
           /\ TokenTransfer(WalletAcct, to, amt)
           /\ outcome' = Call("withdraw", c, <<amt>>, <<>>, "Ok", <<>>)
  <2>1. outcome'.op = "withdraw" /\ outcome'.caller = c
    BY <1>2 DEF Call
  <2>2. QED
    BY <1>2, <2>1 DEF IsAuthorized, OnlyAuthorizedDebitStep, SweepExactStep
<1>3. QED
  BY <1>1, <1>2 DEF Withdraw

LEMMA SetOwnerSteps ==
    ASSUME TypeOK, NEW c \in Principals, NEW o \in Principals, SetOwner(c, o)
    PROVE  OnlyAuthorizedDebitStep /\ SweepExactStep
<1>1. CASE Fail("set_owner", c, <<>>, <<>>, "OnlyBackend")
  BY <1>1, FailSteps
<1>2. CASE UNCHANGED balance
  <2>1. ~(balance'[WalletAcct] < balance[WalletAcct])
    BY <1>2 DEF TypeOK, Accounts
  <2>2. QED
    BY <1>2, <2>1 DEF OnlyAuthorizedDebitStep, SweepExactStep
<1>3. QED
  BY <1>1, <1>2 DEF SetOwner

LEMMA EmergencyWithdrawSteps ==
    ASSUME TypeOK, NEW c \in Principals, EmergencyWithdraw(c)
    PROVE  OnlyAuthorizedDebitStep /\ SweepExactStep
<1>1. CASE Fail("emergency_withdraw", c, <<>>, <<>>, "OwnerNotSet")
             \/ Fail("emergency_withdraw", c, <<>>, <<>>, "OnlyOwner")
  BY <1>1, FailSteps
<1>2. CASE /\ owner = <<c>>
           /\ outcome' = Call("emergency_withdraw", c, <<balance[WalletAcct]>>,
                              <<>>, "Ok", <<>>)
  <2>1. outcome'.op = "emergency_withdraw" /\ outcome'.caller = c
    BY <1>2 DEF Call
  <2>2. QED
    BY <1>2, <2>1 DEF OnlyAuthorizedDebitStep, SweepExactStep
<1>3. QED
  BY <1>1, <1>2 DEF EmergencyWithdraw

LEMMA TransferToVaultSteps ==
    ASSUME TypeOK, NEW c \in Principals, NEW amt \in Amounts,
           TransferToVault(c, amt)
    PROVE  OnlyAuthorizedDebitStep /\ SweepExactStep
<1>1. CASE Fail("transfer_to_vault", c, <<amt>>, <<>>, "NotAuthorized")
  BY <1>1, FailSteps
<1>2. CASE \E fee \in Fees : Fail("transfer_to_vault", c, <<amt>>, <<fee>>,
                                  "InsufficientBalance")
  BY <1>2, FailSteps
<1>3. CASE \E fee \in Fees :
             /\ IsAuthorized(c)
             /\ TokenTransfer(WalletAcct, VaultAcct, SweepTotal(amt, fee))
             /\ outcome' = Call("transfer_to_vault", c, <<amt>>, <<fee>>,
                                "Ok", <<amt + fee>>)
  <2>1. PICK fee \in Fees :
             /\ IsAuthorized(c)
             /\ TokenTransfer(WalletAcct, VaultAcct, SweepTotal(amt, fee))
             /\ outcome' = Call("transfer_to_vault", c, <<amt>>, <<fee>>,
                                "Ok", <<amt + fee>>)
    BY <1>3
  <2>2. /\ outcome'.op = "transfer_to_vault" /\ outcome'.caller = c
        /\ outcome'.res = "Ok" /\ outcome'.ret = <<amt + fee>>
        /\ outcome'.amount[1] = amt /\ outcome'.fee[1] = fee
    BY <2>1 DEF Call
  <2>3. OnlyAuthorizedDebitStep
    BY <2>1, <2>2 DEF IsAuthorized, OnlyAuthorizedDebitStep
  <2>4. /\ balance'[WalletAcct] = balance[WalletAcct] - (amt + fee)
        /\ balance'[VaultAcct] = balance[VaultAcct] + (amt + fee)
        /\ \A a \in Accounts \ {WalletAcct, VaultAcct} : balance'[a] = balance[a]
    BY <2>1 DEF TokenTransfer, SweepTotal, TypeOK, Accounts
  <2>5. SweepExactStep
    BY <2>2, <2>4 DEF SweepExactStep
  <2>6. QED
    BY <2>3, <2>5
<1>4. QED
  BY <1>1, <1>2, <1>3 DEF TransferToVault

LEMMA NextSteps ==
    TypeOK /\ [Next]_vars => [OnlyAuthorizedDebitStep /\ SweepExactStep]_vars
<1> SUFFICES ASSUME TypeOK, [Next]_vars
             PROVE  [OnlyAuthorizedDebitStep /\ SweepExactStep]_vars
  OBVIOUS
<1>1. CASE \E a \in Amounts : Deposit(a)
  BY <1>1, DepositSteps
<1>2. CASE \E c \in Principals, a \in Amounts, to \in Principals : Withdraw(c, a, to)
  BY <1>2, WithdrawSteps
<1>3. CASE \E c, o \in Principals : SetOwner(c, o)
  BY <1>3, SetOwnerSteps
<1>4. CASE \E c \in Principals : EmergencyWithdraw(c)
  BY <1>4, EmergencyWithdrawSteps
<1>5. CASE \E c \in Principals, a \in Amounts : TransferToVault(c, a)
  BY <1>5, TransferToVaultSteps
<1>6. CASE UNCHANGED vars
  BY <1>6
<1>7. QED
  BY <1>1, <1>2, <1>3, <1>4, <1>5, <1>6 DEF Next

\* Funds leave the wallet only on withdraw or transfer_to_vault by the
\* backend or the current owner, or on emergency_withdraw by the current
\* owner, for every set of principals, amounts and fees.
THEOREM OnlyAuthorizedDebitCorrect == Spec => OnlyAuthorizedDebit
<1>1. TypeOK /\ [Next]_vars => [OnlyAuthorizedDebitStep]_vars
  BY NextSteps
<1>2. QED
  BY TypeCorrect, <1>1, PTL DEF Spec, OnlyAuthorizedDebit

\* Every transfer_to_vault that moves funds moves exactly payment_amount
\* plus the vault's fee from the wallet to the vault and returns that sum.
THEOREM SweepExactCorrect == Spec => SweepExact
<1>1. TypeOK /\ [Next]_vars => [SweepExactStep]_vars
  BY NextSteps
<1>2. QED
  BY TypeCorrect, <1>1, PTL DEF Spec, SweepExact

=============================================================================
