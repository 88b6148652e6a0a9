---------------------------- MODULE MCUserWallet ----------------------------
(* UserWallet for TLC: a backend, two other principals (a candidate owner  *)
(* and a stranger), amounts 1..2, fees 0..1 and at most 3 tokens minted,   *)
(* so a balance covers a payment but not always payment plus fee.         *)
EXTENDS UserWallet, TLC

CONSTANTS bk, ow, ot, wal, vlt

MCPrincipals == {bk, ow, ot}

\* outcome is read by no guard (see MCPaymentRequest).
MCView == <<owner, balance, minted>>

=============================================================================
