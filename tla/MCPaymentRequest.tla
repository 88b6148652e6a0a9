-------------------------- MODULE MCPaymentRequest --------------------------
(* PaymentRequest instantiated for TLC: three principals (admin, operator, *)
(* a merchant), two references, one payment id and a clock in 0..2.  The   *)
(* ledger run takes two request ids (so a second request can collide on    *)
(* either key) and amounts in 0..2; the bounds run takes one request id    *)
(* and amounts in 0..3, so that min and max can both move.  The          *)
(* refinement run drops the operator (admin and merchant only): roles    *)
(* decide only which calls panic, and a panic is a lifecycle stutter.     *)
EXTENDS PaymentRequest, TLC

CONSTANTS adm, opr, mer, i1, i2, f1, f2, pay1

MCPrincipals == {adm, opr, mer}
MCTwoPrincipals == {adm, mer}
MCRequestIds == {i1, i2}
MCOneRequestId == {i1}
MCReferences == {f1, f2}
MCPaymentIds == {pay1}

\* Request ids, references and payment ids are opaque: only equality is used.
MCSymmetry == Permutations(MCRequestIds) \cup Permutations(MCReferences)

\* `outcome` is read by no guard: states that differ only in it have the
\* same futures, so TLC identifies them (action properties reading outcome'
\* are still checked on every step TLC generates).
MCView == <<config, ledger, now>>

=============================================================================
