-------------------------- MODULE MCTransactionPool --------------------------
(***************************************************************************)
(* TransactionPool for TLC: three transactions, one of them with the       *)
(* timestamp of a client whose clock is ahead, one invalid.                *)
(***************************************************************************)
EXTENDS TransactionPool, TLC

CONSTANTS t1, t2, bad

MCTxs == {t1, t2, bad}
MCValidTxs == {t1, t2}
MCTimestamp == (t1 :> 0) @@ (t2 :> 2) @@ (bad :> 0)
=============================================================================
