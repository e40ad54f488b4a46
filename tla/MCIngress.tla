------------------------------ MODULE MCIngress ------------------------------
(***************************************************************************)
(* Ingress for TLC: a month of two days of two ticks and the beginning of  *)
(* the next, one subscription that starts on the first or the last day,    *)
(* with tokens or without, and a rate that doubles with the month.         *)
(***************************************************************************)
EXTENDS Ingress

CONSTANTS t1, t2, t3, k1

ThreeTxs == {t1, t2, t3}
Versions == {t2}
Addresses == {t3}
KeyOf == [tx \in ThreeTxs |-> k1]
Subscriptions ==
  { [profile |-> "ALPHA", startTime |-> 1, tokens |-> 6],
    [profile |-> "ALPHA", startTime |-> 1, tokens |-> 0],
    [profile |-> "ALPHA", startTime |-> 2, tokens |-> 0] }
Profiles ==
  [p \in {"ALPHA"} |-> {[rate |-> 3, expiresAt |-> 4], [rate |-> 6, expiresAt |-> None]}]
=============================================================================
