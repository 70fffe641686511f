------------------------------- MODULE MCAging -------------------------------
(***************************************************************************)
(* Aging with the values of configs/scheduler.yaml.  One interval is half  *)
(* a second, so the linear policy grants 0.0005 tokens for it; that is the *)
(* unit.                                                                   *)
(***************************************************************************)
EXTENDS Aging, Sequences

(* Predictions of 100 and of 500 tokens. *)
MCLengths == {200000, 1000000}

(* 200 * log1p(k / 2), its slope summed up in thousandths. *)
Slopes[j, k \in 1 .. Timeout] ==
  LET mid == (j + k) \div 2
  IN IF j = k THEN 400000 \div (2 * j + 3) ELSE Slopes[j, mid] + Slopes[mid + 1, k]
MCLog1p(k) == Slopes[1, k] \div 1000

(* 100 * (exp(min(k / 2, 10) / 5) - 1) *)
Exps == <<11, 22, 35, 49, 65, 82, 101, 123, 146, 172, 200, 232, 267, 306, 348, 395, 447, 505, 569, 639>>
MCExp(k) == Exps[Min({k, 20})]

=============================================================================
