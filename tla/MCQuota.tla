------------------------------- MODULE MCQuota -------------------------------
(* Instances of Quota for TLC: a small and a large plan. *)
EXTENDS Quota, TLC

CONSTANTS small, large, p1, p2

MCQuotas == [pl \in Plans |-> IF pl = small THEN 1 ELSE 2]

MCSymmetry == Permutations(Senders) \cup Permutations(Changers)
=============================================================================
