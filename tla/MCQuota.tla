------------------------------ MODULE MCQuota ------------------------------
(* Constants of the run of Quota.  One unit of time stands for a day;      *)
(* months of two lengths are cut down to one and two days.  The TTLs are   *)
(* those of the code: of a day the day, of a month the longest month.      *)
EXTENDS Quota, TLC

CONSTANTS s1, s2, k1, k2

MCSlot == {s1, s2}
MCKey == {k1, k2}
MCLimits == {0, 1}
MCFirstRow == k1 :> [limit |-> 1, period |-> "daily"]
              @@ k2 :> [limit |-> None, period |-> "monthly"]
MCLength == [daily |-> {1}, monthly |-> {1, 2}]
MCPeriodTTL == [daily |-> 1, monthly |-> 2]
MCLastNo == [daily |-> 2, monthly |-> 1]

(* Slots are only compared.                                                *)
Symmetry == Permutations(MCSlot)
=============================================================================
