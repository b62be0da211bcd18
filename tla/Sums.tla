-------------------------------- MODULE Sums --------------------------------
(***************************************************************************)
(* Sums of natural amounts, as the ledgers of core/effect_budget_money.py   *)
(* and core/service_fee_ledger.py take them row by row. Money is counted in *)
(* whole units, so a sum is the number of units of its amounts.             *)
(***************************************************************************)
EXTENDS Integers, FiniteSets

Units(amount, ids) == UNION {{id} \X (1..amount[id]) : id \in ids}
Sum(amount, ids) == Cardinality(Units(amount, ids))
=============================================================================
