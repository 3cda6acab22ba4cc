-------------------------- MODULE MCRewardScoring ---------------------------
(***************************************************************************)
(* RewardScoring for TLC: one example whose gold query returns rows on one *)
(* database and none on the other, and every kind of SQL in the required   *)
(* wrapping and in none at all.                                            *)
(***************************************************************************)
EXTENDS RewardScoring

MCExample  == {"e1"}
MCDatabase == {"d1", "d2"}
MCGoldOf   == [key \in MCDatabase \X MCExample |->
                 IF key[1] = "d1" THEN "same_rows" ELSE "sane_empty"]

MCCompletion ==
  {o \in Output : o.wrapper \in {"tags", "bare"}}
=============================================================================
