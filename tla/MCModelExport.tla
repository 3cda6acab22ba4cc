---------------------------- MODULE MCModelExport -----------------------------
(***************************************************************************)
(* ModelExport for TLC: the smoke and the local configuration, which share *)
(* checkpoints/merged/distilled_grpo_local, and one without an adapter;    *)
(* calibration files with more rows than are asked for and a test row,     *)
(* with none to use and with a split the schema does not know.             *)
(***************************************************************************)
EXTENDS ModelExport

MCAdapted  == {"smoke", "local"}
MCConfig   == MCAdapted \cup {"base"}
MCMergedOf == [q \in MCConfig |-> "distilled_grpo_local"]
MCPlaceOf  ==
  [q \in MCConfig |-> CASE q = "smoke" -> "artifacts/smoke/gptq"
                        [] q = "local" -> "checkpoints/gptq/distilled_grpo_int4"
                        [] q = "base"  -> "checkpoints/gptq/base_int4"]

MCLine(n, split) == [line |-> n, split |-> split]
MCCalibration ==
  {{MCLine(1, "test"), MCLine(2, "train"), MCLine(3, "train")},
   {MCLine(1, "test")},
   {MCLine(1, "holdout")}}
=============================================================================
