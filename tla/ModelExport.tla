----------------------------- MODULE ModelExport -----------------------------
(***************************************************************************)
(* What becomes of a trained adapter: querydistill quantize-gptq           *)
(* (quantization/gptq.py) merges it into the base model and quantizes the  *)
(* result, serve-vllm (serving/vllm.py) looks at the quantized directory,  *)
(* and the report (reporting/report.py) collects what the stages recorded. *)
(*                                                                         *)
(* The configurations have adapters and output directories of their own    *)
(* but may share the directory of the merged model, and the output         *)
(* directory of one may be the directory the command line records its      *)
(* status in.  One quantization runs at a time and may be killed; GRPO     *)
(* runs save adapters and tools rewrite the calibration examples meanwhile.*)
(* transformers, peft and GPTQModel write their directories in place.      *)
(***************************************************************************)
EXTENDS Integers, FiniteSets

CONSTANTS
  Config,         \* the configurations of quantize-gptq
  Adapted,        \* those with an adapter_path: the others quantize the base model
  MergedOf,       \* the merged_output_dir of each
  PlaceOf,        \* the output_dir of each
  SmokePlace,     \* artifacts/smoke/gptq, where the command line records the status
  Calibration,    \* what calibration_examples_path may hold: its rows, by line
  KnownSplit,     \* the splits of the project schema
  AllowedSplit,   \* those calibration may use: train and calibration
  MaxSamples,     \* max_calibration_samples
  MaxRuns,        \* bound: how many quantizations are run
  MaxSaves        \* bound: how often an adapter is saved

Place == {PlaceOf[q] : q \in Config} \cup {SmokePlace}

ASSUME ConfigAssumption ==
  /\ Config # {} /\ Adapted \subseteq Config
  /\ DOMAIN MergedOf = Config /\ DOMAIN PlaceOf = Config
ASSUME CalibrationAssumption ==
  /\ Calibration # {}
  /\ AllowedSplit \subseteq KnownSplit
  /\ \A rows \in Calibration :
       /\ IsFiniteSet(rows)
       /\ \A row \in rows : DOMAIN row = {"line", "split"} /\ row.line \in Nat
       /\ \A r, s \in rows : r.line = s.line => r = s
ASSUME BoundsAssumption ==
  /\ MaxSamples \in Nat \ {0} /\ MaxRuns \in Nat /\ MaxSaves \in Nat

VARIABLES
  \* the files
  adapter,          \* the adapter directory of each configuration
  calibration,      \* the calibration examples
  merged,           \* the merged models
  listed,           \* the calibration_manifest.json of each configuration
  quantized,        \* the quantized model of each configuration
  gptqManifest,     \* its artifact_manifest.json: the run that wrote it, 0 if none
  status,           \* the status.json in each place
  vllm,             \* artifacts/smoke/vllm/status.json
  report,           \* status_report.json: what it says of the quantization
  \* the running process
  gptq,             \* the quantization
  \* history
  saves,            \* how often an adapter was saved
  runs              \* quantizations run so far

files == <<merged, listed, quantized, gptqManifest, status>>
vars  == <<adapter, calibration, files, vllm, report, gptq, saves, runs>>
-----------------------------------------------------------------------------
Run == 1 .. MaxRuns

\* Which weights a directory holds: the base model's (save 0) or those merged with the
\* save-th adapter, an adapter of this configuration.
Weights == [config : Config, save : 0 .. MaxSaves]
Base(q) == [config |-> q, save |-> 0]

\* Those a configuration is to be quantized from.
WeightsOf(q) == {w \in Weights : w.config = q /\ (w.save = 0 <=> q \notin Adapted)}

NoAdapter == [state |-> "none", save |-> 0]
Adapter   == {NoAdapter} \cup [state : {"torn", "whole"}, save : 1 .. MaxSaves]
Merged    == {[state |-> "none"], [state |-> "torn"]} \cup
               [state : {"whole"}, of : Weights]
NotMerged == [state |-> "none"]

Row == UNION Calibration

\* The weights a quantized model was made of, those its run merged, the rows it was
\* calibrated with and the run.
Quantized == {[state |-> "none", run |-> 0]} \cup [state : {"torn"}, run : Run] \cup
               [state : {"whole"}, run : Run, of : Weights, asked : Weights,
                samples : SUBSET Row]

Recorded == [state : {"DRY_RUN", "BLOCKED", "PASS"}, run : Run, config : Config]
NotRun   == [state |-> "NOT_RUN"]

Idle == [at |-> "idle"]

\* SplitPolicy.apply and the cut to max_calibration_samples.
Known(rows)   == \A row \in rows : row.split \in KnownSplit
Allowed(rows) == {row \in rows : row.split \in AllowedSplit}
Cut(rows)     == {row \in rows : Cardinality({r \in rows : r.line < row.line}) < MaxSamples}

Selected(rows) == Cut(Allowed(rows))
-----------------------------------------------------------------------------
Init ==
  /\ adapter = [q \in Config |-> NoAdapter]
  /\ calibration \in Calibration
  /\ merged = [m \in {MergedOf[q] : q \in Config} |-> NotMerged]
  /\ listed = [q \in Config |-> {}]
  /\ quantized = [q \in Config |-> [state |-> "none", run |-> 0]]
  /\ gptqManifest = [q \in Config |-> 0]
  /\ status = [p \in Place |-> NotRun]
  /\ vllm = NotRun
  /\ report = NotRun
  /\ gptq = Idle
  /\ saves = 0 /\ runs = 0

\* A GRPO run saves its adapter, in place (GrpoRun).
SaveAdapter(q) ==
  /\ q \in Adapted
  /\ \/ /\ adapter[q].state # "torn" /\ saves < MaxSaves
        /\ adapter' = [adapter EXCEPT ![q] = [state |-> "torn", save |-> saves + 1]]
        /\ saves' = saves + 1
     \/ /\ adapter[q].state = "torn"
        /\ adapter' = [adapter EXCEPT ![q].state = "whole"]
        /\ UNCHANGED saves
  /\ UNCHANGED <<calibration, files, vllm, report, gptq, runs>>

\* prepare-bird or the split tools rewrite the calibration examples.
RewriteCalibration ==
  /\ calibration' \in Calibration \ {calibration}
  /\ UNCHANGED <<adapter, files, vllm, report, gptq, saves, runs>>

Start(q) ==
  /\ gptq = Idle /\ runs < MaxRuns
  /\ runs' = runs + 1
  /\ gptq' = [at |-> "merge", config |-> q, run |-> runs + 1]
  /\ UNCHANGED <<adapter, calibration, files, vllm, report, saves>>

At(step) == gptq # Idle /\ gptq.at = step

\* _record in the output directory; the command line repeats it (CliStatus).
Payload(state) == [state |-> state, run |-> gptq.run, config |-> gptq.config]

Record(state) ==
  /\ status' = [status EXCEPT ![PlaceOf[gptq.config]] = Payload(state)]
  /\ gptq' = [at |-> "recorded", config |-> gptq.config, run |-> gptq.run, state |-> state]

\* Faulty variant: a dry run returns before it records anything.
DryRunUnrecorded ==
  /\ At("merge")
  /\ gptq' = [at |-> "recorded", config |-> gptq.config, run |-> gptq.run]
  /\ UNCHANGED <<adapter, calibration, files, vllm, report, saves, runs>>

DryRun ==
  /\ At("merge")
  /\ Record("DRY_RUN")
  /\ UNCHANGED <<adapter, calibration, merged, listed, quantized, gptqManifest, vllm,
                 report, saves, runs>>

\* Faulty variant: a failure while the quantized model is saved is only logged.
BlockedUnlessSaving ==
  /\ IF At("saving")
     THEN /\ gptq' = [at |-> "manifest", config |-> gptq.config, run |-> gptq.run]
          /\ UNCHANGED status
     ELSE /\ \E step \in {"merge", "merging", "merged", "tokenize", "quantize"} : At(step)
          /\ Record("BLOCKED")
  /\ UNCHANGED <<adapter, calibration, merged, listed, quantized, gptqManifest, vllm,
                 report, saves, runs>>

\* No base model, no adapter, a failed merge, a missing package, a tokenizer that
\* does not load, a calibration file that cannot be used the second time it is read,
\* a failed quantization: recorded, and what was written of a directory stays.
Blocked ==
  /\ \E step \in {"merge", "merging", "merged", "tokenize", "quantize", "saving"} : At(step)
  /\ Record("BLOCKED")
  /\ UNCHANGED <<adapter, calibration, merged, listed, quantized, gptqManifest, vllm,
                 report, saves, runs>>

\* Faulty variant: a merged model that is already there is used.
StartMergeUnlessThere ==
  /\ At("merge") /\ gptq.config \in Adapted
  /\ adapter[gptq.config].state = "whole"
  /\ IF merged[MergedOf[gptq.config]].state = "whole"
     THEN /\ UNCHANGED merged
          /\ gptq' = [at |-> "merged", config |-> gptq.config, run |-> gptq.run,
                      asked |-> [config |-> gptq.config, save |-> adapter[gptq.config].save]]
     ELSE /\ merged' = [merged EXCEPT ![MergedOf[gptq.config]] = [state |-> "torn"]]
          /\ gptq' = [at |-> "merging", config |-> gptq.config, run |-> gptq.run,
                      asked |-> [config |-> gptq.config, save |-> adapter[gptq.config].save]]
  /\ UNCHANGED <<adapter, calibration, listed, quantized, gptqManifest, status, vllm,
                 report, saves, runs>>

\* merge_lora_adapter loads the adapter and saves the merged model over the last.
StartMerge ==
  /\ At("merge") /\ gptq.config \in Adapted
  /\ adapter[gptq.config].state = "whole"
  /\ merged' = [merged EXCEPT ![MergedOf[gptq.config]] = [state |-> "torn"]]
  /\ gptq' = [at |-> "merging", config |-> gptq.config, run |-> gptq.run,
              asked |-> [config |-> gptq.config, save |-> adapter[gptq.config].save]]
  /\ UNCHANGED <<adapter, calibration, listed, quantized, gptqManifest, status, vllm,
                 report, saves, runs>>

FinishMerge ==
  /\ At("merging")
  /\ merged' = [merged EXCEPT ![MergedOf[gptq.config]] =
                  [state |-> "whole", of |-> gptq.asked]]
  /\ gptq' = [gptq EXCEPT !.at = "merged"]
  /\ UNCHANGED <<adapter, calibration, listed, quantized, gptqManifest, status, vllm,
                 report, saves, runs>>

\* Without an adapter there is nothing to merge.
UseBase ==
  /\ At("merge") /\ gptq.config \notin Adapted
  /\ gptq' = [at |-> "merged", config |-> gptq.config, run |-> gptq.run,
              asked |-> Base(gptq.config)]
  /\ UNCHANGED <<adapter, calibration, files, vllm, report, saves, runs>>

\* merged_dir: the model that is quantized.
Model(q) ==
  IF q \in Adapted THEN merged[MergedOf[q]] ELSE [state |-> "whole", of |-> Base(q)]

\* The calibration examples are read for the manifest; a split that is not in the
\* schema raises, outside the recorded failures.
ReadCalibration ==
  /\ At("merged")
  /\ IF Known(calibration)
     THEN gptq' = [at |-> "tokenize", config |-> gptq.config, run |-> gptq.run,
                   asked |-> gptq.asked, rows |-> Selected(calibration)]
     ELSE gptq' = Idle
  /\ UNCHANGED <<adapter, calibration, files, vllm, report, saves, runs>>

\* Faulty variant: the second reading goes without the split policy.
TokenizeAny ==
  /\ At("tokenize")
  /\ Known(calibration) /\ calibration # {}
  /\ listed' = [listed EXCEPT ![gptq.config] = gptq.rows]
  /\ gptq' = [gptq EXCEPT !.at = "quantize", !.rows = Cut(calibration)]
  /\ UNCHANGED <<adapter, calibration, merged, quantized, gptqManifest, status, vllm,
                 report, saves, runs>>

\* build_calibration_dataset reads them again and takes the samples; then the
\* manifest is written, with the rows of the first reading.
Tokenize ==
  /\ At("tokenize")
  /\ Known(calibration) /\ Selected(calibration) # {}
  /\ listed' = [listed EXCEPT ![gptq.config] = gptq.rows]
  /\ gptq' = [gptq EXCEPT !.at = "quantize", !.rows = Selected(calibration)]
  /\ UNCHANGED <<adapter, calibration, merged, quantized, gptqManifest, status, vllm,
                 report, saves, runs>>

\* GPTQModel loads the model, quantizes it and saves over the last one.
StartSaving ==
  /\ At("quantize")
  /\ Model(gptq.config).state = "whole"
  /\ quantized' = [quantized EXCEPT ![gptq.config] = [state |-> "torn", run |-> gptq.run]]
  /\ gptq' = [at |-> "saving", config |-> gptq.config, run |-> gptq.run,
              asked |-> gptq.asked, rows |-> gptq.rows,
              of |-> Model(gptq.config).of]
  /\ UNCHANGED <<adapter, calibration, merged, listed, gptqManifest, status, vllm,
                 report, saves, runs>>

FinishSaving ==
  /\ At("saving")
  /\ quantized' = [quantized EXCEPT ![gptq.config] =
       [state |-> "whole", run |-> gptq.run, of |-> gptq.of, asked |-> gptq.asked,
        samples |-> gptq.rows]]
  /\ gptq' = [at |-> "manifest", config |-> gptq.config, run |-> gptq.run]
  /\ UNCHANGED <<adapter, calibration, merged, listed, gptqManifest, status, vllm,
                 report, saves, runs>>

WriteManifest ==
  /\ At("manifest")
  /\ gptqManifest' = [gptqManifest EXCEPT ![gptq.config] = gptq.run]
  /\ gptq' = [gptq EXCEPT !.at = "pass"]
  /\ UNCHANGED <<adapter, calibration, merged, listed, quantized, status, vllm, report,
                 saves, runs>>

RecordPass ==
  /\ At("pass")
  /\ Record("PASS")
  /\ UNCHANGED <<adapter, calibration, merged, listed, quantized, gptqManifest, vllm,
                 report, saves, runs>>

\* The command line records what run() returned.
CliStatus ==
  /\ At("recorded")
  /\ status' = [status EXCEPT ![SmokePlace] = Payload(gptq.state)]
  /\ gptq' = Idle
  /\ UNCHANGED <<adapter, calibration, merged, listed, quantized, gptqManifest, vllm,
                 report, saves, runs>>

Kill ==
  /\ gptq # Idle
  /\ gptq' = Idle
  /\ UNCHANGED <<adapter, calibration, files, vllm, report, saves, runs>>

\* check_compatibility looks for config.json: a torn directory may have one or not.
Compatible(q) ==
  CASE quantized[q].state = "none"  -> {FALSE}
    [] quantized[q].state = "torn"  -> BOOLEAN
    [] quantized[q].state = "whole" -> {TRUE}

\* serve-vllm starts nothing: it records whether the directory looks like a model.
Serve(q) ==
  /\ vllm' \in [exists : Compatible(q)]
  /\ UNCHANGED <<adapter, calibration, files, report, gptq, saves, runs>>

\* The report takes over what the status file says, NOT_RUN if there is none.
Report ==
  /\ report' = status[SmokePlace]
  /\ UNCHANGED <<adapter, calibration, files, vllm, gptq, saves, runs>>

Next ==
  \/ \E q \in Config : SaveAdapter(q) \/ Start(q) \/ Serve(q)
  \/ RewriteCalibration
  \/ DryRun \/ Blocked \/ StartMerge \/ FinishMerge \/ UseBase
  \/ ReadCalibration \/ Tokenize
  \/ StartSaving \/ FinishSaving \/ WriteManifest \/ RecordPass \/ CliStatus \/ Kill
  \/ Report

Spec == Init /\ [][Next]_vars
-----------------------------------------------------------------------------
\* What the process holds at each step.
Process == {Idle}
  \cup [at : {"merge", "manifest", "pass"}, config : Config, run : Run]
  \cup [at : {"recorded"}, config : Config, run : Run, state : {"DRY_RUN", "BLOCKED", "PASS"}]
  \cup [at : {"merging", "merged"}, config : Config, run : Run, asked : Weights]
  \cup [at : {"tokenize", "quantize"}, config : Config, run : Run, asked : Weights,
        rows : SUBSET Row]
  \cup [at : {"saving"}, config : Config, run : Run, asked : Weights, rows : SUBSET Row,
        of : Weights]

Seen == [exists : BOOLEAN]

\* Every variable has its type.
TypeOK ==
  /\ adapter \in [Config -> Adapter]
  /\ calibration \in Calibration
  /\ merged \in [{MergedOf[q] : q \in Config} -> Merged]
  /\ listed \in [Config -> SUBSET Row]
  /\ quantized \in [Config -> Quantized]
  /\ gptqManifest \in [Config -> 0 .. MaxRuns]
  /\ status \in [Place -> Recorded \cup {NotRun}]
  /\ vllm \in Seen \cup {NotRun}
  /\ report \in Recorded \cup {NotRun}
  /\ gptq \in Process
  /\ saves \in 0 .. MaxSaves
  /\ runs \in 0 .. MaxRuns

\* What is said to have passed is there: the run wrote its quantized model and its
\* manifest, in this order, before it or the command line said so, and what it wrote
\* stays whole until a later run of the configuration writes over it
\* (quantization/gptq.py:224 "real failure recorded, not faked").
Backed(said) ==
  said.state = "PASS" =>
    /\ gptqManifest[said.config] >= said.run
    /\ quantized[said.config].run >= said.run
    /\ quantized[said.config].run = said.run => quantized[said.config].state = "whole"

PassIsBacked ==
  /\ \A p \in Place : Backed(status[p])
  /\ Backed(report)

\* A quantized model is made of the weights its own run merged, of its own
\* configuration's adapter, or of the base model if it names none, although the merged
\* directory is shared, may be left torn or stale by an earlier run and is not named
\* by the weights in it.
MadeOfItsAdapter ==
  \A q \in Config : quantized[q].state = "whole" =>
    quantized[q].of = quantized[q].asked /\ quantized[q].of \in WeightsOf(q)

\* No quantized model was calibrated with a row of another split, even if the file
\* was replaced between its two readings (data/dataset.py:230 "GPTQ calibration must
\* never see dev/test examples"), nor with none, nor with more rows than were asked for.
Clean(rows) ==
  /\ rows # {} /\ Cardinality(rows) <= MaxSamples
  /\ \A row \in rows : row.split \in AllowedSplit

CalibrationClean ==
  \A q \in Config : quantized[q].state = "whole" => Clean(quantized[q].samples)
=============================================================================
