--------------------------- MODULE ModelExportProofs ---------------------------
(***************************************************************************)
(* Proofs about ModelExport, for every set of configurations, whichever    *)
(* directories they share, every calibration file and number of runs.      *)
(***************************************************************************)
EXTENDS ModelExport, FiniteSetTheorems, TLAPS

USE ConfigAssumption, CalibrationAssumption, BoundsAssumption

\* The inductive invariant.  The process holds the last run.  Between the merge and
\* the load nobody else writes the merged directory; a run whose model is whole has
\* not said PASS before its manifest is written, and no run said PASS before its own.
Step(steps) == gptq # Idle /\ gptq.at \in steps

Passing == Step({"pass"}) \/ (Step({"recorded"}) /\ gptq.state = "PASS")

RunsInv ==
  /\ \A q \in Config : gptqManifest[q] =< runs /\ quantized[q].run =< runs
  /\ gptq # Idle => gptq.run = runs
  /\ Step({"manifest"}) \/ Passing =>
       quantized[gptq.config].state = "whole" /\ quantized[gptq.config].run = gptq.run
  /\ Passing => gptqManifest[gptq.config] = gptq.run

\* What a status file or the report says.
SaidInv(said) ==
  /\ Backed(said)
  /\ said.state = "PASS" =>
       /\ said.run =< runs
       /\ gptq # Idle /\ gptq.at # "recorded" => said.run < runs

StatusInv == (\A p \in Place : SaidInv(status[p])) /\ SaidInv(report)

WeightsInv ==
  /\ MadeOfItsAdapter
  /\ Step({"merging", "merged", "tokenize", "quantize", "saving"}) =>
       gptq.asked \in WeightsOf(gptq.config)
  /\ Step({"merging"}) => gptq.config \in Adapted
  /\ Step({"merged", "tokenize", "quantize"}) =>
       Model(gptq.config).of = gptq.asked
  /\ Step({"saving"}) => gptq.of = gptq.asked

CleanInv ==
  /\ CalibrationClean
  /\ Step({"quantize", "saving"}) => Clean(gptq.rows)

Inv == TypeOK /\ RunsInv /\ StatusInv /\ WeightsInv /\ CleanInv
-----------------------------------------------------------------------------
LEMMA ProcessTyped ==
  ASSUME gptq \in Process, gptq # Idle
  PROVE  /\ gptq.config \in Config /\ gptq.run \in Run /\ gptq.run \in 0 .. MaxRuns
         /\ gptq.at = "merging" =>
              gptq \in [at : {"merging", "merged"}, config : Config, run : Run, asked : Weights]
         /\ gptq.at = "tokenize" =>
              gptq \in [at : {"tokenize", "quantize"}, config : Config, run : Run,
                        asked : Weights, rows : SUBSET Row]
         /\ gptq.at = "recorded" => gptq.state \in {"DRY_RUN", "BLOCKED", "PASS"}
         /\ gptq.at \in {"merging", "merged", "tokenize", "quantize", "saving"} =>
              gptq.asked \in Weights
         /\ gptq.at \in {"quantize", "saving"} => gptq.rows \in SUBSET Row
         /\ gptq.at = "saving" => gptq.of \in Weights
  BY DEF Process, Idle, Run

\* The cut leaves at most the rows asked for: no two of them have the same number of
\* rows before them.
LEMMA CutIsBounded ==
  ASSUME NEW rows, IsFiniteSet(rows), \A r \in rows : r.line \in Nat,
         \A r, s \in rows : r.line = s.line => r = s
  PROVE  Cardinality(Cut(rows)) <= MaxSamples
<1> DEFINE before(r) == {s \in rows : s.line < r.line}
           f == [r \in Cut(rows) |-> Cardinality(before(r))]
<1>1. Cut(rows) \in SUBSET rows
  BY DEF Cut
<1>2. \A r \in rows : IsFiniteSet(before(r)) /\ Cardinality(before(r)) \in Nat
  <2>1. \A r : before(r) \in SUBSET rows
    OBVIOUS
  <2> HIDE DEF before
  <2>2. QED
    BY <2>1, FS_Subset, FS_CardinalityType
<1>3. \A r, s \in rows : r.line < s.line => Cardinality(before(r)) < Cardinality(before(s))
  <2> SUFFICES ASSUME NEW r \in rows, NEW s \in rows, r.line < s.line
               PROVE  Cardinality(before(r)) < Cardinality(before(s))
    OBVIOUS
  <2>1. before(r) \in SUBSET before(s) /\ r \in before(s) /\ r \notin before(r)
    OBVIOUS
  <2> HIDE DEF before
  <2>2. Cardinality(before(r)) <= Cardinality(before(s))
          /\ Cardinality(before(r)) # Cardinality(before(s))
    BY <1>2, <2>1, FS_Subset
  <2>3. QED
    BY <1>2, <2>2
<1>4. \A r \in Cut(rows) : f[r] \in 0 .. MaxSamples - 1
  <2>1. \A r \in Cut(rows) : Cardinality(before(r)) < MaxSamples
    BY DEF Cut
  <2> HIDE DEF before
  <2>2. QED
    BY <1>1, <1>2, <2>1
<1>5. \A r, s \in Cut(rows) : f[r] = f[s] => r = s
  <2> SUFFICES ASSUME NEW r \in Cut(rows), NEW s \in Cut(rows), r # s PROVE f[r] # f[s]
    OBVIOUS
  <2>1. r \in rows /\ s \in rows
    BY <1>1
  <2>2. r.line < s.line \/ s.line < r.line
    BY <2>1
  <2>3. Cardinality(before(r)) < Cardinality(before(s))
          \/ Cardinality(before(s)) < Cardinality(before(r))
    BY <1>3, <2>1, <2>2
  <2> HIDE DEF before
  <2>4. QED
    BY <1>2, <2>1, <2>3
<1> HIDE DEF before
<1>6. f \in Injection(Cut(rows), 0 .. MaxSamples - 1)
  BY <1>4, <1>5 DEF Injection, IsInjective
<1>7. IsFiniteSet(0 .. MaxSamples - 1) /\ Cardinality(0 .. MaxSamples - 1) = MaxSamples
  <2>1. Cardinality(0 .. MaxSamples - 1)
          = IF 0 > MaxSamples - 1 THEN 0 ELSE MaxSamples - 1 - 0 + 1
    BY FS_Interval
  <2>2. QED
    BY <2>1, FS_Interval
<1>8. Cardinality(Cut(rows)) <= Cardinality(0 .. MaxSamples - 1)
  BY <1>6, <1>7, FS_Injection
<1>9. QED
  BY <1>7, <1>8

LEMMA SelectedTyped ==
  ASSUME NEW rows \in Calibration
  PROVE  /\ Selected(rows) \in SUBSET Row
         /\ Selected(rows) # {} => Clean(Selected(rows))
<1>1. rows \subseteq Row
  BY DEF Row
<1>2. Allowed(rows) \subseteq rows /\ \A row \in Allowed(rows) : row.split \in AllowedSplit
  BY DEF Allowed
<1>3. Cut(Allowed(rows)) \subseteq Allowed(rows)
  BY DEF Cut
<1>4. Cardinality(Selected(rows)) <= MaxSamples
  <2>1. IsFiniteSet(Allowed(rows))
    BY <1>2, FS_Subset
  <2>2. /\ \A r \in Allowed(rows) : r.line \in Nat
        /\ \A r, s \in Allowed(rows) : r.line = s.line => r = s
    BY <1>2
  <2>3. QED
    BY <2>1, <2>2, CutIsBounded DEF Selected
<1>5. QED
  BY <1>1, <1>2, <1>3, <1>4 DEF Selected, Clean

LEMMA InitInv == Init => Inv
<1> SUFFICES ASSUME Init PROVE Inv
  OBVIOUS
<1>1. TypeOK
  <2>1. gptq \in Process /\ 0 \in 0 .. MaxRuns /\ 0 \in 0 .. MaxSaves
    BY DEF Init, Process
  <2>2. [state |-> "none", run |-> 0] \in Quantized /\ NotMerged \in Merged
    BY DEF Quantized, Merged, NotMerged
  <2>3. NoAdapter \in Adapter
    BY DEF Adapter
  <2>4. QED
    BY <2>1, <2>2, <2>3 DEF Init, TypeOK
<1>2. RunsInv
  BY DEF Init, RunsInv, Step, Passing
<1>3. StatusInv
  BY DEF Init, StatusInv, SaidInv, Backed, NotRun
<1>4. WeightsInv /\ CleanInv
  BY DEF Init, WeightsInv, Model, CleanInv, MadeOfItsAdapter, CalibrationClean, Step
<1>5. QED
  BY <1>1, <1>2, <1>3, <1>4 DEF Inv
-----------------------------------------------------------------------------
\* A step that only moves the process on, and does not bring it to its end.
LEMMA MoveKeepsRuns ==
  ASSUME TypeOK, RunsInv, StatusInv, gptq # Idle, gptq.at # "recorded",
         UNCHANGED <<quantized, gptqManifest, status, report, runs>>,
         gptq' = Idle \/
           (gptq'.run = gptq.run /\ gptq'.at \notin {"manifest", "pass", "recorded"})
  PROVE  RunsInv' /\ StatusInv'
<1>1. RunsInv'
  BY DEF RunsInv, Step, Passing
<1>2. \A said : SaidInv(said) => SaidInv(said)'
  BY DEF SaidInv, Backed
<1>3. QED
  BY <1>1, <1>2 DEF StatusInv

\* The environment: other processes save adapters, rewrite the calibration examples,
\* look at the model and make the report.
LEMMA OutsideKeepsInv ==
  ASSUME Inv,
         \/ \E q \in Config : SaveAdapter(q) \/ Serve(q)
         \/ RewriteCalibration \/ Report
  PROVE  Inv'
<1> USE DEF Inv
<1>1. UNCHANGED <<files, gptq, runs>>
  BY DEF SaveAdapter, Serve, RewriteCalibration, Report
<1>2. RunsInv' /\ WeightsInv' /\ CleanInv'
  BY <1>1 DEF RunsInv, WeightsInv, Model, CleanInv, Passing, Step, MadeOfItsAdapter, CalibrationClean,
              files
<1>3. report' = report \/ report' = status[SmokePlace]
  BY DEF SaveAdapter, Serve, RewriteCalibration, Report
<1>4. StatusInv'
  <2>1. SmokePlace \in Place
    BY DEF Place
  <2>2. \A said : SaidInv(said) => SaidInv(said)'
    BY <1>1 DEF SaidInv, Backed, files
  <2>3. SaidInv(report')
    BY <1>3, <2>1 DEF StatusInv
  <2>4. QED
    BY <1>1, <2>2, <2>3 DEF StatusInv, files
<1>5. TypeOK'
  <2>1. CASE \E q \in Config : SaveAdapter(q)
    <3>1. PICK q \in Config : SaveAdapter(q)
      BY <2>1
    <3>2. saves' \in 0 .. MaxSaves
      BY <3>1 DEF SaveAdapter, TypeOK
    <3>3. adapter' \in [Config -> Adapter]
      <4>1. \A n \in 1 .. MaxSaves : [state |-> "torn", save |-> n] \in Adapter
        BY DEF Adapter
      <4>2. \A a \in Adapter : a.state = "torn" => [a EXCEPT !.state = "whole"] \in Adapter
        BY DEF Adapter, NoAdapter
      <4>3. \/ saves' = saves + 1 /\ adapter' = [adapter EXCEPT ![q] = [state |-> "torn", save |-> saves']]
            \/ /\ adapter[q].state = "torn"
               /\ adapter' = [adapter EXCEPT ![q] = [adapter[q] EXCEPT !.state = "whole"]]
        BY <3>1 DEF SaveAdapter
      <4>4. adapter[q] \in Adapter
        BY DEF TypeOK
      <4>5. saves' = saves + 1 => saves' \in 1 .. MaxSaves
        BY <3>2 DEF TypeOK
      <4>6. QED
        BY <4>1, <4>2, <4>3, <4>4, <4>5 DEF TypeOK
    <3>4. QED
      BY <3>1, <3>2, <3>3 DEF SaveAdapter, TypeOK, files
  <2>2. CASE \E q \in Config : Serve(q)
    <3>1. PICK q \in Config : Serve(q)
      BY <2>2
    <3>2. quantized[q].state \in {"none", "torn", "whole"}
      BY DEF TypeOK, Quantized
    <3>3. vllm' \in Seen
      BY <3>1, <3>2 DEF Serve, Compatible, Seen
    <3>4. QED
      BY <3>1, <3>3 DEF Serve, TypeOK, files
  <2>3. CASE RewriteCalibration
    BY <2>3 DEF RewriteCalibration, TypeOK, files
  <2>4. CASE Report
    BY <2>4 DEF Report, TypeOK, files, Place
  <2>5. QED
    BY <2>1, <2>2, <2>3, <2>4
<1>6. QED
  BY <1>2, <1>4, <1>5

LEMMA StartKeepsInv ==
  ASSUME Inv, NEW q \in Config, Start(q)
  PROVE  Inv'
<1> USE DEF Inv
<1>1. /\ gptq = Idle /\ runs' = runs + 1 /\ runs \in Nat /\ runs + 1 \in Run
      /\ gptq' = [at |-> "merge", config |-> q, run |-> runs + 1]
      /\ UNCHANGED <<adapter, calibration, files, vllm, report, saves>>
  BY DEF Start, TypeOK, Run
<1>2. gptq' \in Process
  BY <1>1 DEF Process
<1>3. TypeOK'
  BY <1>1, <1>2 DEF TypeOK, files, Run
<1>4. \A r \in Config : /\ gptqManifest[r] \in Int
                        /\ quantized[r].run \in Int
  BY DEF TypeOK, Quantized, Run
<1>5. RunsInv'
  BY <1>1, <1>4 DEF RunsInv, Step, Passing, files
<1>6. \A said \in Recorded \cup {NotRun} : SaidInv(said) => SaidInv(said)'
  <2> SUFFICES ASSUME NEW said \in Recorded \cup {NotRun}, SaidInv(said) PROVE SaidInv(said)'
    OBVIOUS
  <2>1. Backed(said)'
    BY <1>1 DEF SaidInv, Backed, files
  <2>2. said.state = "PASS" => said.run \in Nat /\ said.run =< runs
    BY DEF SaidInv, Recorded, NotRun, Run
  <2>3. said.state = "PASS" => said.run =< runs' /\ said.run < runs'
    BY <1>1, <2>2
  <2>4. QED
    BY <2>1, <2>3 DEF SaidInv
<1>7. StatusInv'
  BY <1>1, <1>6 DEF StatusInv, TypeOK, files
<1>8. WeightsInv' /\ CleanInv'
  BY <1>1 DEF WeightsInv, Model, CleanInv, MadeOfItsAdapter, CalibrationClean, Step, files
<1>9. QED
  BY <1>3, <1>5, <1>7, <1>8
-----------------------------------------------------------------------------
(***************************************************************************)
(* The steps of the process up to the quantization.                        *)
(***************************************************************************)
LEMMA MergeKeepsInv ==
  ASSUME Inv, StartMerge \/ UseBase \/ FinishMerge
  PROVE  Inv'
<1> USE DEF Inv
<1>1. /\ gptq # Idle /\ gptq \in Process /\ gptq.at \in {"merge", "merging"}
      /\ UNCHANGED <<adapter, calibration, listed, quantized, gptqManifest, status, vllm,
                     report, saves, runs>>
  BY DEF StartMerge, UseBase, FinishMerge, At, TypeOK, files
<1>2. gptq.config \in Config /\ gptq.run \in Run
  BY <1>1, ProcessTyped
<1>3. CASE StartMerge
  <2> DEFINE w == [config |-> gptq.config, save |-> adapter[gptq.config].save]
  <2>1. w \in Weights /\ w \in WeightsOf(gptq.config)
    <3>1. adapter[gptq.config] \in Adapter /\ adapter[gptq.config].state = "whole"
          /\ gptq.config \in Adapted
      BY <1>2, <1>3 DEF TypeOK, StartMerge
    <3>2. adapter[gptq.config].save \in 1 .. MaxSaves
      BY <3>1 DEF Adapter, NoAdapter
    <3>3. QED
      BY <1>2, <3>1, <3>2 DEF Weights, WeightsOf
  <2>2. /\ gptq.config \in Adapted
        /\ gptq' = [at |-> "merging", config |-> gptq.config, run |-> gptq.run, asked |-> w]
        /\ merged' = [merged EXCEPT ![MergedOf[gptq.config]] = [state |-> "torn"]]
    BY <1>3 DEF StartMerge
  <2> HIDE DEF w
  <2>4. gptq' \in Process /\ merged' \in [{MergedOf[q] : q \in Config} -> Merged]
    <3>1. [state |-> "torn"] \in Merged
      BY DEF Merged
    <3>2. gptq' \in Process
      BY <1>2, <2>1, <2>2 DEF Process
    <3>3. QED
      BY <1>2, <2>2, <3>1, <3>2 DEF TypeOK
  <2>5. TypeOK'
    BY <1>1, <2>4 DEF TypeOK
  <2>6. RunsInv' /\ StatusInv'
    BY <1>1, <2>2, MoveKeepsRuns
  <2>7. WeightsInv' /\ CleanInv'
    BY <1>1, <2>1, <2>2 DEF WeightsInv, Model, CleanInv, MadeOfItsAdapter, CalibrationClean, Step
  <2>8. QED
    BY <2>5, <2>6, <2>7
<1>4. CASE FinishMerge
  <2>1. gptq.at = "merging" /\ gptq' = [gptq EXCEPT !.at = "merged"]
        /\ merged' = [merged EXCEPT ![MergedOf[gptq.config]] =
                        [state |-> "whole", of |-> gptq.asked]]
    BY <1>4 DEF FinishMerge, At
  <2>2. /\ gptq \in [at : {"merging", "merged"}, config : Config, run : Run, asked : Weights]
        /\ gptq.asked \in Weights
    BY <1>1, <2>1, ProcessTyped
  <2>3. /\ gptq' \in [at : {"merging", "merged"}, config : Config, run : Run, asked : Weights]
        /\ gptq'.at = "merged" /\ gptq'.config = gptq.config /\ gptq'.run = gptq.run
        /\ gptq'.asked = gptq.asked
    BY <2>1, <2>2
  <2>4. gptq' \in Process
    BY <2>3 DEF Process
  <2>5. [state |-> "whole", of |-> gptq.asked] \in Merged
    BY <2>2 DEF Merged
  <2>6. /\ merged' \in [{MergedOf[q] : q \in Config} -> Merged]
        /\ merged'[MergedOf[gptq.config]].of = gptq.asked
    BY <1>2, <2>1, <2>5 DEF TypeOK
  <2>7. TypeOK'
    BY <1>1, <2>4, <2>6 DEF TypeOK
  <2>8. RunsInv' /\ StatusInv'
    BY <1>1, <2>1, <2>3, MoveKeepsRuns
  <2>9. gptq.asked \in WeightsOf(gptq.config) /\ gptq.config \in Adapted
    BY <1>1, <2>1 DEF WeightsInv, Step
  <2>a. Model(gptq.config)'.of = gptq.asked
    BY <2>3, <2>6, <2>9 DEF Model
  <2>10. WeightsInv' /\ CleanInv'
    BY <1>1, <2>3, <2>9, <2>a DEF WeightsInv, Model, CleanInv, MadeOfItsAdapter, CalibrationClean, Step
  <2>11. QED
    BY <2>7, <2>8, <2>10
<1>5. CASE UseBase
  <2>1. /\ gptq' = [at |-> "merged", config |-> gptq.config, run |-> gptq.run,
                   asked |-> Base(gptq.config)]
        /\ merged' = merged /\ gptq.config \notin Adapted
    BY <1>5 DEF UseBase, files
  <2>2. Base(gptq.config) \in Weights /\ Base(gptq.config) \in WeightsOf(gptq.config)
    BY <1>2, <2>1 DEF Base, Weights, WeightsOf
  <2>3. gptq' \in Process
    BY <1>2, <2>1, <2>2 DEF Process
  <2>4. TypeOK'
    BY <1>1, <2>1, <2>3 DEF TypeOK
  <2>5. RunsInv' /\ StatusInv'
    BY <1>1, <2>1, MoveKeepsRuns
  <2>6. Model(gptq.config)'.of = Base(gptq.config)
    BY <2>1 DEF Model
  <2>7. WeightsInv' /\ CleanInv'
    BY <1>1, <2>1, <2>2, <2>6
       DEF WeightsInv, Model, CleanInv, MadeOfItsAdapter, CalibrationClean, Step
  <2>8. QED
    BY <2>4, <2>5, <2>7
<1>6. QED
  BY <1>3, <1>4, <1>5

LEMMA CalibrationKeepsInv ==
  ASSUME Inv, ReadCalibration \/ Tokenize
  PROVE  Inv'
<1> USE DEF Inv
<1>1. /\ gptq # Idle /\ gptq \in Process /\ gptq.at \in {"merged", "tokenize"}
      /\ UNCHANGED <<adapter, calibration, merged, quantized, gptqManifest, status, vllm,
                     report, saves, runs>>
  BY DEF ReadCalibration, Tokenize, At, TypeOK, files
<1>2. gptq.config \in Config /\ gptq.run \in Run /\ gptq.asked \in Weights
  BY <1>1, ProcessTyped
<1>3. /\ Selected(calibration) \in SUBSET Row
      /\ Selected(calibration) # {} => Clean(Selected(calibration))
  BY SelectedTyped DEF TypeOK
<1>4. /\ gptq.asked \in WeightsOf(gptq.config)
      /\ Model(gptq.config).of = gptq.asked
  BY <1>1 DEF WeightsInv, Step
<1>5. CASE ReadCalibration
  <2>1. \/ gptq' = Idle
        \/ gptq' = [at |-> "tokenize", config |-> gptq.config, run |-> gptq.run,
                    asked |-> gptq.asked, rows |-> Selected(calibration)]
    BY <1>5 DEF ReadCalibration
  <2>2. gptq' \in Process /\ listed' = listed
    BY <1>2, <1>3, <1>5, <2>1 DEF Process, ReadCalibration, files
  <2>3. TypeOK'
    BY <1>1, <2>2 DEF TypeOK
  <2>4. RunsInv' /\ StatusInv'
    BY <1>1, <2>1, MoveKeepsRuns
  <2>5. WeightsInv' /\ CleanInv'
    BY <1>1, <1>4, <2>1 DEF WeightsInv, Model, CleanInv, MadeOfItsAdapter, CalibrationClean, Step
  <2>6. QED
    BY <2>3, <2>4, <2>5
<1>6. CASE Tokenize
  <2>1. /\ gptq.at = "tokenize" /\ Selected(calibration) # {}
        /\ gptq' = [gptq EXCEPT !.at = "quantize", !.rows = Selected(calibration)]
        /\ listed' = [listed EXCEPT ![gptq.config] = gptq.rows]
    BY <1>6 DEF Tokenize, At
  <2>2. gptq \in [at : {"tokenize", "quantize"}, config : Config, run : Run,
                  asked : Weights, rows : SUBSET Row]
    BY <1>1, <2>1, ProcessTyped
  <2>3. /\ gptq' \in [at : {"tokenize", "quantize"}, config : Config, run : Run,
                      asked : Weights, rows : SUBSET Row]
        /\ gptq'.at = "quantize" /\ gptq'.config = gptq.config /\ gptq'.run = gptq.run
        /\ gptq'.asked = gptq.asked /\ gptq'.rows = Selected(calibration)
    BY <1>3, <2>1, <2>2
  <2>4. gptq' \in Process
    BY <2>3 DEF Process
  <2>5. listed' \in [Config -> SUBSET Row]
    BY <2>1, <2>2 DEF TypeOK
  <2>6. TypeOK'
    BY <1>1, <2>4, <2>5 DEF TypeOK
  <2>7. RunsInv' /\ StatusInv'
    BY <1>1, <2>3, MoveKeepsRuns
  <2>8. WeightsInv' /\ CleanInv'
    BY <1>1, <1>3, <1>4, <2>1, <2>3
       DEF WeightsInv, Model, CleanInv, Clean, MadeOfItsAdapter, CalibrationClean, Step
  <2>9. QED
    BY <2>6, <2>7, <2>8
<1>7. QED
  BY <1>5, <1>6
-----------------------------------------------------------------------------
(***************************************************************************)
(* The quantized model, its manifest and the status.                       *)
(***************************************************************************)
LEMMA StartSavingKeepsInv ==
  ASSUME Inv, StartSaving
  PROVE  Inv'
<1> USE DEF Inv
<1>1. /\ gptq # Idle /\ gptq \in Process /\ gptq.at = "quantize"
      /\ Model(gptq.config).state = "whole"
      /\ quantized' = [quantized EXCEPT ![gptq.config] = [state |-> "torn", run |-> gptq.run]]
      /\ gptq' = [at |-> "saving", config |-> gptq.config, run |-> gptq.run,
                  asked |-> gptq.asked, rows |-> gptq.rows,
                  of |-> Model(gptq.config).of]
      /\ UNCHANGED <<adapter, calibration, merged, listed, gptqManifest, status, vllm,
                     report, saves, runs>>
  BY DEF StartSaving, At, TypeOK
<1>2. /\ gptq.config \in Config /\ gptq.run \in Run /\ gptq.asked \in Weights
      /\ gptq.rows \in SUBSET Row
  BY <1>1, ProcessTyped
<1>3. /\ gptq.asked \in WeightsOf(gptq.config) /\ gptq.run = runs
      /\ Model(gptq.config).of = gptq.asked /\ Clean(gptq.rows)
  BY <1>1 DEF WeightsInv, RunsInv, CleanInv, Step
<1>4. gptq' \in Process
  BY <1>1, <1>2, <1>3 DEF Process
<1>5. [state |-> "torn", run |-> gptq.run] \in Quantized
  BY <1>2 DEF Quantized
<1>6. TypeOK'
  BY <1>1, <1>2, <1>4, <1>5 DEF TypeOK
<1>7. \A q \in Config : \/ quantized'[q] = quantized[q]
                        \/ /\ q = gptq.config /\ quantized'[q].run = runs
                           /\ quantized'[q].state = "torn"
  BY <1>1, <1>2, <1>3 DEF TypeOK
<1>8. RunsInv'
  BY <1>1, <1>2, <1>3, <1>7 DEF RunsInv, Step, Passing, Run, TypeOK
<1>9. \A said \in Recorded \cup {NotRun} : SaidInv(said) => SaidInv(said)'
  <2> SUFFICES ASSUME NEW said \in Recorded \cup {NotRun}, SaidInv(said), said.state = "PASS"
               PROVE  SaidInv(said)'
    BY <1>1 DEF SaidInv, Backed
  <2>1. said.config \in Config /\ said.run \in Nat /\ said.run < runs
    BY <1>1 DEF SaidInv, Recorded, NotRun, Run
  <2>2. Backed(said)'
    BY <1>1, <1>7, <2>1 DEF SaidInv, Backed, TypeOK
  <2>3. QED
    BY <1>1, <2>1, <2>2 DEF SaidInv
<1>10. StatusInv'
  BY <1>1, <1>9 DEF StatusInv, TypeOK
<1>11. WeightsInv'
  BY <1>1, <1>3, <1>7 DEF WeightsInv, Model, MadeOfItsAdapter, Step
<1>12. CleanInv'
  BY <1>1, <1>3, <1>7 DEF CleanInv, CalibrationClean, Clean, Step
<1>13. QED
  BY <1>6, <1>8, <1>10, <1>11, <1>12

LEMMA FinishSavingKeepsInv ==
  ASSUME Inv, FinishSaving
  PROVE  Inv'
<1> USE DEF Inv
<1> DEFINE model == [state |-> "whole", run |-> gptq.run, of |-> gptq.of,
                     asked |-> gptq.asked, samples |-> gptq.rows]
<1>1. /\ gptq # Idle /\ gptq \in Process /\ gptq.at = "saving"
      /\ quantized' = [quantized EXCEPT ![gptq.config] = model]
      /\ gptq' = [at |-> "manifest", config |-> gptq.config, run |-> gptq.run]
      /\ UNCHANGED <<adapter, calibration, merged, listed, gptqManifest, status, vllm,
                     report, saves, runs>>
  BY DEF FinishSaving, At, TypeOK
<1>2. /\ gptq.config \in Config /\ gptq.run \in Run /\ gptq.asked \in Weights
      /\ gptq.rows \in SUBSET Row /\ gptq.of \in Weights
  BY <1>1, ProcessTyped
<1>3. /\ gptq.asked \in WeightsOf(gptq.config) /\ gptq.run = runs /\ gptq.of = gptq.asked
      /\ Clean(gptq.rows)
  BY <1>1 DEF WeightsInv, RunsInv, CleanInv, Step
<1>4. model \in Quantized
  BY <1>2 DEF Quantized
<1>5. /\ model.state = "whole" /\ model.run = runs /\ model.of = model.asked
      /\ model.of \in WeightsOf(gptq.config) /\ Clean(model.samples)
  BY <1>3
<1> HIDE DEF model
<1>6. gptq' \in Process
  BY <1>1, <1>2 DEF Process
<1>7. TypeOK'
  BY <1>1, <1>2, <1>4, <1>6 DEF TypeOK
<1>8. \A q \in Config : quantized'[q] = quantized[q] \/ (q = gptq.config /\ quantized'[q] = model)
  BY <1>1, <1>2 DEF TypeOK
<1>9. quantized'[gptq.config] = model
  BY <1>1, <1>2 DEF TypeOK
<1>10. RunsInv'
  BY <1>1, <1>2, <1>3, <1>5, <1>8, <1>9 DEF RunsInv, Step, Passing, Run, TypeOK
<1>11. \A said \in Recorded \cup {NotRun} : SaidInv(said) => SaidInv(said)'
  <2> SUFFICES ASSUME NEW said \in Recorded \cup {NotRun}, SaidInv(said), said.state = "PASS"
               PROVE  SaidInv(said)'
    BY <1>1 DEF SaidInv, Backed
  <2>1. said.config \in Config /\ said.run \in Nat /\ said.run < runs
    BY <1>1 DEF SaidInv, Recorded, NotRun, Run
  <2>2. Backed(said)'
    BY <1>1, <1>5, <1>8, <2>1 DEF SaidInv, Backed, TypeOK
  <2>3. QED
    BY <1>1, <2>1, <2>2 DEF SaidInv
<1>12. StatusInv'
  BY <1>1, <1>11 DEF StatusInv, TypeOK
<1>13. WeightsInv'
  BY <1>1, <1>5, <1>8 DEF WeightsInv, Model, MadeOfItsAdapter, Step
<1>14. CleanInv'
  BY <1>1, <1>5, <1>8 DEF CleanInv, CalibrationClean, Clean, Step
<1>15. QED
  BY <1>7, <1>10, <1>12, <1>13, <1>14

LEMMA WriteManifestKeepsInv ==
  ASSUME Inv, WriteManifest
  PROVE  Inv'
<1> USE DEF Inv
<1>1. /\ gptq # Idle /\ gptq \in Process /\ gptq.at = "manifest"
      /\ gptqManifest' = [gptqManifest EXCEPT ![gptq.config] = gptq.run]
      /\ gptq' = [gptq EXCEPT !.at = "pass"]
      /\ UNCHANGED <<adapter, calibration, merged, listed, quantized, status, vllm, report,
                     saves, runs>>
  BY DEF WriteManifest, At, TypeOK
<1>2. /\ gptq \in [at : {"merge", "manifest", "pass"}, config : Config, run : Run]
      /\ gptq.config \in Config /\ gptq.run \in 0 .. MaxRuns /\ gptq.run \in Run
  BY <1>1, ProcessTyped DEF Process
<1>3. /\ gptq' \in [at : {"merge", "manifest", "pass"}, config : Config, run : Run]
      /\ gptq' # Idle /\ gptq'.at = "pass" /\ gptq'.config = gptq.config /\ gptq'.run = gptq.run
  BY <1>1, <1>2 DEF Idle
<1>4. gptq' \in Process
  BY <1>3 DEF Process
<1>5. TypeOK'
  BY <1>1, <1>2, <1>4 DEF TypeOK
<1>6. /\ gptq.run = runs /\ quantized[gptq.config].state = "whole"
      /\ quantized[gptq.config].run = gptq.run
  BY <1>1 DEF RunsInv, Step
<1>7. \A q \in Config : gptqManifest'[q] = gptqManifest[q] \/ (q = gptq.config /\ gptqManifest'[q] = runs)
  BY <1>1, <1>2, <1>6 DEF TypeOK
<1>8. gptqManifest'[gptq.config] = runs
  BY <1>1, <1>2, <1>6 DEF TypeOK
<1>9. RunsInv'
  BY <1>1, <1>2, <1>3, <1>6, <1>7, <1>8 DEF RunsInv, Step, Passing, TypeOK
<1>10. \A said \in Recorded \cup {NotRun} : SaidInv(said) => SaidInv(said)'
  <2> SUFFICES ASSUME NEW said \in Recorded \cup {NotRun}, SaidInv(said), said.state = "PASS"
               PROVE  SaidInv(said)'
    BY <1>1 DEF SaidInv, Backed
  <2>1. said.config \in Config /\ said.run \in Nat /\ said.run < runs
    BY <1>1 DEF SaidInv, Recorded, NotRun, Run
  <2>2. Backed(said)'
    BY <1>1, <1>7, <2>1 DEF SaidInv, Backed, TypeOK
  <2>3. QED
    BY <1>1, <2>1, <2>2 DEF SaidInv
<1>11. StatusInv'
  BY <1>1, <1>10 DEF StatusInv, TypeOK
<1>12. WeightsInv' /\ CleanInv'
  BY <1>1, <1>3 DEF WeightsInv, Model, CleanInv, MadeOfItsAdapter, CalibrationClean, Step
<1>13. QED
  BY <1>5, <1>9, <1>11, <1>12

\* What the run says of itself is backed.
LEMMA OwnPayload ==
  ASSUME TypeOK, RunsInv, gptq # Idle, NEW state \in {"DRY_RUN", "BLOCKED", "PASS"},
         state = "PASS" => Passing
  PROVE  Payload(state) \in Recorded /\ Backed(Payload(state)) /\ Payload(state).run = runs
<1>1. gptq.config \in Config /\ gptq.run \in Run /\ gptq.run = runs /\ gptq.run \in Int
  BY ProcessTyped DEF TypeOK, RunsInv, Run
<1>2. Payload(state) \in Recorded
  BY <1>1 DEF Payload, Recorded
<1>3. Passing => /\ quantized[gptq.config].state = "whole"
                 /\ quantized[gptq.config].run = gptq.run
                 /\ gptqManifest[gptq.config] = gptq.run
  BY DEF RunsInv
<1>4. QED
  BY <1>1, <1>2, <1>3 DEF Backed, Payload

LEMMA RecordKeepsInv ==
  ASSUME Inv, gptq # Idle, gptq.at # "recorded",
         NEW state \in {"DRY_RUN", "BLOCKED", "PASS"}, Record(state),
         state = "PASS" => Passing,
         UNCHANGED <<adapter, calibration, merged, listed, quantized, gptqManifest, vllm,
                     report, saves, runs>>
  PROVE  Inv'
<1> USE DEF Inv
<1>1. gptq.config \in Config /\ gptq.run \in Run
  BY ProcessTyped DEF TypeOK
<1>2. /\ status' = [status EXCEPT ![PlaceOf[gptq.config]] = Payload(state)]
      /\ gptq' = [at |-> "recorded", config |-> gptq.config, run |-> gptq.run, state |-> state]
  BY DEF Record
<1>3. gptq' \in Process /\ gptq' # Idle
  BY <1>1, <1>2 DEF Process, Idle
<1>4. PlaceOf[gptq.config] \in Place
  BY <1>1 DEF Place
<1>5. Payload(state) \in Recorded /\ Backed(Payload(state)) /\ Payload(state).run = runs
  BY OwnPayload
<1>6. TypeOK'
  BY <1>2, <1>3, <1>4, <1>5 DEF TypeOK
<1>7. RunsInv'
  BY <1>2 DEF RunsInv, Step, Passing
<1>8. \A said : SaidInv(said) => SaidInv(said)'
  BY <1>2 DEF SaidInv, Backed
<1>9. \A said : said = Payload(state) => SaidInv(said)'
  <2> SUFFICES ASSUME NEW said, Backed(said), said.run = runs PROVE SaidInv(said)'
    BY <1>5
  <2>1. runs \in Nat
    BY DEF TypeOK
  <2>2. Backed(said)'
    BY DEF Backed
  <2>3. QED
    BY <1>2, <2>1, <2>2 DEF SaidInv
<1>10. \A p \in Place : status'[p] = status[p] \/ status'[p] = Payload(state)
  BY <1>2, <1>4 DEF TypeOK
<1>11. StatusInv'
  BY <1>8, <1>9, <1>10 DEF StatusInv
<1>12. WeightsInv' /\ CleanInv'
  BY <1>2 DEF WeightsInv, Model, CleanInv, MadeOfItsAdapter, CalibrationClean, Step
<1>13. QED
  BY <1>6, <1>7, <1>11, <1>12

LEMMA ProcessStepKeepsInv ==
  ASSUME Inv, DryRun \/ Blocked \/ RecordPass \/ CliStatus \/ Kill
  PROVE  Inv'
<1> USE DEF Inv
<1>1. CASE DryRun
  BY <1>1, RecordKeepsInv DEF DryRun, At
<1>2. CASE Blocked
  <2>1. gptq # Idle /\ gptq.at # "recorded"
    BY <1>2 DEF Blocked, At
  <2>2. QED
    BY <1>2, <2>1, RecordKeepsInv DEF Blocked
<1>3. CASE RecordPass
  <2>1. gptq # Idle /\ gptq.at = "pass" /\ Passing
    BY <1>3 DEF RecordPass, At, Passing, Step
  <2>2. QED
    BY <1>3, <2>1, RecordKeepsInv DEF RecordPass
<1>4. CASE CliStatus
  <2>1. /\ gptq # Idle /\ gptq.at = "recorded" /\ gptq' = Idle
        /\ status' = [status EXCEPT ![SmokePlace] = Payload(gptq.state)]
        /\ UNCHANGED <<adapter, calibration, merged, listed, quantized, gptqManifest, vllm,
                       report, saves, runs>>
    BY <1>4 DEF CliStatus, At
  <2>2. gptq.state \in {"DRY_RUN", "BLOCKED", "PASS"} /\ (gptq.state = "PASS" => Passing)
    BY <2>1, ProcessTyped DEF TypeOK, Passing, Step
  <2>3. /\ Payload(gptq.state) \in Recorded /\ Backed(Payload(gptq.state))
        /\ Payload(gptq.state).run = runs
    BY <2>1, <2>2, OwnPayload
  <2>4. SmokePlace \in Place /\ gptq' \in Process
    BY <2>1 DEF Place, Process
  <2>5. TypeOK'
    BY <2>1, <2>3, <2>4 DEF TypeOK
  <2>6. RunsInv' /\ WeightsInv' /\ CleanInv'
    BY <2>1 DEF RunsInv, WeightsInv, Model, CleanInv, Passing, Step, MadeOfItsAdapter, CalibrationClean
  <2>7. \A said : SaidInv(said) => SaidInv(said)'
    BY <2>1 DEF SaidInv, Backed
  <2>8. \A said : said = Payload(gptq.state) => SaidInv(said)'
    <3> SUFFICES ASSUME NEW said, Backed(said), said.run = runs PROVE SaidInv(said)'
      BY <2>3
    <3>1. runs \in Nat
      BY DEF TypeOK
    <3>2. Backed(said)'
      BY <2>1 DEF Backed
    <3>3. QED
      BY <2>1, <3>1, <3>2 DEF SaidInv
  <2>9. \A p \in Place : status'[p] = status[p] \/ status'[p] = Payload(gptq.state)
    BY <2>1, <2>4 DEF TypeOK
  <2>10. StatusInv'
    BY <2>1, <2>7, <2>8, <2>9 DEF StatusInv
  <2>11. QED
    BY <2>5, <2>6, <2>10
<1>5. CASE Kill
  <2>1. gptq' = Idle /\ gptq' \in Process /\ UNCHANGED <<adapter, calibration, files, vllm, report, saves, runs>>
    BY <1>5 DEF Kill, Process
  <2>2. TypeOK'
    BY <2>1 DEF TypeOK, files
  <2>3. RunsInv' /\ WeightsInv' /\ CleanInv'
    BY <2>1 DEF RunsInv, WeightsInv, Model, CleanInv, Passing, Step, MadeOfItsAdapter,
                CalibrationClean, files
  <2>4. \A said : SaidInv(said) => SaidInv(said)'
    BY <2>1 DEF SaidInv, Backed, files
  <2>5. StatusInv'
    BY <2>1, <2>4 DEF StatusInv, files
  <2>6. QED
    BY <2>2, <2>3, <2>5
<1>6. QED
  BY <1>1, <1>2, <1>3, <1>4, <1>5
-----------------------------------------------------------------------------
\* Inv is inductive, whatever the other processes do between two steps of a run.
THEOREM InvInductive ==
  ASSUME Inv, [Next]_vars
  PROVE  Inv'
<1>1. CASE \/ \E q \in Config : SaveAdapter(q) \/ Serve(q)
           \/ RewriteCalibration \/ Report
  BY <1>1, OutsideKeepsInv
<1>2. CASE \E q \in Config : Start(q)
  BY <1>2, StartKeepsInv
<1>3. CASE StartMerge \/ UseBase \/ FinishMerge
  BY <1>3, MergeKeepsInv
<1>4. CASE ReadCalibration \/ Tokenize
  BY <1>4, CalibrationKeepsInv
<1>5. CASE StartSaving \/ FinishSaving \/ WriteManifest
  BY <1>5, StartSavingKeepsInv, FinishSavingKeepsInv, WriteManifestKeepsInv
<1>6. CASE DryRun \/ Blocked \/ RecordPass \/ CliStatus \/ Kill
  BY <1>6, ProcessStepKeepsInv
<1>7. CASE UNCHANGED vars
  BY <1>7 DEF Inv, TypeOK, RunsInv, StatusInv, SaidInv, Backed, WeightsInv, Model, CleanInv, Passing, Step,
              MadeOfItsAdapter, CalibrationClean, vars, files
<1>8. QED
  BY <1>1, <1>2, <1>3, <1>4, <1>5, <1>6, <1>7 DEF Next

THEOREM Invariant == Spec => []Inv
<1>1. Inv /\ [Next]_vars => Inv'
  BY InvInductive
<1>2. QED
  BY <1>1, InitInv, PTL DEF Spec

\* Every variable has its type.
THEOREM TypeCorrect == Spec => []TypeOK
<1>1. Inv => TypeOK
  BY DEF Inv
<1>2. QED
  BY <1>1, Invariant, PTL

\* A PASS in a status file or the report has its manifest and its whole model.
THEOREM PassIsTrue == Spec => []PassIsBacked
<1>1. Inv => PassIsBacked
  BY DEF Inv, StatusInv, SaidInv, PassIsBacked
<1>2. QED
  BY <1>1, Invariant, PTL

\* A quantized model is made of the adapter its run merged.
THEOREM ModelIsOfItsAdapter == Spec => []MadeOfItsAdapter
<1>1. Inv => MadeOfItsAdapter
  BY DEF Inv, WeightsInv
<1>2. QED
  BY <1>1, Invariant, PTL

\* No quantized model saw a row calibration may not use, or more rows than were asked
\* for.
THEOREM CalibratedCleanly == Spec => []CalibrationClean
<1>1. Inv => CalibrationClean
  BY DEF Inv, CleanInv
<1>2. QED
  BY <1>1, Invariant, PTL
=============================================================================
