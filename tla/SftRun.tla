------------------------------- MODULE SftRun -------------------------------
(***************************************************************************)
(* querydistill train-sft (cli.py) with the paired targets (data/paired.py *)
(* and data/dataset.py) and the LLaMA-Factory backend                      *)
(* (training/llamafactory_backend.py).                                     *)
(*                                                                         *)
(* An arm is a configuration with its own dataset_dir and output_dir.  The *)
(* distilled arms write the paired manifest the gold arms filter by.  Each *)
(* command reads the file of examples its arm names, as it is by then.     *)
(* One command runs at a time; the trainer is a process of its own, which  *)
(* goes on when the command that started it is killed, and may save after  *)
(* later commands have run.  The distillation pipeline appends records     *)
(* meanwhile.                                                              *)
(***************************************************************************)
EXTENDS Integers, Sequences, FiniteSets

CONSTANTS
  Example,    \* example ids
  Train,      \* those in the split "train"
  Sources,    \* what the files of examples that the arms name may hold
  Arm,        \* the configurations
  Distilled,  \* those with target_mode = "distilled", the others have "gold"
  Strict,     \* those with strict_distilled
  Paired,     \* those that name the shared paired_manifest_path
  Resuming,   \* those with resume_from_checkpoint
  Prompt,     \* the teacher prompt versions the output was made with
  Record,     \* what the distillation pipeline may write
  MaxRecords, \* bound: how many of them it writes
  MaxRuns     \* bound: how many commands are run

Candidate == [example : Example, index : Nat, prompt : Prompt, verified : BOOLEAN]

ASSUME ExampleAssumption == Train \subseteq Example /\ Sources \subseteq SUBSET Example
ASSUME ArmAssumption ==
  /\ Distilled \subseteq Arm /\ Strict \subseteq Distilled
  /\ Paired \subseteq Arm /\ Resuming \subseteq Arm
ASSUME RecordAssumption == Record \subseteq Candidate
ASSUME RunsAssumption == MaxRuns \in Nat /\ MaxRecords \in Nat

VARIABLES
  \* the files
  records,         \* the distillation output, in file order
  pairedManifest,  \* the shared paired manifest: its ids, once it is written
  dataset,         \* train.jsonl of each arm
  checkpoints,     \* the checkpoint-* directories of each arm: what each has learned
  adapter,         \* the adapter in the output_dir of each arm
  manifest,        \* its artifact_manifest.json: the run_id, 0 if there is none
  sftStatus,       \* artifacts/smoke/sft/status.json
  \* the processes
  sft,             \* the command
  trainers,        \* the LLaMA-Factory processes that run
  \* history
  succeeded,       \* runs whose trainer exited with 0
  failed,          \* runs whose trainer exited with another code, or was killed
  runs             \* commands run so far

sftFiles == <<pairedManifest, dataset, checkpoints, adapter, manifest, sftStatus>>
sftVars  == <<records, sftFiles, sft, trainers, succeeded, failed, runs>>
-----------------------------------------------------------------------------
\* A row to learn from: a training example and the line of the candidate whose SQL is
\* its target.  The output only grows, so that a line number names a candidate for good.
Gold   == 0
Target == [example : Train, line : Nat]
Run    == 1 .. MaxRuns

NoPairing == [written |-> FALSE, ids |-> {}]

\* An adapter, the run that saved it and what it has learned.
Adapter   == [state : {"none", "torn", "whole"}, run : 0 .. MaxRuns, rows : SUBSET Target]
NoAdapter == [state |-> "none", run |-> 0, rows |-> {}]

Status == [state : {"none", "DRY_RUN", "BLOCKED", "PASS"}, run : 0 .. MaxRuns]

Command   == [at : {"dataset", "launch", "wait", "manifest"}, arm : Arm, run : Run,
              dry : BOOLEAN, rows : SUBSET Target]
NoCommand == [at |-> "idle"]

Trainer == [at : {"starting", "training", "saving"}, arm : Arm, run : Run,
            resumes : BOOLEAN, rows : SUBSET Target]
-----------------------------------------------------------------------------
\* Faulty variant: every record of an example is a candidate.
AnyRecord(recs) == DOMAIN recs

\* select_verified_candidates: of the verified records of an example the one with the
\* smallest candidate_index, of those the one created first.
Verified(recs) == {i \in DOMAIN recs : recs[i].verified}

VerifiedOf(recs, e) == {i \in Verified(recs) : recs[i].example = e}

Least(recs, lines) ==
  CHOOSE i \in lines : \A j \in lines :
    recs[i].index < recs[j].index \/ (recs[i].index = recs[j].index /\ i =< j)

TargetOf(recs, i) == [example |-> recs[i].example, line |-> i]

\* Faulty variant: the split of an example is not looked at.
TrainingInAny(source) == source

\* SplitPolicy.apply: the examples of the file that are in the split "train".
TrainingIn(source) == source \cap Train

\* build_paired_targets: those with a verified candidate.
Covered(source, recs) == {e \in TrainingIn(source) : VerifiedOf(recs, e) # {}}

DistilledRows(source, recs) ==
  {TargetOf(recs, Least(recs, VerifiedOf(recs, e))) : e \in Covered(source, recs)}

\* The ids of a pairing the file does not have are left out without a word.
GoldTarget(e) == [example |-> e, line |-> Gold]
GoldRows(source, ids) == {GoldTarget(e) : e \in TrainingIn(source) \cap ids}

Examples(rows) == {t.example : t \in rows}
-----------------------------------------------------------------------------
SftInit ==
  /\ records = <<>>
  /\ pairedManifest = NoPairing
  /\ dataset = [a \in Arm |-> {}]
  /\ checkpoints = [a \in Arm |-> {}]
  /\ adapter = [a \in Arm |-> NoAdapter]
  /\ manifest = [a \in Arm |-> 0]
  /\ sftStatus = [state |-> "none", run |-> 0]
  /\ sft = NoCommand
  /\ trainers = {}
  /\ succeeded = {} /\ failed = {}
  /\ runs = 0

\* The pipeline appends a record, as Distillation is shown to do.
Ledger == INSTANCE CandidateLedger

Distill ==
  /\ Len(records) < MaxRecords
  /\ Ledger!Add
  /\ UNCHANGED <<sftFiles, sft, trainers, succeeded, failed, runs>>

\* The command has its rows and goes on to write the dataset.
Prepared(a, rows) ==
  /\ sft = NoCommand /\ runs < MaxRuns
  /\ runs' = runs + 1
  /\ \E dry \in BOOLEAN :
       sft' = [at |-> "dataset", arm |-> a, run |-> runs + 1, dry |-> dry, rows |-> rows]
  /\ UNCHANGED <<records, dataset, checkpoints, adapter, manifest, sftStatus, trainers,
                 succeeded, failed>>

\* target_mode = "distilled": a strict arm is refused unless every training example
\* is covered; the paired manifest is replaced, whatever becomes of the run.
PairTargets(a, source) ==
  /\ a \in Distilled
  /\ a \in Strict => Covered(source, records) = TrainingIn(source)
  /\ Prepared(a, DistilledRows(source, records))
  /\ pairedManifest' = IF a \in Paired
                       THEN [written |-> TRUE, ids |-> Covered(source, records)]
                       ELSE pairedManifest

\* Faulty variant: the manifest is only asked whether it is there.
SelectGoldUnfiltered(a, source) ==
  /\ a \in Arm \ Distilled
  /\ a \in Paired => pairedManifest.written
  /\ Prepared(a, GoldRows(source, Example))
  /\ UNCHANGED pairedManifest

\* target_mode = "gold": all the training examples, or those of the paired manifest;
\* without it the command is refused.  That the file is the one the pairing was made
\* from (its dataset_sha256) is not asked.
SelectGold(a, source) ==
  /\ a \in Arm \ Distilled
  /\ \/ a \notin Paired /\ Prepared(a, GoldRows(source, Example))
     \/ /\ a \in Paired /\ pairedManifest.written
        /\ Prepared(a, GoldRows(source, pairedManifest.ids))
  /\ UNCHANGED pairedManifest

\* prepare_dataset_dir, in a dry run too.
WriteDataset ==
  /\ sft # NoCommand /\ sft.at = "dataset"
  /\ dataset' = [dataset EXCEPT ![sft.arm] = sft.rows]
  /\ sft' = [sft EXCEPT !.at = "launch"]
  /\ UNCHANGED <<records, pairedManifest, checkpoints, adapter, manifest, sftStatus,
                 trainers, succeeded, failed, runs>>

\* _record_status, unless the command was given --no-status.
RecordStatus(state) == sftStatus' \in {sftStatus, [state |-> state, run |-> sft.run]}

\* run_llamafactory returns before it looks for the trainer.
DryRun ==
  /\ sft # NoCommand /\ sft.at = "launch" /\ sft.dry
  /\ RecordStatus("DRY_RUN")
  /\ sft' = NoCommand
  /\ UNCHANGED <<records, pairedManifest, dataset, checkpoints, adapter, manifest,
                 trainers, succeeded, failed, runs>>

\* LLaMAFactoryNotInstalledError.
NotInstalled ==
  /\ sft # NoCommand /\ sft.at = "launch" /\ ~sft.dry
  /\ RecordStatus("BLOCKED")
  /\ sft' = NoCommand
  /\ UNCHANGED <<records, pairedManifest, dataset, checkpoints, adapter, manifest,
                 trainers, succeeded, failed, runs>>

\* The YAML asks for a resume if the directory holds any checkpoint by then.
Launch ==
  /\ sft # NoCommand /\ sft.at = "launch" /\ ~sft.dry
  /\ trainers' = trainers \cup
       {[at |-> "starting", arm |-> sft.arm, run |-> sft.run, rows |-> {},
         resumes |-> sft.arm \in Resuming /\ checkpoints[sft.arm] # {}]}
  /\ sft' = [sft EXCEPT !.at = "wait"]
  /\ UNCHANGED <<records, sftFiles, succeeded, failed, runs>>

\* The trainer is LLaMA-Factory's.  It reads the dataset file there is when it
\* starts.  A resumed one goes on from a checkpoint and, if its step budget is
\* not used up, learns the rows too.
Load(t) ==
  /\ t.at = "starting"
  /\ dataset[t.arm] # {}
  /\ \E learned \in IF t.resumes THEN checkpoints[t.arm] ELSE {{}} :
       \E more \in {dataset[t.arm]} \cup IF t.resumes THEN {{}} ELSE {} :
         trainers' = (trainers \ {t}) \cup
           {[t EXCEPT !.at = "training", !.rows = learned \cup more]}
  /\ UNCHANGED <<records, sftFiles, sft, succeeded, failed, runs>>

SaveCheckpoint(t) ==
  /\ t.at = "training"
  /\ checkpoints' = [checkpoints EXCEPT ![t.arm] = @ \cup {t.rows}]
  /\ UNCHANGED <<records, pairedManifest, dataset, adapter, manifest, sftStatus, sft,
                 trainers, succeeded, failed, runs>>

\* The adapter file is overwritten, then complete.
StartSaving(t) ==
  /\ t.at = "training"
  /\ adapter' = [adapter EXCEPT ![t.arm] =
       [state |-> "torn", run |-> t.run, rows |-> t.rows]]
  /\ trainers' = (trainers \ {t}) \cup {[t EXCEPT !.at = "saving"]}
  /\ UNCHANGED <<records, pairedManifest, dataset, checkpoints, manifest, sftStatus, sft,
                 succeeded, failed, runs>>

Finish(t) ==
  /\ t.at = "saving"
  /\ adapter' = [adapter EXCEPT ![t.arm] =
       [state |-> "whole", run |-> t.run, rows |-> t.rows]]
  /\ trainers' = trainers \ {t}
  /\ succeeded' = succeeded \cup {t.run}
  /\ UNCHANGED <<records, pairedManifest, dataset, checkpoints, manifest, sftStatus, sft,
                 failed, runs>>

Fail(t) ==
  /\ trainers' = trainers \ {t}
  /\ failed' = failed \cup {t.run}
  /\ UNCHANGED <<records, sftFiles, sft, succeeded, runs>>

\* Faulty variant: the return code is not looked at.
RecordPassAnyway ==
  /\ sft # NoCommand /\ sft.at = "wait" /\ sft.run \in succeeded \cup failed
  /\ RecordStatus("PASS")
  /\ sft' = [sft EXCEPT !.at = "manifest"]
  /\ UNCHANGED <<records, pairedManifest, dataset, checkpoints, adapter, manifest,
                 trainers, succeeded, failed, runs>>

\* process.wait() returned 0: the status is recorded before the manifest.
RecordPass ==
  /\ sft # NoCommand /\ sft.at = "wait" /\ sft.run \in succeeded
  /\ RecordStatus("PASS")
  /\ sft' = [sft EXCEPT !.at = "manifest"]
  /\ UNCHANGED <<records, pairedManifest, dataset, checkpoints, adapter, manifest,
                 trainers, succeeded, failed, runs>>

\* It returned another code: reading the tail of trainer.log, a file nobody wrote,
\* raises what the command does not catch, and no status is recorded.
TrainerFailed ==
  /\ sft # NoCommand /\ sft.at = "wait" /\ sft.run \in failed
  /\ sft' = NoCommand
  /\ UNCHANGED <<records, sftFiles, trainers, succeeded, failed, runs>>

WriteManifest ==
  /\ sft # NoCommand /\ sft.at = "manifest"
  /\ manifest' = [manifest EXCEPT ![sft.arm] = sft.run]
  /\ sft' = NoCommand
  /\ UNCHANGED <<records, pairedManifest, dataset, checkpoints, adapter, sftStatus,
                 trainers, succeeded, failed, runs>>

\* The command dies; its trainer need not.
KillSft ==
  /\ sft # NoCommand
  /\ sft' = NoCommand
  /\ UNCHANGED <<records, sftFiles, trainers, succeeded, failed, runs>>

SftCommand ==
  \/ \E a \in Arm, source \in Sources : PairTargets(a, source) \/ SelectGold(a, source)
  \/ WriteDataset \/ DryRun \/ NotInstalled \/ Launch
  \/ RecordPass \/ TrainerFailed \/ WriteManifest \/ KillSft

TrainerStep ==
  \E t \in trainers :
    Load(t) \/ SaveCheckpoint(t) \/ StartSaving(t) \/ Finish(t) \/ Fail(t)

SftNext == Distill \/ SftCommand \/ TrainerStep

SftSpec == SftInit /\ [][SftNext]_sftVars
-----------------------------------------------------------------------------
\* Every variable has its type.
SftTypeOK ==
  /\ records \in Seq(Record)
  /\ pairedManifest \in [written : BOOLEAN, ids : SUBSET Train]
  /\ dataset \in [Arm -> SUBSET Target]
  /\ checkpoints \in [Arm -> SUBSET SUBSET Target]
  /\ adapter \in [Arm -> Adapter]
  /\ manifest \in [Arm -> 0 .. MaxRuns]
  /\ sftStatus \in Status
  /\ sft \in Command \cup {NoCommand}
  /\ trainers \subseteq Trainer
  /\ succeeded \subseteq Run /\ failed \subseteq Run
  /\ runs \in 0 .. MaxRuns

\* What an arm has learned or holds to learn from.
RowsOf(a) ==
  dataset[a] \cup adapter[a].rows \cup (UNION checkpoints[a])
    \cup (UNION {t.rows : t \in {u \in trainers : u.arm = a}})

\* A distilled arm learns from verified teacher candidates of training examples and
\* never from gold SQL, a gold arm from the gold SQL of training examples, over
\* resumes, orphaned trainers and records added later (data/paired.py:3,
\* data/dataset.py:80-82).
OnlyItsTargets ==
  \A a \in Arm : \A t \in RowsOf(a) :
    /\ t.example \in Train
    /\ IF a \in Distilled
       THEN \E i \in DOMAIN records : records[i].verified /\ t = TargetOf(records, i)
       ELSE t.line = Gold

\* A gold arm that is to be compared with a distilled one learns the gold SQL of
\* examples the teacher has solved, and of no others: over distilled commands that
\* pair again between its own, files of examples built again, resumes and trainers
\* that outlive their command (data/paired.py:6, cli.py:431-440).
PairedGoldIsSolved ==
  \A g \in Paired \ Distilled : \A t \in RowsOf(g) : VerifiedOf(records, t.example) # {}

\* What data/paired.py:6-7 says of the arms, "built from exactly the same example
\* ids": when a run of a distilled arm and a later one of a gold arm have both
\* succeeded and their adapters are in place, they have learned the same examples.
ArmsShareExamples ==
  \A d \in Distilled \cap Paired : \A g \in Paired \ Distilled :
    /\ \A a \in {d, g} : /\ adapter[a].state = "whole" /\ manifest[a] = adapter[a].run
                        /\ \A t \in trainers : t.arm # a
    /\ manifest[d] < manifest[g]
    => Examples(adapter[d].rows) = Examples(adapter[g].rows)

\* PASS is recorded and a manifest written only for a run whose trainer exited with
\* 0, and then the output_dir of the arm holds an adapter.
PassMeansTrained ==
  /\ sftStatus.state = "PASS" => sftStatus.run \in succeeded
  /\ \A a \in Arm : manifest[a] # 0 => manifest[a] \in succeeded /\ adapter[a].state # "none"
=============================================================================
