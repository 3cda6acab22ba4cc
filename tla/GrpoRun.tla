------------------------------ MODULE GrpoRun -------------------------------
(***************************************************************************)
(* train grpo (cli.py), GRPOSmokeRunner.run (training/grpo_backend.py) and *)
(* RewardSampleLogger (training/callbacks.py) over the files of one output *)
(* directory: the run identity, the trainer's checkpoints,                 *)
(* reward_samples.jsonl and the status.  Whatever its output directory is, *)
(* a command records its result in artifacts/smoke/grpo as well, which may *)
(* be that directory.  Runs follow one another in the directory; each may  *)
(* be killed at any step and be followed by a run with or without          *)
(* --resume, with the same configuration or another.                       *)
(*                                                                         *)
(* The trainer is TRL's: it asks the reward function for a batch of        *)
(* rewards whenever the last batch is used up or the process is new, takes *)
(* Lifetime optimizer steps on each, and saves every SaveEvery steps and   *)
(* at the end, writing into the checkpoint directory itself.               *)
(***************************************************************************)
EXTENDS Integers, Sequences

CONSTANTS
  Config,          \* run identities: config hash, dataset, base model, initial adapter
  MaxSteps,        \* max_steps
  SaveEvery,       \* save_steps
  Lifetime,        \* optimizer steps taken on one batch of completions
  Width,           \* completions in one call of the reward function
  Reward,          \* the totals CompositeReward returns, as far as they are told apart
  NoConfig,
  MaxInvocations   \* bound: how often run() is called

ASSUME StepsAssumption ==
  /\ MaxSteps \in Nat \ {0} /\ SaveEvery \in Nat \ {0}
  /\ Lifetime \in Nat \ {0} /\ Width \in Nat \ {0}
  /\ MaxInvocations \in Nat
ASSUME ConfigAssumption == NoConfig \notin Config

VARIABLES
  \* the directory
  used,        \* is there anything in it?
  identity,    \* run_identity.json, NoConfig if there is none
  checkpoint,  \* the highest checkpoint-N, 0 if there is none
  whole,       \* is that checkpoint complete?
  samples,     \* reward_samples.jsonl: the lines of each call, in file order
  torn,        \* does it hold a line that is not one record?
  inSmoke,     \* is the directory artifacts/smoke/grpo?
  status,      \* status.json in it
  smoke,       \* status.json in artifacts/smoke/grpo
  \* the running process
  pc,          \* where run() is, "idle" when no process runs
  args,        \* [config, resume, dry]
  step,        \* trainer.state.global_step
  left,        \* optimizer steps the current batch is still good for
  calls,       \* _generation_batch_counter
  \* history
  invocation   \* calls of run() so far

statuses == <<inSmoke, status, smoke>>
dir      == <<used, identity, checkpoint, whole, samples, torn, statuses>>
process  == <<pc, args, step, left, calls, invocation>>
vars     == <<dir, process>>
-----------------------------------------------------------------------------
\* What a status file says, and whether it says so of the directory or of another one.
Status == [says : {"none", "DRY_RUN", "BLOCKED", "GRPO_SMOKE_OOM", "GRPO_INTEGRATION_PASS"},
           here : BOOLEAN]
Says(s) == [says |-> s, here |-> TRUE]
Pass    == Says("GRPO_INTEGRATION_PASS")
PassOfAnother == [Pass EXCEPT !.here = FALSE]

Args   == [config : Config, resume : BOOLEAN, dry : BOOLEAN]
At     == {"idle", "ensure", "snapshot", "initialize", "resume", "loop", "save", "record"}

\* The lines one call of the logger left: the generation_group_id, how many of
\* its completions were written and which rewards they got.  The configuration,
\* the run and the first step trained on the batch are history.
Batch ==
  [group : Nat \ {0}, count : 0 .. Width, rewards : SUBSET Reward,
   config : Config, run : 1 .. MaxInvocations, first : 1 .. MaxSteps]

Lines == DOMAIN samples

Init ==
  /\ used = FALSE /\ identity = NoConfig
  /\ checkpoint = 0 /\ whole = TRUE
  /\ samples = <<>> /\ torn = FALSE
  /\ inSmoke \in BOOLEAN
  /\ status = Says("none") /\ smoke = Says("none")
  /\ pc = "idle"
  /\ args \in {a \in Args : ~a.resume /\ ~a.dry}
  /\ step = 0 /\ left = 0 /\ calls = 0
  /\ invocation = 0

Invoke ==
  /\ pc = "idle" /\ invocation < MaxInvocations
  /\ pc' = "ensure"
  /\ args' \in Args
  /\ step' = 0 /\ left' = 0 /\ calls' = 0
  /\ invocation' = invocation + 1
  /\ UNCHANGED dir

\* The two files are one if the directory is the smoke directory.
WriteStatus(s) ==
  /\ status' = s
  /\ smoke' = IF inSmoke THEN s ELSE smoke
  /\ UNCHANGED inSmoke

WriteSmoke(s) ==
  /\ smoke' = s
  /\ status' = IF inSmoke THEN s ELSE status
  /\ UNCHANGED inSmoke

Ends == pc' = "idle" /\ UNCHANGED <<args, step, left, calls, invocation>>

Continue(from, to) ==
  /\ pc = from /\ pc' = to
  /\ UNCHANGED <<args, calls, invocation>>
-----------------------------------------------------------------------------
(***************************************************************************)
(* _ensure_run_dir.                                                        *)
(***************************************************************************)
\* Faulty variant: any identity will do.
MayUseAny == used => args.resume /\ identity # NoConfig

\* A directory that holds anything is continued only with --resume and by the
\* identity it was begun with.
MayUse ==
  used => args.resume /\ identity # NoConfig /\ identity = args.config

EnsureRunDir ==
  /\ Continue("ensure", "snapshot")
  /\ MayUse
  /\ used' = TRUE
  /\ identity' = IF used THEN identity ELSE args.config
  /\ UNCHANGED <<checkpoint, whole, samples, torn, statuses, step, left>>

RefuseRunDir ==
  /\ pc = "ensure" /\ ~MayUse
  /\ Ends
  /\ UNCHANGED dir

\* Killed in atomic_write_text: the temporary file stays, the identity is not
\* there.
KilledInIdentity ==
  /\ pc = "ensure" /\ ~used
  /\ used' = TRUE
  /\ Ends
  /\ UNCHANGED <<identity, checkpoint, whole, samples, torn, statuses>>
-----------------------------------------------------------------------------
DryRun ==
  /\ pc = "snapshot" /\ args.dry
  /\ WriteStatus(Says("DRY_RUN"))
  /\ Ends
  /\ UNCHANGED <<used, identity, checkpoint, whole, samples, torn>>

\* environment.json and resolved_config.yaml are written, and _train is called.
Snapshot ==
  /\ Continue("snapshot", "initialize")
  /\ ~args.dry
  /\ UNCHANGED <<dir, step, left>>

\* No CUDA, a missing dependency, a tokenizer or a model that does not load.
RecordBlocked ==
  /\ pc = "initialize"
  /\ WriteStatus(Says("BLOCKED"))
  /\ Ends
  /\ UNCHANGED <<used, identity, checkpoint, whole, samples, torn>>

\* The policy is loaded from the SFT artifact, and a new logger counts from 0.
Initialize ==
  /\ Continue("initialize", "resume")
  /\ UNCHANGED <<dir, step, left>>

\* Faulty variant: training starts again from the adapter.
ResumeFromScratch ==
  /\ Continue("resume", "loop")
  /\ step' = 0
  /\ UNCHANGED <<dir, left>>

\* _resume_checkpoint, and the trainer taking the checkpoint up.
ResumeTraining ==
  /\ Continue("resume", "loop")
  /\ args.resume => checkpoint > 0 /\ whole
  /\ step' = IF args.resume THEN checkpoint ELSE 0
  /\ UNCHANGED <<dir, left>>

\* Faulty variant: an incomplete checkpoint is waited for.
RefuseResumeWithout ==
  /\ pc = "resume"
  /\ args.resume /\ checkpoint = 0
  /\ Ends
  /\ UNCHANGED dir

\* There is no checkpoint, or the newest is incomplete and cannot be loaded.
RefuseResume ==
  /\ pc = "resume"
  /\ args.resume /\ ~(checkpoint > 0 /\ whole)
  /\ Ends
  /\ UNCHANGED dir
-----------------------------------------------------------------------------
(***************************************************************************)
(* Training.                                                               *)
(***************************************************************************)
Logged(count, rewards) ==
  samples' = Append(samples,
    [group |-> calls + 1, count |-> count, rewards |-> rewards,
     config |-> args.config, run |-> invocation, first |-> step + 1])

NeedsBatch == pc = "loop" /\ step < MaxSteps /\ left = 0

\* The rewards a call may return for n completions.
RewardsOf(n) == {r \in SUBSET Reward : (r = {}) <=> (n = 0)}

\* Faulty variant: the last completion of a call is not logged.
RewardCallShort ==
  /\ NeedsBatch
  /\ \E rewards \in RewardsOf(Width) : Logged(Width - 1, rewards)
  /\ calls' = calls + 1
  /\ left' = Lifetime
  /\ UNCHANGED <<used, identity, checkpoint, whole, torn, statuses, pc, args, step, invocation>>

\* RewardSampleLogger.__call__.
RewardCall ==
  /\ NeedsBatch
  /\ \E rewards \in RewardsOf(Width) : Logged(Width, rewards)
  /\ calls' = calls + 1
  /\ left' = Lifetime
  /\ UNCHANGED <<used, identity, checkpoint, whole, torn, statuses, pc, args, step, invocation>>

\* Killed, or out of disk space, in append_jsonl.
KilledInAppend ==
  /\ NeedsBatch
  /\ \E n \in 0 .. Width - 1 : \E rewards \in RewardsOf(n) : Logged(n, rewards)
  /\ torn' \in {torn, TRUE}
  /\ Ends
  /\ UNCHANGED <<used, identity, checkpoint, whole, statuses>>

\* Faulty variant: a batch is used up even past max_steps.
OptimizerStepUnbounded ==
  /\ pc = "loop" /\ left > 0
  /\ step' = step + 1
  /\ left' = left - 1
  /\ pc' = IF step' % SaveEvery = 0 \/ step' = MaxSteps THEN "save" ELSE "loop"
  /\ UNCHANGED <<dir, args, calls, invocation>>

OptimizerStep ==
  /\ pc = "loop" /\ step < MaxSteps /\ left > 0
  /\ step' = step + 1
  /\ left' = left - 1
  /\ pc' = IF step' % SaveEvery = 0 \/ step' = MaxSteps THEN "save" ELSE "loop"
  /\ UNCHANGED <<dir, args, calls, invocation>>

Save ==
  /\ Continue("save", "loop")
  /\ checkpoint' = step /\ whole' = TRUE
  /\ UNCHANGED <<used, identity, samples, torn, statuses, step, left>>

KilledInSave ==
  /\ pc = "save"
  /\ checkpoint' = step /\ whole' = FALSE
  /\ Ends
  /\ UNCHANGED <<used, identity, samples, torn, statuses>>

OutOfMemory ==
  /\ pc = "loop" /\ step < MaxSteps
  /\ WriteStatus(Says("GRPO_SMOKE_OOM"))
  /\ Ends
  /\ UNCHANGED <<used, identity, checkpoint, whole, samples, torn>>

\* Faulty variant: the status is written without reading the samples.
FinishUnread ==
  /\ pc = "loop" /\ step = MaxSteps
  /\ WriteStatus(Pass) /\ Continue("loop", "record")
  /\ UNCHANGED <<used, identity, checkpoint, whole, samples, torn, step, left>>

\* _learning_signal reads reward_samples.jsonl before status.json is written.
Finish ==
  /\ pc = "loop" /\ step = MaxSteps
  /\ IF torn
     THEN Ends /\ UNCHANGED statuses
     ELSE WriteStatus(Pass) /\ Continue("loop", "record") /\ UNCHANGED <<step, left>>
  /\ UNCHANGED <<used, identity, checkpoint, whole, samples, torn>>

\* The command records what run() returned in the smoke directory too, unless it was
\* given --no-status.
RecordStatus ==
  /\ pc = "record"
  /\ WriteSmoke(Pass) \/ UNCHANGED statuses
  /\ Ends
  /\ UNCHANGED <<used, identity, checkpoint, whole, samples, torn>>

\* So does a command whose output directory is another one.
AnotherPasses ==
  /\ WriteSmoke(PassOfAnother)
  /\ used' = (used \/ inSmoke)
  /\ UNCHANGED <<identity, checkpoint, whole, samples, torn, process>>

\* The process dies, or an exception leaves run(), between two of the above.
Killed ==
  /\ pc # "idle"
  /\ Ends
  /\ UNCHANGED dir

\* The bound on invocations is reached.
Stopped == pc = "idle" /\ invocation = MaxInvocations /\ UNCHANGED vars

Step ==
  \/ EnsureRunDir \/ RefuseRunDir \/ DryRun \/ Snapshot \/ Initialize
  \/ ResumeTraining \/ RefuseResume \/ RewardCall \/ OptimizerStep \/ Save \/ Finish
  \/ RecordStatus

Fault ==
  \/ KilledInIdentity \/ RecordBlocked \/ KilledInAppend \/ KilledInSave
  \/ OutOfMemory \/ Killed

Next == Invoke \/ Step \/ Fault \/ AnotherPasses \/ Stopped

Spec == Init /\ [][Next]_vars

\* A process that was started runs on, unless something ends it.
FairSpec == Spec /\ WF_vars(Step)
-----------------------------------------------------------------------------
(***************************************************************************)
(* Properties.                                                             *)
(***************************************************************************)
\* Every variable has its type.
TypeOK ==
  /\ used \in BOOLEAN
  /\ identity \in Config \cup {NoConfig}
  /\ checkpoint \in 0 .. MaxSteps
  /\ whole \in BOOLEAN
  /\ samples \in Seq(Batch)
  /\ torn \in BOOLEAN
  /\ inSmoke \in BOOLEAN
  /\ status \in Status /\ smoke \in Status
  /\ pc \in At
  /\ args \in Args
  /\ step \in 0 .. MaxSteps
  /\ left \in 0 .. Lifetime
  /\ calls \in Nat
  /\ invocation \in 0 .. MaxInvocations

\* However runs follow one another, the rewards in a directory come from the
\* identity it was begun with (_ensure_run_dir).
OneConfigPerDirectory == \A i \in Lines : samples[i].config = identity

\* Every optimizer step in a checkpoint was taken on completions whose rewards
\* are all in reward_samples.jsonl, although a resumed run repeats the steps
\* after the checkpoint and a call may be cut off.
TrainedOn(s) ==
  \E i \in Lines :
    /\ samples[i].count = Width
    /\ s \in samples[i].first .. samples[i].first + Lifetime - 1

StepsAreLogged == \A s \in 1 .. checkpoint : TrainedOn(s)

\* GRPO_INTEGRATION_PASS is said of a directory, in its own status.json or in that of
\* artifacts/smoke/grpo, only if it holds the last checkpoint, complete, and a sample file
\* that can be read, whatever happens in it afterwards; and only the smoke directory may
\* hold the PASS of another (cli.py 558-561).
PassMeansTrained ==
  /\ Pass \in {status, smoke} => checkpoint = MaxSteps /\ whole /\ ~torn
  /\ status = PassOfAnother => inSmoke

\* No run ever goes back behind a checkpoint: a resumed run does not silently
\* restart from the SFT adapter (_resume_checkpoint lines 428-432).
CheckpointAdvances == [][checkpoint' >= checkpoint]_vars

\* A run that is started ends.
RunEnds == (pc # "idle") ~> (pc = "idle")
-----------------------------------------------------------------------------
\* _reward_signal_stats takes the rewards that carry one generation_group_id for
\* one group, and counts a group as signal if they differ.  "Multiple SQL rollouts
\* for the same prompt are ranked against each other"
\* (docs/ALGORITHM_DECISIONS.md lines 13-14): the rewards of a group that counts
\* differ within one call.
GroupRewards(g) == UNION {samples[i].rewards : i \in {j \in Lines : samples[j].group = g}}

Differ(rewards) == \E r, q \in rewards : r # q

SignalIsReal ==
  \A i \in Lines :
    Differ(GroupRewards(samples[i].group)) =>
      \E j \in Lines : samples[j].group = samples[i].group /\ Differ(samples[j].rewards)
-----------------------------------------------------------------------------
(***************************************************************************)
(* The inductive invariant behind the safety properties, in named parts.   *)
(***************************************************************************)
Training == pc \in {"loop", "save"}

\* What the directory holds, and what a process may assume of it.
DirInv ==
  /\ ~used => identity = NoConfig
  /\ identity = NoConfig => checkpoint = 0 /\ samples = <<>>
  /\ pc \notin {"idle", "ensure"} => used /\ identity = args.config
  /\ pc \in {"snapshot", "initialize", "resume"} /\ ~args.resume => checkpoint = 0
  /\ pc # "idle" => invocation > 0
  /\ inSmoke => smoke = status
  /\ OneConfigPerDirectory

\* How far training has come.
StepInv ==
  /\ Training => checkpoint <= step
  /\ pc = "save" => checkpoint < step
  /\ Training /\ checkpoint > 0 => whole
  /\ pc = "loop" /\ step = MaxSteps => checkpoint = MaxSteps
  /\ Training => \A s \in 1 .. step : TrainedOn(s)
  /\ Training => \A s \in step + 1 .. step + left : TrainedOn(s)
  /\ pc \in {"ensure", "snapshot", "initialize", "resume"} => left = 0
  /\ pc = "record" => checkpoint = MaxSteps /\ whole /\ ~torn
  /\ StepsAreLogged
  /\ PassMeansTrained

GrpoInv == TypeOK /\ DirInv /\ StepInv

\* What is left of a run: every optimizer step may need a batch before it and a save
\* after it.
TrainingLeft == 3 * (MaxSteps - step) + (IF left = 0 THEN 1 ELSE 0)
StepsLeft ==
  CASE pc = "idle"       -> 0
    [] pc = "record"     -> 1
    [] pc = "loop"       -> 2 + TrainingLeft
    [] pc = "save"       -> 3 + TrainingLeft
    [] pc = "resume"     -> 4 + 3 * MaxSteps
    [] pc = "initialize" -> 5 + 3 * MaxSteps
    [] pc = "snapshot"   -> 6 + 3 * MaxSteps
    [] pc = "ensure"     -> 7 + 3 * MaxSteps

\* A run turns in no circle: training asks for batches, steps and saves only as often as
\* the steps that are left allow, and what other commands record changes nothing of it.
RunRunsDown == [][pc # "idle" => StepsLeft' < StepsLeft]_process
=============================================================================
