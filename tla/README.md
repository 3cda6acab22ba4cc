# A TLA+ model of QueryDistill-RL

QueryDistill-RL trains a small Text-to-SQL model on one GPU: a teacher proposes
SQL, SQLite decides which proposals count, the survivors become a fine-tuning
set, and a GRPO run then optimises a reward that is again computed by executing
SQL. The training itself is done by libraries. What the repository adds, and
what has to be right for any number it reports, is the machinery around them:
a sandbox that executes untrusted SQL, a reward read through a persistent cache,
long-running jobs that are killed, resumed and started again in directories that
already hold something, and a chain of files that leads from a frozen split of the
data over two paired arms of fine-tuning to a quantized model. This directory models that machinery,
checks it with TLC and proves its safety with TLAPS.

Paths below are relative to `src/querydistill/` unless they begin with `docs/` or `tools/`.

## Inventory

### Components, their state and their operations

| Component | State | Operations | Correct when |
| --- | --- | --- | --- |
| `sql/executor.py` | a worker process, its watchdog and queue feeder threads, a pipe, the clock | `execute` | a call returns what the statement yields or a failure, in time, and leaves no process behind |
| `sql/safety.py` | none | `validate_sql` | only one read-only statement passes |
| `sql/environment.py` | registry (read once) | `execute`, `table_names` | paths come from the allowlist only |
| `sql/verifier.py` | none | `verify` | equal results and no others are equivalent |
| `outputs/parser.py`, `fallback.py` | none | `parse_model_output`, `extract_fallback_sql` | ambiguous output yields no SQL |
| `distillation/pipeline.py` | output (JSON lines), manifest, progress file; in memory the completed keys, verified ids and gold results | `run`, with `--resume` and `--dry-run` | each candidate is recorded once, the files never claim more than was done, runs do not mix |
| `distillation/backends.py` | a loaded model | `generate`, `unload` | no gold SQL reaches a real teacher |
| `rewards/*` | gold cache on disk, table names in memory | `score_once` | correctness dominates, equal outputs earn equal rewards |
| `training/grpo_backend.py` | run identity, checkpoints, status, evidence | `run`, with `--resume` and `--dry-run` | a directory has one identity, training is never silently restarted, PASS is earned |
| `training/callbacks.py` | `reward_samples.jsonl`, group counter | `__call__` | every completion trained on is logged, under its own group |
| `training/llamafactory_backend.py` with `train-sft` of `cli.py` | dataset file, checkpoints, adapter, manifest and status of each arm; an external process | `train-sft`, with `--dry-run` and `--no-status` | an adapter is made of its arm's targets, a failed trainer is never a pass |
| `data/paired.py` | the shared paired manifest | `build_paired_targets`, `write_manifest` | paired arms learn the same examples |
| `data/splitter.py`, `tools/build_formal_readiness.py`, `tools/build_final_pretraining_gate.py` | five split files, leakage report, protocol lock | the three programs | every row has one role, the drawn sets survive, the lock describes what lies there |
| `data/split_policy.py`, `data/schema.py` | none | `apply`, `load_examples` | no row of another split passes |
| `data/bird.py`, `dataset.py`, `fixtures.py` | example files | import, rows for training, fixtures | identity and content of a row are stable |
| `data/leakage.py`, `audit.py`, `protocol_lock.py` | none | reports over files | -- |
| `evaluation/*` | records | `evaluate_one`, metrics | every record falls in one bucket, metrics agree with the buckets |
| `generation/stopping.py` | rows finished so far | `__call__` | a row stops at the first close tag after its prompt |
| `quantization/gptq.py` | merged model (possibly shared), calibration manifest, quantized model, manifest, two status files | `quantize-gptq`, with `--dry-run` | PASS only of a whole model, made of the adapter it was asked for and calibrated on training rows |
| `serving/vllm.py` | status; thread pool, sampler thread | `serve-vllm`, `benchmark` | blocked is never a pass; the sampler ends with the benchmark |
| other `tools/*` | audit records | gold audit and its reruns | each query audited once |
| `cli.py`, `config.py`, `hardware.py`, `artifacts/*`, `reporting/*` | none of their own | commands, settings, manifests | -- |

### Interactions

* `CompositeReward.score_once`, the distillation pipeline, the evaluation
  harness and the gold audit all execute SQL through
  `SQLExecutionEnvironment.execute`, which starts one worker process for each
  call and waits for it. A failure comes back as a result, never as an exception.
* The reward reads gold results through `GoldResultCache`, which is keyed by
  fingerprints taken when the process starts and is shared by all later ones.
* TRL's trainer calls `RewardSampleLogger`, which calls the reward and appends to
  a file that `_learning_signal` reads when training is over.
* The splitter draws `train_core` and `validation_tuning`; the readiness script draws
  `formal_validation` from what those leave; the gate reads the last two, writes
  them again with three others, and pins them in the lock. Training reads any of them.
* `train-sft` of the distilled arm reads what the pipeline has recorded so far and
  writes the pairing that the gold arm filters by. Each command reads the file of examples
  its own configuration names, as it is by then. Both start LLaMA-Factory, which
  outlives a command that is killed.
* `quantize-gptq` merges the adapter a GRPO or fine-tuning run saved; `serve-vllm`
  and the report read what it left.
* `train-grpo` records its result in `artifacts/smoke/grpo` as well, whatever its output
  directory is.
* Runs of the pipeline and of GRPO talk to their successors only through files.
  Some are replaced atomically (`utils.atomic_write_text`), others appended to
  (`utils.append_jsonl`).

### What is hard about it

Two processes and two helper threads in one call of the executor, with time
and signals; the capacity of a pipe; processes that die between and inside
writes; a file that several runs have appended to; a check that is made only if
a file exists; a cache that remembers failures; a counter that restarts while the
file it labels does not; programs that rewrite their own input in place; trainers that
save after a later command has begun; a directory two configurations merge into; a
file that is read twice. `PROJECT.json` lists each at its line.

## Modules

    ExecutionResults                         statements and results
    QueryOutcomes                            queries and results as the reward tells them apart
    SqlExecution                             the promise of one call (abstract)
    CandidateLedger                          the list of candidates (abstract)

    SqlExecutor    -- MCSqlExecutor,   SqlExecutorProofs     implements SqlExecution
    Distillation   -- MCDistillation,  DistillationProofs    implements CandidateLedger
    RewardScoring  -- MCRewardScoring, RewardScoringProofs
    GrpoRun        -- MCGrpoRun,       GrpoRunProofs
    FormalSplits   -- MCFormalSplits,  FormalSplitsProofs
    SftRun         -- MCSftRun,        SftRunProofs
    ModelExport    -- MCModelExport,   ModelExportProofs

Two seams between components are closed by an abstract module that one side uses and the
other is proved to implement.

* `SqlExecution`, `QueryOutcomes`: `RewardScoring` chooses what comes back for a query from
  `QueryOutcomes!Executed`. That a call of the executor is allowed exactly those outcomes
  for a query of that kind, no more and no fewer, is `OutcomesAreTheScored`; that it ends
  in one of them, `ResultsAreTheScored`. `Distillation!GoldAfter` rests on the same
  promise: the true answer or a failure.
* `CandidateLedger`: `SftRun` reads the output of the pipeline as a list that only grows
  and repeats no example, index and prompt version (its `Ledger!Add`). `Distillation`
  implements that list over kills, resumes and runs of other fingerprints
  (`LedgerKept`, `OutputIsTheLedger`). Two prompt versions do occur in one output, and then
  an example may be in it twice; `SftRun` allows it.

`GrpoRun` takes rewards from a set, as `RewardScoring` bounds and orders them.
`ModelExport!SaveAdapter` is how `GrpoRun` and `SftRun` leave their adapters: in place.

**SqlExecutor** is one call of `execute` (`sql/executor.py`). `parent` walks
through the method, `worker` through `_run_sql_worker`; `outbox` is the payload
given to the queue and `sent` how much of it the feeder thread has put into the
pipe. The parent joins first and reads afterwards, and a process that is exiting
joins its feeder first: both orders are in the model because the interesting
behaviour comes from them together. A payload has one unit and `RowUnits` more
for each row; the pipe holds `PipeCapacity`. `Tick` lets time pass at any point, so each comparison
with the clock may go either way as it can in the code. An exception raised by
the progress handler and an `interrupt()` are one outcome in the code (SQLite
reports "interrupted", which becomes a timeout) and one action here.

**Distillation** is `DistillationPipeline.run` and the three files it keeps. An
invocation starts with nothing in memory; `Load`, `WriteManifest`, one action for
each candidate, `WriteProgress` and `Complete` follow in the order of the code,
and `Killed` is possible between any two. `KilledInAppend` leaves none, part, or
all but the newline of a record, and `tail` says which, so that the next append
spoils the line as it does in the code. How many candidates a run asks for, its target
and whether it retries belong to its fingerprint, so that runs of both kinds meet in one
directory. The fields `fp`, `feedback`, `run` and
`resumed` of a record are history: they say where a record came from and no
action reads them, except that `fp` stands for the prompt version the code
stores. `FeedbackFor` is `_retry_feedback` with its four texts; the one for a verified
record is the last return, as in the code. An answer is one of six kinds
(`CandidateKind`); "fenced" is a right query in a markdown fence, which counts as not
parsed and is executed all the same. The plan in an answer is never required
(`require_plan` is false, as by
default). A batch of
sampled candidates is generated when each is recorded; generation has no effect
on the files.

**RewardScoring** is `score_once` with its five components in hundredths, the
decision of the verifier and the gold cache. An output is its wrapping and what
the SQL in it is; results are told apart as the verifier tells them apart. The
fields `from` and `on` are history. `trace` and `kept` are the last result and
some earlier one, so that two can be compared however far apart they are.

**GrpoRun** is `GRPOSmokeRunner.run` and `RewardSampleLogger` over one directory.
TRL is external: it asks for a batch when it has none left or is new, takes
`Lifetime` steps on it, and writes checkpoints in place. The lines of one call
are one element of `samples`. `Finish` writes the status of the directory and
`RecordStatus`, which `--no-status` leaves out, the second one in `artifacts/smoke/grpo`.
`inSmoke` says whether that is the same directory, and `AnotherPasses` is a run
elsewhere that records its PASS there; `here` tells the two apart, as the run_id in the
file does.

**FormalSplits** is the import and the three programs that write the splits. A row
is its number in the source; its content is what the code compares, so a row whose
question has outer white space is another content before and after stripping.
Shuffles are a constant, any numbering of the rows; the draw is the stratified round robin
of the code. The formal draw begins with a round that gives every database a row and does not
look at the size asked for (`tools/build_formal_readiness.py:107-113`), so it may be larger:
`FormalDraw`. Each program decides on a plan and writes one file after another in place,
and `Kill` leaves any first part of the file that is open, or a broken last row, or, before
it is opened, the file as it was. `DatabaseUnread` is the gate that cannot read the schema
of a training database, before any file is written; `CheckDatabases` its examination of
the whole registry, after.
`Train` is any training command on any file, which `SplitPolicy` judges by the split
field of its rows. `selection` and `redrawn` are history: what was last drawn, and
whether that is still what the lock was written from.

**SftRun** is `train-sft` in the order of the code: read the arm's file of examples
(any member of `Sources`, at every command) and filter it by split, select the targets (and
replace the pairing), write the dataset, start the trainer, wait, record the status, write
the manifest. A paired gold arm drops the ids its file does not have, without a word, as the
code does. The trainer is a process of its own that reads the dataset and maybe a
checkpoint, saves checkpoints and the adapter in place, and may fail anywhere; a
killed command leaves it running. A target is an example and the line of the output its SQL
comes from, which names a candidate for good since the output only grows.

**ModelExport** is `quantize-gptq` from the merge to the two statuses, with the
readers of its results. Configurations outside `Adapted` name no adapter and quantize the
base (`UseBase`). `asked` in the process is the adapter its run loaded, and
`of` the weights it found in the merged directory; no action of the code compares
them. Adapters may be saved again and calibration files rewritten at any time. A
saved adapter has a number, so that stale weights are told from current ones.

## Runs

| Run | Shows |
| --- | --- |
| `executor_large` | The executor implements its promise, earns its timeouts and leaves no worker, for statements of every kind, with payloads larger than the pipe and workers killed from outside; a worker that ended by itself has reported, whole; the call returns unless a kill cut the message short |
| `distillation` | With retries, sampling, kills, resumes, dry runs and two fingerprints: no key twice, progress and COMPLETED honest, feedback about the attempt before, every run ends, and the output is the list `CandidateLedger` describes |
| `reward` | Correctness dominates, rewards are reproducible and gold results fresh, over restarts, kills, transient failures and a replaced database |
| `grpo` | One identity in a directory, all steps of a checkpoint logged, a PASS of the directory's own runs, in either status file, stands for the last checkpoint, checkpoints only advance, every run ends |
| `splits` | Draws have their size and are spread over the databases, the gate works from exactly the rows last drawn or writes nothing, the lock is a partition and no split file holds a row of another split until something is redrawn, training on `formal_train.jsonl` meets no validation row meanwhile, shared questions are reported, over kills in every file and any order of the programs |
| `sft` | Adapters, checkpoints and datasets hold targets of their arm only, a paired gold arm learns only examples the teacher has solved, PASS and the manifest mean a saved adapter, over kills, resumes, orphaned trainers, files of examples that differ between commands and records added meanwhile |
| `export` | PASS, in either status or the report, is backed by a whole model, which is made of the adapter its run loaded, or of the base, and calibrated on training rows only and no more than allowed, over kills, failures, adapters saved again and calibration files rewritten |
| `executor_wait`, `distillation_retry`, `grpo_signal`, `splits_leak`, `sft_pairing` | One counterexample each, see below |

Deadlock is checked where a process might wait for another: a finished call and an
exhausted bound on invocations stutter explicitly there (`Finished`, `Stopped`), and
nothing else may stop. In `splits`, `sft` and `export` nobody waits for anything but a
trainer that may always fail; the runs stop where their bounds on commands do, and
deadlock is not checked.

### Bounds and why they are enough

* `MaxRows` 2 with 0 to 3 rows: none, fewer, as many, one to cut off. `ExecBudget`
  2 and `StartTimeout` 1: a worker can start in time, late, or never, and the hard
  deadline lies beyond the worker's own or before it. The pipe holds 2 units and
  a payload takes up to 3, so that one kind of payload does not fit. The clock stops one tick
  after the hard deadline, which no later comparison distinguishes.
* Three invocations of the pipeline on two examples with two candidates: one that
  begins, one that is killed in what the first left, one that is judged by both.
  The first is enough to leave any state of the files. Two fingerprints: one that
  retries, and one of another prompt version that samples towards a target. Answers are
  fenced or right, and the gold query succeeds or fails: parsed or not, equivalent or not, in
  every combination.
  `distillation_retry` needs one example and two invocations.
* One example, two databases and every kind of SQL in the required and in no
  wrapping; the wrapping changes the format component only, and the proofs cover all.
* Five steps, checkpoints after 2, 4 and 5, batches good for two steps: a resumed
  run starts in the middle of a batch, and the last checkpoint is not a multiple.

* Five rows in two databases, two of which ask the same question, one padded in the
  source; `prepare-bird` cuts the last one off. Two are drawn for tuning, or more or
  fewer than the gate expects, and two for the formal set, one for each database; two seeds that
  order the rows differently. Five commands: all three programs, with two reruns after a kill.
  `splits_leak` needs one seed and three commands.
* Two training examples and one held out, two files that an arm may find (all of them, or
  one training example fewer), a distilled arm and a gold arm
  paired with it that both resume, three commands: the distilled run that pairs, one that
  changes the pairing after more records came in, and the gold run before, between or after. Two records,
  of the same example under two prompt versions or of two examples. `sft_pairing` has one
  file and no resume: neither is needed.
* Two configurations that share the merge directory, as those in `configs/` do, and
  of which one writes to the directory the command line records in, and one without an
  adapter; two quantizations, two saves of an adapter, one calibration sample, three files.

The theorems need none of these bounds, apart from `MaxInvocations`, `MaxCommands`,
`MaxRuns` and `MaxSaves`, which are arbitrary numbers.

### Fairness

`SqlExecutor!Fairness`: the parent, the worker and the feeder thread are run by
the operating system, time passes, and a signal is delivered in the end. Nothing
is assumed of the watchdog, whose interrupt may be missed, or of faults.
`Distillation!FairSpec` and `GrpoRun!FairSpec`: a process that was started takes
its next step. Kills, refusals by the machine and new invocations are never
required.

## What the code does not do

Five statements of the documentation fail in a run of their own.

1. `executor_wait`: a result larger than the pipe (64 KiB on Linux) is never
   delivered. The parent joins (line 265) before it reads (282); the worker cannot
   exit before it has written. The query has finished, yet after the hard
   deadline the caller is told that it timed out. Gold queries with long results
   are affected alike, and the gold cache keeps the failure.
2. `grpo_signal`: the group ids restart in each process, and two constant groups
   become one that varies.
3. `splits_leak`: `data/split_policy.py:138-140` promises that every formal training
   entry point reads `formal_train.jsonl` and never a validation row, but
   `assert_formal_training_source` is called by no training command. `train_core.jsonl`,
   drawn before the formal split, still holds the rows of `formal_validation.jsonl`
   as "train", and training accepts it. What does hold is part of `LockedSplits`, checked
   and proved: training that reads `formal_train.jsonl` itself meets no validation row while
   the lock is in force.
4. `distillation_retry`: lines 11-12 of `distillation/pipeline.py` say that a second attempt
   is made only of what was not verified. A run killed after a verified attempt and resumed
   skips the recorded attempt (347) without looking at its verdict, generates the next, and
   tells the teacher that the verified query did not match. Within one process it does not
   happen (`RetryAnswersPrevious`).
5. `sft_pairing`: `data/paired.py:6-7` says both arms are built from the same example ids.
   The pairing is replaced by every distilled command before it trains (`cli.py:430`), also by
   one that is killed then, and the gold arm takes what it finds; nothing ties the adapter
   in place to the pairing in place. Two more ways lead apart, both in the model of `sft`: the
   gold arm reads its own file of examples and drops the paired ids it lacks, without comparing
   `dataset_sha256` (437-440), and a resumed trainer goes on from older targets. What does
   hold is `PairedGoldIsSolved`.

Others were met in the model and are part of it, without a run:

* A worker killed between two writes of its payload leaves half a message;
  `get(timeout=2.0)` finds the pipe readable and then reads without a timeout
  (`sql/executor.py:282`). It is the one way a call does not return, and `CallReturns` says so.
* A right query in a markdown fence, without `<sql>` tags, is recorded with
  `parse_valid` false and yet executed: `run` counts it as verified and stops retrying
  (`distillation/pipeline.py:544` and 388), while `select_verified_candidates` refuses it
  (`data/paired.py:70`), so the example stays without a target.
* A retry looks for the attempt before among all prompt versions and takes the first line
  (`distillation/pipeline.py:479-488`): in an output begun under another version it may be
  told what was wrong with that version's attempt.
* `artifacts/smoke/grpo/status.json` is written by every GRPO run (`cli.py:560`): a run whose
  directory that is finds a PASS of another, and a run that was to begin there finds the
  directory not empty and is refused.
* The manifest is compared only when the output exists, and kept when it does
  not, so records of two fingerprints can meet (264-271 and 315).
* Appends are not atomic; a line cut before its newline is spoiled by the next run,
  which then reports COMPLETED for an output that cannot be loaded (`utils.py:77`).
* When LLaMA-Factory fails, the command reads the tail of a `trainer.log` it did not
  write, since `train-sft` gives it other files to write to: FileNotFoundError leaves
  the command, no status is recorded and an earlier PASS stays
  (`training/llamafactory_backend.py:377`, `SftRun!TrainerFailed`).
* A quantized directory torn by a killed run lies beside the PASS of the run before it,
  and `input_sha256` in the manifest is the hash of the merged `config.json`, which is
  the same for all adapters; `calibration_manifest.json` lists the rows of the first
  reading, which need not be those that were used.
* The gate strips what it rewrites, so after a rerun it does not find a padded row
  of a drawn set and refuses; the readiness script accepts a short
  `validation_tuning.jsonl`, training a short `formal_train.jsonl`.
* In `tools/build_final_pretraining_gate.py` the overlap of ids between splits is
  initialised and never computed, `question_gold_sql_hash_overlap` compares a key
  its rows do not have, and the lock names the commit "PENDING_FINAL_COMMIT".

Smaller differences: `docs/REWARD_DESIGN.md`
lines 20 and 31 say malformed output is negative and duplicate tags are never
executed, but `extract_fallback_sql` salvages bare SQL (and SQL beside refused
tags), worth up to +0.80; `rewards/base.py` lines 6-8 put the positives at +0.05
each, the code gives execution +0.10; the docstring of the executor and
`docs/SAFETY.md` speak of spawned workers, and POSIX systems fork.

## Proofs

Every safety property of the passing runs is proved for all values of the constants,
from the named assumptions beside
their declarations: sizes are positive, candidates and completions are drawn from
their kinds, null values are not values, a shuffle gives no two rows one place, a
calibration file is finite. Each proof module has one shape: an
inductive invariant, a lemma that `Next` preserves it with one step for each action,
and theorems that read a property off it.

* `ExecutorInv`: the parent's position says what may be known of the worker
  (`ParentInv`: in "get" it is dead and unsignalled), the clock's readings are
  ordered (`ClockInv`), and the payload is allowed for the statement
  (`PayloadInv`). `TimeoutIsEarned` is not inductive alone: it needs that a signal
  is sent, and a timeout put into the queue, only after their deadlines.
  `ExecutorKeepsPromise` is the refinement: each action maps to an abstract step or to
  none. `DeliveryInv` follows the payload from the queue's buffer to the pipe: a worker that
  exits by itself has joined its feeder, so a parent that finds it gone and unsignalled finds
  the whole report (`TheWorkerReportsBack`), and its receive, which has no timeout, returns
  (`ReceiveDoesNotBlock`, without kills from outside or with payloads of one write: the other
  case does block, see above).
* `DistillationInv`: what a process remembers is what the file says
  (`MemoryInv`), which is what makes `KeysUnique` inductive; a run that continues
  an output does so under the manifest's fingerprint (`HistoryInv`); examples behind the
  loop are covered (`LoopInv`), which gives `CompletedMeansCovered`; the slots before
  the current one are recorded, which gives a retry the record it answers. For
  `RetryAnswersPrevious` it is strengthened by `BeginningInv` (until another run continues it,
  an output is of one fingerprint, so the first line the lookup finds is of the right prompt
  version) and `OwnRecordsInv` (what a run has recorded
  belongs to examples up to its current one, and none of it is verified for the example
  it still generates for, so it never calls its own verified query wrong).
* `RewardInv`: a cache entry was computed from the contents its key names
  (`CacheInv`), and a trace is the function of its parts that `Total` and `KindOf`
  say, with the entry still cached (`TraceInv`). Reproducibility follows since an
  entry, once written, is never written over.
* `GrpoInv`: `DirInv` ties the identity to what lies in the directory, `StepInv`
  the checkpoint to the trainer's step, both to logged batches, and the two status files to
  the runs that wrote them.
* `SplitsInv`: `FileInv` says that what is in the two files the gate reads never goes
  beyond what was last drawn, cut or not, and what is in any split file beyond the
  lock while it is in force; `PlanInv` ties each step of the gate to the files it has
  written. `TrainedInv`, inductive on top of these, says what a training command saw. A gate
  that counts as many rows as it expects therefore has them all, which
  needs the cardinality of finite sets: it is why `GateKeepsSelection` holds although
  the gate destroys its input.
* `DrawsAreStratified` is about the draw itself, for every pool, shuffle and size. The place
  of a row in the round robin is the number of rows earlier in it; `RankIsPlace` shows that
  this numbers the pool from zero without gaps, hence the size (`DrawHasSize`), and
  since the earlier rows of a database are drawn before its later ones, a database a row
  ahead of another would have taken its turn (`DrawIsEven`). The proof that no database is
  left out failed at first: the model drew the formal set by its size alone, and a size below
  the number of databases leaves some out; the code does not, because of its first round.
* `SftInv`: `TargetsInv` follows a target to every place it may get to, the dataset,
  the trainers, checkpoints and adapters. `PairingInv` says that the
  ids of the pairing are solved, and what is solved stays so since the output only grows
  (`SolvedStays`): this is `PairedGoldIsSolved`, whatever file the arm reads.
  `RunsInv` says a run belongs to one arm, which has an adapter once its trainer
  succeeded.
* `ModelExport!Inv` (in its proof module): the process holds the last run (`RunsInv`),
  no status says PASS for a run before its own (`StatusInv`), nobody else writes the
  merged directory between merge and load (`WeightsInv`), and the samples taken in the
  second reading are allowed and no more than `max_calibration_samples` (`CleanInv`).

Termination. That a call or a run ends is a liveness property and stays with TLC, under the
fairness above. Its safe half is proved: a measure in the natural numbers, written beside each
specification (`StepsLeft`), that every step makes smaller, so that no behaviour of one call
or one run goes on for ever. `EveryCallRunsDown` is about one call of the executor, with time
among its steps (the model's clock stops a tick after the last deadline anything is
compared with); `EveryRunRunsDown` about a run of the pipeline and of GRPO, whatever is on
disk, refused, killed or answered. What fairness adds is only that a step is taken while one is
possible. No invariant beyond the ones above is needed: the bounds of the loop counters
keep the measures natural.

Left to TLC: liveness (`CallReturns`, `RunEnds`), that is, that a step is always possible and
taken, which TLAPS does not reach; and the counterexamples.

## Plan

Done, in this order: what executes untrusted SQL, what survives a kill, what everything
else is measured by; then the splits, fine-tuning and the export. What could follow:

1. `ResultEquivalence`: comparison of values and rows (`sql/verifier.py`), against
   a reference bag and order comparison; where the tolerance is an equivalence and
   where not. Theorems: a verdict "equivalent" implies equal shape; two empty
   results are never strict.
2. `GrpoGates` and `Evaluation`: `evaluate_grpo_gates`, error buckets and metrics as
   functions, with an order of precedence checked against a reference.
3. `GoldAudit` (`tools/`), `ServingBenchmark`: worker pools, retries, the sampler.
4. `PromptRows`, `StopAfterSqlClose`: token budget and stopping, as functions on
   short sequences.
5. Proofs about the modules above, and `SignalIsReal` for a directory that one process wrote
   alone, which is where it should hold.

## Not modelled

The libraries (SQLite, sqlglot, TRL, LLaMA-Factory, GPTQModel, vLLM) beyond what
their callers see; text (prompts, messages, reports); hashes; several processes in one
directory at once, about which the code and its documents promise nothing (two
quantizations that merge into the shared directory at the same time would mix their
weights); the reports of `data/leakage.py`, `audit.py` and `protocol_lock.py`, which
decide nothing; the generation diagnostic, which only runs the model; and
the components the plan lists, until they are reached.
