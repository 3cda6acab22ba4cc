--------------------------- MODULE GrpoRunProofs ----------------------------
(***************************************************************************)
(* Proofs about GrpoRun, for every number of steps, save interval, batch   *)
(* size and set of configurations.                                         *)
(***************************************************************************)
EXTENDS GrpoRun, TLAPS

USE StepsAssumption, ConfigAssumption DEF statuses

\* What a call of the logger appends is a batch, and nothing else changes.
LEMMA LoggedBatch ==
  ASSUME GrpoInv, NEW n \in 0 .. Width, NEW rewards \in SUBSET Reward,
         Logged(n, rewards), pc = "loop", step < MaxSteps
  PROVE  /\ samples' \in Seq(Batch)
         /\ Len(samples') = Len(samples) + 1
         /\ \A i \in Lines : i \in Lines' /\ samples'[i] = samples[i]
         /\ \A i \in Lines' : i \in Lines \/ i = Len(samples) + 1
         /\ samples'[Len(samples) + 1].config = args.config
         /\ samples'[Len(samples) + 1].count = n
         /\ samples'[Len(samples) + 1].first = step + 1
<1> DEFINE batch == [group |-> calls + 1, count |-> n, rewards |-> rewards,
                     config |-> args.config, run |-> invocation, first |-> step + 1]
<1>1. batch \in Batch
  BY DEF GrpoInv, TypeOK, DirInv, Batch, Args
<1>2. samples' = Append(samples, batch) /\ samples \in Seq(Batch)
  BY DEF Logged, GrpoInv, TypeOK
<1>3. samples' \in Seq(Batch) /\ Len(samples') = Len(samples) + 1
  BY <1>1, <1>2
<1>4. \A i \in 1 .. Len(samples) : samples'[i] = samples[i]
  BY <1>1, <1>2
<1>5. samples'[Len(samples) + 1] = batch
  BY <1>1, <1>2
<1>6. Lines = 1 .. Len(samples) /\ Lines' = 1 .. Len(samples) + 1 /\ Len(samples) \in Nat
  BY <1>2, <1>3 DEF Lines
<1>7. QED
  BY <1>3, <1>4, <1>5, <1>6

\* A step that keeps the lines of the sample file keeps what was trained on them.
LEMMA TrainedOnKept ==
  ASSUME NEW s, TrainedOn(s), \A i \in Lines : i \in Lines' /\ samples'[i] = samples[i]
  PROVE  TrainedOn(s)'
  BY DEF TrainedOn

\* A process that ends, leaving a checkpoint that was trained, keeps the invariant.
LEMMA EndKeepsInv ==
  ASSUME GrpoInv, pc # "idle", Ends,
         UNCHANGED <<identity, samples>>,
         used' \in BOOLEAN, used => used',
         checkpoint' \in 0 .. MaxSteps, whole' \in BOOLEAN, torn' \in BOOLEAN,
         inSmoke' = inSmoke, status' \in Status, smoke' \in Status, inSmoke => smoke' = status',
         identity = NoConfig => checkpoint' = 0,
         \A s \in 1 .. checkpoint' : TrainedOn(s),
         PassMeansTrained'
  PROVE  GrpoInv'
<1>1. TypeOK'
  BY DEF GrpoInv, TypeOK, Ends, At
<1>2. DirInv'
  BY DEF GrpoInv, TypeOK, DirInv, Ends, OneConfigPerDirectory, Lines
<1>3. StepsAreLogged'
  BY DEF StepsAreLogged, TrainedOn, Lines
<1>4. ~Training'
  BY DEF Ends, Training
<1>5. StepInv'
  BY <1>3, <1>4 DEF StepInv, Ends
<1>6. QED
  BY <1>1, <1>2, <1>5 DEF GrpoInv

\* A process that ends and leaves the directory as it is keeps the invariant.
LEMMA QuietEndKeepsInv ==
  ASSUME GrpoInv, pc # "idle", Ends, UNCHANGED dir
  PROVE  GrpoInv'
<1>1. PassMeansTrained'
  BY DEF GrpoInv, StepInv, PassMeansTrained, dir
<1>2. QED
  BY <1>1, EndKeepsInv DEF GrpoInv, TypeOK, DirInv, StepInv, StepsAreLogged, dir
-----------------------------------------------------------------------------
\* A process that writes a status keeps the two files one where they are one.
LEMMA StatusWritten ==
  ASSUME GrpoInv, NEW s \in Status, WriteStatus(s) \/ WriteSmoke(s)
  PROVE  /\ inSmoke' = inSmoke /\ status' \in Status /\ smoke' \in Status
         /\ inSmoke => smoke' = status'
         /\ status' \in {status, s} /\ smoke' \in {smoke, s}
         /\ status' = status \/ inSmoke \/ WriteStatus(s)
  BY DEF GrpoInv, TypeOK, DirInv, WriteStatus, WriteSmoke

\* What a status file may say.
LEMMA StatusTypes ==
  /\ \A s \in {"none", "DRY_RUN", "BLOCKED", "GRPO_SMOKE_OOM"} :
       Says(s) \in Status /\ Says(s) # Pass /\ Says(s) # PassOfAnother
  /\ Pass \in Status /\ PassOfAnother \in Status /\ Pass # PassOfAnother
  BY DEF Says, Pass, PassOfAnother, Status

\* A status that is not a PASS keeps what a PASS means.
LEMMA NoPassWritten ==
  ASSUME GrpoInv, NEW s \in {"DRY_RUN", "BLOCKED", "GRPO_SMOKE_OOM"}, WriteStatus(Says(s)),
         pc # "idle", Ends, UNCHANGED <<used, identity, checkpoint, whole, samples, torn>>
  PROVE  GrpoInv'
<1>1. /\ inSmoke' = inSmoke /\ status' \in Status /\ smoke' \in Status
      /\ inSmoke => smoke' = status'
      /\ status' = Says(s) /\ smoke' \in {smoke, Says(s)}
  BY StatusWritten, StatusTypes DEF WriteStatus
<1>2. PassMeansTrained'
  BY <1>1, StatusTypes DEF GrpoInv, StepInv, PassMeansTrained
<1>3. QED
  BY <1>1, <1>2, EndKeepsInv DEF GrpoInv, TypeOK, DirInv, StepInv, StepsAreLogged
-----------------------------------------------------------------------------
\* A process that is past _ensure_run_dir works in a directory of its own identity.
LEMMA PastEnsure ==
  ASSUME GrpoInv, pc \notin {"idle", "ensure"}
  PROVE  used /\ identity = args.config /\ identity # NoConfig
  BY DEF GrpoInv, TypeOK, DirInv, Args

LEMMA InitInv == Init => GrpoInv
<1> SUFFICES ASSUME Init PROVE GrpoInv
  OBVIOUS
<1>1. samples \in Seq(Batch) /\ Lines = {}
  BY DEF Init, Lines
<1>2. TypeOK
  <2>1. args \in Args
    BY DEF Init
  <2>2. 0 \in 0 .. MaxSteps /\ 0 \in 0 .. Lifetime /\ 0 \in 0 .. MaxInvocations /\ 0 \in Nat
    OBVIOUS
  <2>3. QED
    BY <1>1, <2>1, <2>2, StatusTypes DEF Init, TypeOK, At
<1>3. DirInv
  BY <1>1 DEF Init, DirInv, OneConfigPerDirectory
<1>4. StepInv
  BY StatusTypes DEF Init, StepInv, Training, StepsAreLogged, PassMeansTrained
<1>5. QED
  BY <1>2, <1>3, <1>4 DEF GrpoInv

LEMMA NextInv == GrpoInv /\ [Next]_vars => GrpoInv'
<1> SUFFICES ASSUME GrpoInv, [Next]_vars PROVE GrpoInv'
  OBVIOUS
<1> USE DEF GrpoInv
<1>1. CASE Invoke
  <2>1. TypeOK'
    BY <1>1 DEF Invoke, TypeOK, dir, At
  <2>2. DirInv'
    BY <1>1 DEF Invoke, TypeOK, DirInv, dir, OneConfigPerDirectory, Lines
  <2>3. StepInv'
    BY <1>1 DEF Invoke, StepInv, dir, Training, StepsAreLogged, PassMeansTrained, TrainedOn, Lines
  <2>4. QED
    BY <2>1, <2>2, <2>3
<1>2. CASE EnsureRunDir
  <2>1. TypeOK'
    BY <1>2 DEF EnsureRunDir, Continue, TypeOK, At, Args
  <2>2. DirInv'
    BY <1>2 DEF EnsureRunDir, Continue, MayUse, TypeOK, DirInv, OneConfigPerDirectory, Lines
  <2>3. StepInv'
    BY <1>2 DEF EnsureRunDir, Continue, StepInv, Training, StepsAreLogged, PassMeansTrained,
                TrainedOn, Lines
  <2>4. QED
    BY <2>1, <2>2, <2>3
<1>3. CASE RefuseRunDir
  BY <1>3, QuietEndKeepsInv DEF RefuseRunDir
<1>4. CASE KilledInIdentity
  <2>1. /\ pc # "idle" /\ Ends /\ used' = TRUE
        /\ UNCHANGED <<identity, checkpoint, whole, samples, torn, statuses>>
    BY <1>4 DEF KilledInIdentity
  <2>2. PassMeansTrained'
    BY <2>1 DEF StepInv, PassMeansTrained
  <2>3. QED
    BY <2>1, <2>2, EndKeepsInv DEF TypeOK, DirInv, StepInv, StepsAreLogged
<1>5. CASE DryRun
  BY <1>5, NoPassWritten DEF DryRun
<1>6. CASE Snapshot
  <2>1. TypeOK'
    BY <1>6 DEF Snapshot, Continue, TypeOK, At, dir
  <2>2. DirInv'
    BY <1>6 DEF Snapshot, Continue, TypeOK, DirInv, dir, OneConfigPerDirectory, Lines
  <2>3. StepInv'
    BY <1>6 DEF Snapshot, Continue, StepInv, dir, Training, StepsAreLogged, PassMeansTrained,
                TrainedOn, Lines
  <2>4. QED
    BY <2>1, <2>2, <2>3
<1>7. CASE RecordBlocked
  BY <1>7, NoPassWritten DEF RecordBlocked
<1>8. CASE Initialize
  <2>1. TypeOK'
    BY <1>8 DEF Initialize, Continue, TypeOK, At, dir
  <2>2. DirInv'
    BY <1>8 DEF Initialize, Continue, TypeOK, DirInv, dir, OneConfigPerDirectory, Lines
  <2>3. StepInv'
    BY <1>8 DEF Initialize, Continue, StepInv, dir, Training, StepsAreLogged, PassMeansTrained,
                TrainedOn, Lines
  <2>4. QED
    BY <2>1, <2>2, <2>3
<1>9. CASE ResumeTraining
  <2>1. /\ pc = "resume" /\ pc' = "loop" /\ left = 0 /\ left' = 0 /\ step' = checkpoint
        /\ checkpoint > 0 => whole
        /\ UNCHANGED <<dir, args, calls, invocation>>
    BY <1>9 DEF ResumeTraining, Continue, DirInv, StepInv, TypeOK, Training
  <2>2. TypeOK'
    BY <2>1 DEF TypeOK, At, dir
  <2>3. DirInv'
    BY <2>1 DEF TypeOK, DirInv, dir, OneConfigPerDirectory, Lines
  <2>4. \A s \in 1 .. checkpoint : TrainedOn(s)'
    BY <2>1 DEF StepInv, StepsAreLogged, TrainedOn, Lines, dir
  <2>5. PassMeansTrained'
    BY <2>1 DEF StepInv, PassMeansTrained, dir
  <2>6. StepsAreLogged'
    BY <2>1, <2>4 DEF StepsAreLogged, dir
  <2>7. step' + 1 .. step' + left' = {}
    BY <2>1, <2>2 DEF TypeOK
  <2>8. StepInv'
    BY <2>1, <2>2, <2>4, <2>5, <2>6, <2>7 DEF StepInv, Training, dir, TypeOK
  <2>9. QED
    BY <2>2, <2>3, <2>8
<1>10. CASE RefuseResume
  BY <1>10, QuietEndKeepsInv DEF RefuseResume
<1>11. CASE RewardCall
  <2>1. /\ pc = "loop" /\ step < MaxSteps /\ left = 0 /\ left' = Lifetime /\ calls' = calls + 1
        /\ UNCHANGED <<used, identity, checkpoint, whole, torn, statuses, pc, args, step, invocation>>
    BY <1>11 DEF RewardCall, NeedsBatch
  <2>2. PICK rewards \in SUBSET Reward : Logged(Width, rewards)
    BY <1>11 DEF RewardCall, RewardsOf
  <2>3. Width \in 0 .. Width
    OBVIOUS
  <2> DEFINE new == Len(samples) + 1
  <2>4. /\ samples' \in Seq(Batch)
        /\ Len(samples') = new
        /\ \A i \in Lines : i \in Lines' /\ samples'[i] = samples[i]
        /\ \A i \in Lines' : i \in Lines \/ i = new
        /\ samples'[new].config = args.config
        /\ samples'[new].count = Width
        /\ samples'[new].first = step + 1
    BY <2>1, <2>2, <2>3, LoggedBatch
  <2>5. TypeOK'
    BY <2>1, <2>4 DEF TypeOK
  <2>6. DirInv'
    <3>1. used /\ identity = args.config /\ identity # NoConfig
      BY <2>1, PastEnsure
    <3>2. OneConfigPerDirectory'
      BY <2>1, <2>4, <3>1 DEF DirInv, OneConfigPerDirectory
    <3>3. QED
      BY <2>1, <3>1, <3>2 DEF DirInv
  <2>7. new \in Lines'
    BY <2>4 DEF Lines, TypeOK
  <2>8. \A s \in step + 1 .. step + Lifetime : TrainedOn(s)'
    BY <2>4, <2>7, <2>1 DEF TrainedOn, TypeOK
  <2>9. \A s : TrainedOn(s) => TrainedOn(s)'
    BY <2>4, TrainedOnKept
  <2>10. StepsAreLogged' /\ PassMeansTrained'
    BY <2>1, <2>9 DEF StepInv, StepsAreLogged, PassMeansTrained
  <2>11. \A s \in 1 .. step' : TrainedOn(s)'
    BY <2>1, <2>9 DEF StepInv, Training
  <2>12. \A s \in step' + 1 .. step' + left' : TrainedOn(s)'
    BY <2>1, <2>8
  <2>13. StepInv'
    BY <2>1, <2>10, <2>11, <2>12 DEF StepInv, Training
  <2>14. QED
    BY <2>5, <2>6, <2>13
<1>12. CASE KilledInAppend
  <2>1. /\ pc = "loop" /\ step < MaxSteps /\ torn' \in BOOLEAN /\ Ends
        /\ UNCHANGED <<used, identity, checkpoint, whole, statuses>>
    BY <1>12 DEF KilledInAppend, NeedsBatch, TypeOK
  <2>2. PICK n \in 0 .. Width - 1, rewards \in SUBSET Reward : Logged(n, rewards)
    BY <1>12 DEF KilledInAppend, RewardsOf
  <2>3. n \in 0 .. Width
    OBVIOUS
  <2> DEFINE new == Len(samples) + 1
  <2>4. /\ samples' \in Seq(Batch)
        /\ \A i \in Lines : i \in Lines' /\ samples'[i] = samples[i]
        /\ \A i \in Lines' : i \in Lines \/ i = new
        /\ samples'[new].config = args.config
    BY <2>1, <2>2, <2>3, LoggedBatch
  <2>5. TypeOK'
    BY <2>1, <2>4 DEF TypeOK, Ends, At
  <2>6. DirInv'
    <3>1. used /\ identity = args.config /\ identity # NoConfig
      BY <2>1, PastEnsure
    <3>2. OneConfigPerDirectory'
      BY <2>1, <2>4, <3>1 DEF DirInv, OneConfigPerDirectory
    <3>3. QED
      BY <2>1, <3>1, <3>2 DEF DirInv, Ends
  <2>7. checkpoint < MaxSteps
    BY <2>1 DEF StepInv, Training, TypeOK
  <2>8. Pass \notin {status, smoke}
    BY <2>7 DEF StepInv, PassMeansTrained
  <2>9. \A s : TrainedOn(s) => TrainedOn(s)'
    BY <2>4, TrainedOnKept
  <2>10. StepsAreLogged'
    BY <2>1, <2>9 DEF StepInv, StepsAreLogged
  <2>11. PassMeansTrained'
    BY <2>1, <2>8 DEF StepInv, PassMeansTrained
  <2>12. StepInv'
    BY <2>1, <2>10, <2>11 DEF StepInv, Training, Ends
  <2>13. QED
    BY <2>5, <2>6, <2>12
<1>13. CASE OptimizerStep
  <2>1. /\ pc = "loop" /\ step < MaxSteps /\ left > 0 /\ step' = step + 1 /\ left' = left - 1
        /\ pc' \in {"save", "loop"}
        /\ pc' = "loop" => step' # MaxSteps
        /\ UNCHANGED <<dir, args, calls, invocation>>
    BY <1>13 DEF OptimizerStep
  <2>2. TypeOK'
    BY <2>1 DEF TypeOK, At, dir
  <2>3. DirInv'
    BY <2>1 DEF TypeOK, DirInv, dir, OneConfigPerDirectory, Lines
  <2>4. \A s : TrainedOn(s)' <=> TrainedOn(s)
    BY <2>1 DEF TrainedOn, Lines, dir
  <2>5. StepsAreLogged' /\ PassMeansTrained'
    BY <2>1, <2>4 DEF StepInv, StepsAreLogged, PassMeansTrained, dir
  <2>6. \A s \in 1 .. step' : TrainedOn(s)'
    <3>1. \A s \in 1 .. step' : s \in 1 .. step \/ s \in step + 1 .. step + left
      BY <2>1 DEF TypeOK
    <3>2. QED
      BY <3>1, <2>1, <2>4 DEF StepInv, Training
  <2>7. \A s \in step' + 1 .. step' + left' : TrainedOn(s)'
    <3>1. \A s \in step' + 1 .. step' + left' : s \in step + 1 .. step + left
      BY <2>1 DEF TypeOK
    <3>2. QED
      BY <3>1, <2>1, <2>4 DEF StepInv, Training
  <2>8. checkpoint' < step' /\ (checkpoint' > 0 => whole')
    BY <2>1 DEF StepInv, Training, TypeOK, dir
  <2>9. StepInv'
    BY <2>1, <2>2, <2>5, <2>6, <2>7, <2>8 DEF StepInv, Training, TypeOK
  <2>10. QED
    BY <2>2, <2>3, <2>9
<1>14. CASE Save
  <2>1. /\ pc = "save" /\ pc' = "loop" /\ checkpoint' = step /\ whole' = TRUE
        /\ UNCHANGED <<used, identity, samples, torn, statuses, step, left, args, calls, invocation>>
    BY <1>14 DEF Save, Continue
  <2>2. TypeOK'
    BY <2>1 DEF TypeOK, At
  <2>3. DirInv'
    <3>1. used /\ identity = args.config /\ identity # NoConfig
      BY <2>1, PastEnsure
    <3>2. QED
      BY <2>1, <3>1 DEF DirInv, OneConfigPerDirectory, Lines
  <2>4. \A s : TrainedOn(s)' <=> TrainedOn(s)
    BY <2>1 DEF TrainedOn, Lines
  <2>5. StepsAreLogged'
    BY <2>1, <2>4 DEF StepInv, StepsAreLogged, Training
  <2>6. checkpoint < MaxSteps
    BY <2>1 DEF StepInv, TypeOK
  <2>7. PassMeansTrained'
    BY <2>1, <2>6 DEF StepInv, PassMeansTrained
  <2>8. StepInv'
    BY <2>1, <2>2, <2>4, <2>5, <2>7 DEF StepInv, Training, TypeOK
  <2>9. QED
    BY <2>2, <2>3, <2>8
<1>15. CASE KilledInSave
  <2>1. /\ pc = "save" /\ checkpoint' = step /\ whole' = FALSE /\ Ends
        /\ UNCHANGED <<used, identity, samples, torn, statuses>>
    BY <1>15 DEF KilledInSave
  <2>2. checkpoint < MaxSteps /\ \A s \in 1 .. step : TrainedOn(s)
    BY <2>1 DEF StepInv, TypeOK, Training
  <2>3. PassMeansTrained'
    BY <2>1, <2>2 DEF StepInv, PassMeansTrained
  <2>4. identity # NoConfig
    BY <2>1 DEF DirInv, TypeOK, Args
  <2>5. QED
    BY <2>1, <2>2, <2>3, <2>4, EndKeepsInv DEF TypeOK, DirInv
<1>16. CASE OutOfMemory
  BY <1>16, NoPassWritten DEF OutOfMemory
<1>17. CASE Finish
  <2>1. /\ pc = "loop" /\ step = MaxSteps /\ checkpoint = MaxSteps /\ whole
        /\ UNCHANGED <<used, identity, checkpoint, whole, samples, torn>>
    BY <1>17 DEF Finish, StepInv, Training
  <2>2. CASE torn
    BY <1>17, <2>1, <2>2, QuietEndKeepsInv DEF Finish, dir
  <2>3. CASE ~torn
    <3>1. /\ WriteStatus(Pass) /\ pc' = "record"
          /\ UNCHANGED <<args, step, left, calls, invocation>>
      BY <1>17, <2>3 DEF Finish, Continue
    <3>2. /\ inSmoke' = inSmoke /\ status' \in Status /\ smoke' \in Status
          /\ inSmoke => smoke' = status'
          /\ status' = Pass /\ smoke' \in {smoke, Pass}
      BY <3>1, StatusWritten, StatusTypes DEF WriteStatus
    <3>3. TypeOK'
      BY <2>1, <3>1, <3>2 DEF TypeOK, At
    <3>4. DirInv'
      BY <2>1, <3>1, <3>2 DEF DirInv, OneConfigPerDirectory, Lines
    <3>5. PassMeansTrained'
      BY <2>1, <2>3, <3>2, StatusTypes DEF PassMeansTrained
    <3>6. StepsAreLogged'
      BY <2>1 DEF StepInv, StepsAreLogged, TrainedOn, Lines
    <3>7. StepInv'
      BY <2>1, <2>3, <3>1, <3>5, <3>6 DEF StepInv, Training
    <3>8. QED
      BY <3>3, <3>4, <3>7
  <2>4. QED
    BY <2>2, <2>3
<1>18. CASE Killed
  BY <1>18, QuietEndKeepsInv DEF Killed
<1>19. CASE RecordStatus
  <2>1. /\ pc = "record" /\ Ends
        /\ UNCHANGED <<used, identity, checkpoint, whole, samples, torn>>
        /\ checkpoint = MaxSteps /\ whole /\ ~torn
    BY <1>19 DEF RecordStatus, StepInv
  <2>2. CASE UNCHANGED statuses
    BY <2>1, <2>2, QuietEndKeepsInv DEF dir
  <2>3. CASE WriteSmoke(Pass)
    <3>1. /\ inSmoke' = inSmoke /\ status' \in Status /\ smoke' \in Status
          /\ inSmoke => smoke' = status'
          /\ status' \in {status, Pass}
      BY <2>3, StatusWritten, StatusTypes
    <3>2. PassMeansTrained'
      BY <2>1, <3>1, StatusTypes DEF StepInv, PassMeansTrained
    <3>3. QED
      BY <2>1, <3>1, <3>2, EndKeepsInv DEF TypeOK, DirInv, StepInv, StepsAreLogged
  <2>4. QED
    BY <1>19, <2>2, <2>3 DEF RecordStatus
<1>20. CASE AnotherPasses
  <2>1. /\ WriteSmoke(PassOfAnother) /\ used' = (used \/ inSmoke)
        /\ UNCHANGED <<identity, checkpoint, whole, samples, torn>>
        /\ UNCHANGED <<pc, args, step, left, calls, invocation>>
    BY <1>20 DEF AnotherPasses, process
  <2>2. /\ inSmoke' = inSmoke /\ status' \in Status /\ smoke' \in Status
        /\ inSmoke => smoke' = status'
        /\ smoke' = PassOfAnother
        /\ status' = IF inSmoke THEN PassOfAnother ELSE status
    BY <2>1, StatusWritten, StatusTypes DEF WriteSmoke
  <2>3. TypeOK'
    BY <2>1, <2>2 DEF TypeOK
  <2>4. DirInv'
    BY <2>1, <2>2 DEF TypeOK, DirInv, OneConfigPerDirectory, Lines
  <2>5. PassMeansTrained'
    BY <2>1, <2>2, StatusTypes DEF StepInv, PassMeansTrained
  <2>6. StepsAreLogged' /\ \A s : TrainedOn(s)' <=> TrainedOn(s)
    BY <2>1 DEF StepInv, StepsAreLogged, TrainedOn, Lines
  <2>7. StepInv'
    BY <2>1, <2>5, <2>6 DEF StepInv, Training
  <2>8. QED
    BY <2>3, <2>4, <2>7
<1>21. CASE UNCHANGED vars
  <2>1. TypeOK'
    BY <1>21 DEF TypeOK, vars, process, dir
  <2>2. DirInv'
    BY <1>21 DEF DirInv, vars, process, dir, OneConfigPerDirectory, Lines
  <2>3. StepInv'
    BY <1>21 DEF StepInv, vars, process, dir, Training, StepsAreLogged, PassMeansTrained, TrainedOn, Lines
  <2>4. QED
    BY <2>1, <2>2, <2>3
<1>22. QED
  BY <1>1, <1>2, <1>3, <1>4, <1>5, <1>6, <1>7, <1>8, <1>9, <1>10, <1>11, <1>12, <1>13,
     <1>14, <1>15, <1>16, <1>17, <1>18, <1>19, <1>20, <1>21 DEF Next, Step, Fault, Stopped

\* The invariant holds in every reachable state.
THEOREM GrpoInvariance == Spec => []GrpoInv
  BY InitInv, NextInv, PTL DEF Spec

\* Every variable keeps its type.
THEOREM GrpoTypeCorrect == Spec => []TypeOK
<1>1. GrpoInv => TypeOK
  BY DEF GrpoInv
<1>2. QED
  BY <1>1, GrpoInvariance, PTL

\* The rewards in a directory come from one configuration.
THEOREM DirectoryHasOneConfig == Spec => []OneConfigPerDirectory
<1>1. GrpoInv => OneConfigPerDirectory
  BY DEF GrpoInv, DirInv
<1>2. QED
  BY <1>1, GrpoInvariance, PTL

\* Every step in a checkpoint was trained on logged completions.
THEOREM CheckpointsAreLogged == Spec => []StepsAreLogged
<1>1. GrpoInv => StepsAreLogged
  BY DEF GrpoInv, StepInv
<1>2. QED
  BY <1>1, GrpoInvariance, PTL

\* A pass is said only of a directory that was trained to the end.
THEOREM PassIsTrained == Spec => []PassMeansTrained
<1>1. GrpoInv => PassMeansTrained
  BY DEF GrpoInv, StepInv
<1>2. QED
  BY <1>1, GrpoInvariance, PTL

\* No run goes back behind a checkpoint.
THEOREM CheckpointsOnlyAdvance == Spec => CheckpointAdvances
<1>1. GrpoInv /\ [Next]_vars => [checkpoint' >= checkpoint]_vars
  <2> SUFFICES ASSUME GrpoInv, Next PROVE checkpoint' >= checkpoint
    OBVIOUS
  <2>1. CASE Save \/ KilledInSave
    BY <2>1 DEF Save, KilledInSave, Continue, GrpoInv, StepInv, TypeOK
  <2>2. CASE checkpoint' = checkpoint
    BY <2>2 DEF GrpoInv, TypeOK
  <2>3. Save \/ KilledInSave \/ checkpoint' = checkpoint
    BY DEF Next, Step, Fault, Invoke, EnsureRunDir, RefuseRunDir, DryRun, Snapshot, Initialize,
           ResumeTraining, RefuseResume, RewardCall, OptimizerStep, Finish, KilledInIdentity,
           RecordBlocked, KilledInAppend, OutOfMemory, Killed, RecordStatus, AnotherPasses, Stopped, vars, process, dir
  <2>4. QED
    BY <2>1, <2>2, <2>3
<1>2. QED
  BY <1>1, GrpoInvariance, PTL DEF Spec, CheckpointAdvances
-----------------------------------------------------------------------------
(***************************************************************************)
(* Every step of a run leaves fewer to come.                               *)
(***************************************************************************)
LEMMA StepsLeftType == TypeOK => TrainingLeft \in Nat /\ StepsLeft \in Nat
<1> SUFFICES ASSUME TypeOK PROVE TrainingLeft \in Nat /\ StepsLeft \in Nat
  OBVIOUS
<1>1. MaxSteps \in Nat /\ step \in 0 .. MaxSteps /\ pc \in At
  BY StepsAssumption DEF TypeOK
<1>2. TrainingLeft \in Nat
  BY <1>1 DEF TrainingLeft
<1>3. QED
  BY <1>1, <1>2 DEF StepsLeft, At

\* The number of steps a run has left is natural and falls with each of them: the part
\* of RunEnds that no fairness is needed for (grpo_backend.py 451-846).
THEOREM EveryRunRunsDown == Spec => [](StepsLeft \in Nat) /\ RunRunsDown
<1>1. ASSUME GrpoInv, Next, pc # "idle", ~UNCHANGED process
      PROVE  StepsLeft' < StepsLeft
  <2>1. /\ MaxSteps \in Nat /\ Lifetime \in Nat \ {0} /\ TypeOK
        /\ step \in 0 .. MaxSteps /\ left \in 0 .. Lifetime /\ pc \in At
        /\ checkpoint \in 0 .. MaxSteps
    BY <1>1, StepsAssumption DEF GrpoInv, TypeOK
  <2>2. TrainingLeft \in Nat
    BY <2>1, StepsLeftType
  <2>3. CASE pc' = "idle"
    BY <1>1, <2>1, <2>2, <2>3 DEF StepsLeft, At
  <2>4. CASE EnsureRunDir
    BY <2>1, <2>4 DEF EnsureRunDir, Continue, StepsLeft
  <2>5. CASE Snapshot
    BY <2>1, <2>5 DEF Snapshot, Continue, StepsLeft
  <2>6. CASE Initialize
    BY <2>1, <2>6 DEF Initialize, Continue, StepsLeft
  <2>7. CASE ResumeTraining
    <3>1. /\ pc = "resume" /\ pc' = "loop" /\ step' \in 0 .. MaxSteps
      BY <2>1, <2>7 DEF ResumeTraining, Continue
    <3>2. PICK d \in {0, 1} : TrainingLeft' = 3 * (MaxSteps - step') + d
      BY DEF TrainingLeft
    <3>3. StepsLeft' = 2 + (3 * (MaxSteps - step') + d) /\ StepsLeft = 4 + 3 * MaxSteps
      BY <3>1, <3>2 DEF StepsLeft
    <3>4. \A m, s \in Nat : s <= m => 2 + (3 * (m - s) + d) < 4 + 3 * m
      OBVIOUS
    <3>5. MaxSteps \in Nat /\ step' \in Nat /\ step' <= MaxSteps
      BY <2>1, <3>1
    <3>6. 2 + (3 * (MaxSteps - step') + d) < 4 + 3 * MaxSteps
      BY <3>4, <3>5, Zenon
    <3>7. QED
      BY <3>3, <3>6
  <2>8. CASE RewardCall
    <3>1. /\ pc = "loop" /\ pc' = "loop" /\ step' = step /\ left = 0 /\ left' # 0
      BY <2>1, <2>8 DEF RewardCall, NeedsBatch
    <3>2. TrainingLeft' < TrainingLeft
      BY <2>1, <3>1 DEF TrainingLeft
    <3>3. TrainingLeft' \in Int
      BY <2>1, <3>1 DEF TrainingLeft
    <3>4. StepsLeft' = 2 + TrainingLeft' /\ StepsLeft = 2 + TrainingLeft
      BY <3>1 DEF StepsLeft
    <3>5. \A a, b \in Int : b < a => 2 + b < 2 + a
      OBVIOUS
    <3>6. TrainingLeft \in Int
      BY <2>2
    <3>7. 2 + TrainingLeft' < 2 + TrainingLeft
      BY <3>2, <3>3, <3>5, <3>6, Zenon
    <3>8. QED
      BY <3>4, <3>7
  <2>9. CASE OptimizerStep
    <3>1. /\ pc = "loop" /\ pc' \in {"loop", "save"} /\ step' = step + 1 /\ left # 0
      BY <2>1, <2>9 DEF OptimizerStep
    <3>2. PICK d \in {0, 1} : TrainingLeft' = 3 * (MaxSteps - step') + d
      BY DEF TrainingLeft
    <3>3. PICK e \in {2, 3} : StepsLeft' = e + (3 * (MaxSteps - (step + 1)) + d)
      BY <3>1, <3>2 DEF StepsLeft
    <3>4. StepsLeft = 2 + 3 * (MaxSteps - step)
      <4>1. TrainingLeft = 3 * (MaxSteps - step)
        BY <2>1, <3>1 DEF TrainingLeft
      <4>2. QED
        BY <3>1, <4>1 DEF StepsLeft
    <3>5. \A m, s \in Int : e + (3 * (m - (s + 1)) + d) < 2 + 3 * (m - s)
      OBVIOUS
    <3>6. e + (3 * (MaxSteps - (step + 1)) + d) < 2 + 3 * (MaxSteps - step)
      BY <2>1, <3>5
    <3>7. QED
      BY <3>3, <3>4, <3>6
  <2>10. CASE Save
    <3>1. pc = "save" /\ pc' = "loop" /\ step' = step /\ left' = left
      BY <2>10 DEF Save, Continue
    <3>2. TrainingLeft' = TrainingLeft
      BY <3>1 DEF TrainingLeft
    <3>3. QED
      BY <2>2, <3>1, <3>2 DEF StepsLeft
  <2>11. CASE Finish
    <3>1. pc = "loop" /\ pc' \in {"idle", "record"}
      BY <2>11 DEF Finish, Ends, Continue
    <3>2. StepsLeft' \in {0, 1} /\ StepsLeft = 2 + TrainingLeft
      BY <3>1 DEF StepsLeft
    <3>3. QED
      BY <2>2, <3>2
  <2>12. CASE RefuseRunDir \/ DryRun \/ RefuseResume \/ RecordStatus \/ Fault
    BY <2>3, <2>12 DEF RefuseRunDir, DryRun, RefuseResume, RecordStatus, Fault, KilledInIdentity,
       RecordBlocked, KilledInAppend, KilledInSave, OutOfMemory, Killed, Ends
  <2>13. QED
    BY <1>1, <2>4, <2>5, <2>6, <2>7, <2>8, <2>9, <2>10, <2>11, <2>12
    DEF Next, Step, Invoke, AnotherPasses, Stopped, vars
<1>2. GrpoInv => StepsLeft \in Nat
  BY StepsLeftType DEF GrpoInv
<1>3. GrpoInv /\ [Next]_vars => [pc # "idle" => StepsLeft' < StepsLeft]_process
  BY <1>1 DEF vars
<1>4. QED
  BY <1>2, <1>3, GrpoInvariance, PTL DEF Spec, RunRunsDown
=============================================================================
