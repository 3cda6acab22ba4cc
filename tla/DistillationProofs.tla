------------------------- MODULE DistillationProofs -------------------------
(***************************************************************************)
(* DistillationInv is inductive: whatever the number of examples, attempts *)
(* and fingerprints, and however often runs are killed and resumed.        *)
(***************************************************************************)
EXTENDS Distillation, FiniteSetTheorems, SequenceTheorems, WellFoundedInduction, TLAPS

(***************************************************************************)
(* Sets and sequences.                                                     *)
(***************************************************************************)
\* A set of naturals has a least element: the first matching line exists.
LEMMA MinExists ==
  ASSUME NEW T \in SUBSET Nat, T # {}
  PROVE  \E m \in T : \A n \in T : m <= n
  <1>1. PICK m \in T : \A n \in T : ~(<<n, m>> \in OpToRel(<, Nat))
    BY NatLessThanWellFounded, WFMin
  <1>2. \A n \in T : ~(n < m)
    BY <1>1 DEF OpToRel
  <1>. QED BY <1>2

\* The keys a run finds completed are at most as many as the lines it read.
LEMMA KeysBound ==
  ASSUME output \in Seq(Record), NEW fp
  PROVE  /\ IsFiniteSet(CompletedKeys(fp))
         /\ Cardinality(CompletedKeys(fp)) \in Nat
         /\ Cardinality(CompletedKeys(fp)) <= Len(output)
  <1>. DEFINE J == {j \in Lines : PromptOf[output[j].fp] = PromptOf[fp]}
              f == [i \in J |-> <<output[i].example, output[i].candidate_index>>]
  <1>1. Lines = 1 .. Len(output) /\ Len(output) \in Nat
    BY DEF Lines
  <1>2. IsFiniteSet(Lines) /\ Cardinality(Lines) = Len(output)
    BY <1>1, FS_Interval
  <1>3. IsFiniteSet(J) /\ Cardinality(J) <= Len(output)
    BY <1>2, FS_Subset
  <1>4. f \in Surjection(J, CompletedKeys(fp))
    BY DEF Surjection, CompletedKeys
  <1>5. IsFiniteSet(CompletedKeys(fp)) /\ Cardinality(CompletedKeys(fp)) <= Cardinality(J)
    BY <1>3, <1>4, FS_Surjection
  <1>. QED BY <1>1, <1>3, <1>5, FS_CardinalityType

\* Whatever the fingerprint, a run has slots, and their numbers are candidate indices.
LEMMA SlotsType ==
  ASSUME NEW fp \in Fingerprint
  PROVE  SlotsOf(fp) \in Nat \ {0} /\ 0 .. SlotsOf(fp) - 1 \subseteq Index
  BY SizeAssumption DEF SlotsOf, Index

LEMMA RunSlots == TypeOK => args.fp \in Fingerprint /\ Slots \in Nat \ {0} /\ 0 .. Slots - 1 \subseteq Index
  BY SlotsType DEF TypeOK, Args, Slots

\* Verifying one more example never takes the target away.
LEMMA TargetGrows ==
  ASSUME NEW fp \in Fingerprint,
         NEW S \in SUBSET Example, NEW T \in SUBSET Example, S \subseteq T,
         TargetReached(fp, Cardinality(S))
  PROVE  TargetReached(fp, Cardinality(T))
  <1>0. IsFiniteSet(Example)
    BY FS_Interval, SizeAssumption DEF Example
  <1>1. IsFiniteSet(T)
    BY <1>0, FS_Subset
  <1>2. Cardinality(S) <= Cardinality(T) /\ Cardinality(S) \in Nat /\ Cardinality(T) \in Nat
    BY <1>1, FS_Subset, FS_CardinalityType
  <1>. QED BY <1>2, SizeAssumption DEF TargetReached
-----------------------------------------------------------------------------
(***************************************************************************)
(* One more record.                                                        *)
(***************************************************************************)
\* The feedback of a retry answers the reason of some record, or there is none.
LEMMA FeedbackType == Feedback \in Told \cup {"none"}
  BY DEF Feedback, FeedbackFor, Told

\* What appending does to the lines.
LEMMA AppendLines ==
  ASSUME output \in Seq(Record), NEW r \in Record, output' = Append(output, r)
  PROVE  /\ output' \in Seq(Record) /\ output' # <<>>
         /\ Len(output') = Len(output) + 1 /\ Len(output) \in Nat
         /\ Lines = 1 .. Len(output) /\ Lines' = 1 .. Len(output) + 1
         /\ \A i \in Lines : output'[i] = output[i]
         /\ output'[Len(output) + 1] = r
  BY AppendProperties DEF Lines

\* What it does to the keys and to the verified examples.
LEMMA AppendSets ==
  ASSUME output \in Seq(Record), NEW r \in Record, output' = Append(output, r)
  PROVE  /\ VerifiedExamples' = VerifiedExamples
              \cup {e \in {r.example} : r.execution_equivalent}
         /\ \A fp : CompletedKeys(fp)' = CompletedKeys(fp)
              \cup {k \in {<<r.example, r.candidate_index>>} : PromptOf[r.fp] = PromptOf[fp]}
  <1>1. VerifiedExamples' = VerifiedExamples
              \cup {e \in {r.example} : r.execution_equivalent}
    BY AppendLines DEF VerifiedExamples
  <1>2. ASSUME NEW fp
        PROVE  CompletedKeys(fp)' = CompletedKeys(fp)
              \cup {k \in {<<r.example, r.candidate_index>>} : PromptOf[r.fp] = PromptOf[fp]}
    BY AppendLines DEF CompletedKeys
  <1>. QED BY <1>1, <1>2

\* The conjuncts that only speak of the files survive every append the pipeline
\* makes, complete or not.
LEMMA AppendKeepsFiles ==
  ASSUME DistillationInv, Generating, NEW reason \in Reason, NEW equivalent \in BOOLEAN,
         output' = Append(output, NewRecord(reason, equivalent)), present' = TRUE,
         UNCHANGED <<manifest, progress, args, invocation>>
  PROVE  /\ output' \in Seq(Record)
         /\ KeysUnique' /\ ProgressNotAhead' /\ CompletedMeansCovered'
         /\ ~present' => output' = <<>>
         /\ \A i \in Lines' : output'[i].run \in output'[1].run .. invocation'
         /\ \A i \in Lines' : output'[i].resumed => output'[i].run # output'[1].run
         /\ Continues' => manifest # NoManifest /\ manifest.fp = args.fp
         /\ ResumedRecordsMatchManifest'
         /\ VerifiedExamples' = VerifiedExamples \cup {e \in {example} : equivalent}
         /\ CompletedKeys(args.fp)' = CompletedKeys(args.fp) \cup {<<example, slot>>}
         /\ VerifiedExamples' \subseteq Example
  <1>. DEFINE r == NewRecord(reason, equivalent)
  <1>. USE DEF DistillationInv
  <1>1. /\ example \in Example /\ slot \in Index /\ args \in Args /\ args.fp \in Fingerprint
        /\ invocation \in 0 .. MaxInvocations /\ MaxInvocations \in Nat
        /\ output \in Seq(Record)
    <2>1. slot \in 0 .. Slots /\ slot < Slots /\ Slots \in Nat /\ 0 .. Slots - 1 \subseteq Index
      BY RunSlots DEF TypeOK, Generating
    <2>2. slot \in Index
      BY <2>1
    <2>. QED BY <2>2, SizeAssumption DEF TypeOK, Args
  <1>2. r \in Record
    <2>1. invocation \in 1 .. MaxInvocations
      BY <1>1 DEF HistoryInv, Generating
    <2>2. Feedback \in Told \cup {"none"} /\ Continues \in BOOLEAN
      BY FeedbackType DEF Continues
    <2>. QED BY <1>1, <2>1, <2>2 DEF NewRecord, Record
  <1>3. /\ r.example = example /\ r.candidate_index = slot /\ r.fp = args.fp
        /\ r.run = invocation /\ r.resumed = Continues /\ r.retry_reason = reason
        /\ r.execution_equivalent = equivalent
    BY DEF NewRecord
  <1>. HIDE DEF r
  <1>4. output' = Append(output, r)
    BY DEF r
  <1>5. /\ output' \in Seq(Record) /\ output' # <<>> /\ Len(output') = Len(output) + 1
        /\ Len(output) \in Nat /\ Lines = 1 .. Len(output) /\ Lines' = 1 .. Len(output) + 1
        /\ \A i \in Lines : output'[i] = output[i]
        /\ output'[Len(output) + 1] = r
    BY <1>1, <1>2, <1>4, AppendLines
  <1>6. KeysUnique'
    <2>1. Running
      BY DEF Generating, Running
    <2>2. \A i \in Lines : PromptOf[output[i].fp] = PromptOf[args.fp] =>
            <<output[i].example, output[i].candidate_index>> # <<example, slot>>
      BY <2>1 DEF MemoryInv, CompletedKeys, Generating
    <2>. QED BY <1>3, <1>5, <2>2 DEF KeysUnique
  <1>7. ProgressNotAhead'
    BY <1>5 DEF ProgressNotAhead, TypeOK, Progress
  <1>8. VerifiedExamples \subseteq VerifiedExamples' /\ VerifiedExamples' \subseteq Example
    <2>1. \A i \in Lines' : output'[i] \in Record
      BY <1>5
    <2>2. \A i \in Lines' : output'[i].example \in Example
      BY <2>1 DEF Record
    <2>3. VerifiedExamples' \subseteq Example
      BY <2>2 DEF VerifiedExamples
    <2>4. VerifiedExamples \subseteq VerifiedExamples'
      BY <1>1, <1>2, <1>4, AppendSets
    <2>. QED BY <2>3, <2>4
  <1>9. \A fp : CompletedKeys(fp) \subseteq CompletedKeys(fp)'
    BY <1>1, <1>2, <1>4, AppendSets
  <1>10. CompletedMeansCovered'
    <2>. SUFFICES ASSUME manifest.status = "COMPLETED"
                  PROVE  CompletedMeansCovered'
      BY DEF CompletedMeansCovered
    <2>0. manifest.fp \in Fingerprint /\ UNCHANGED manifest
      BY DEF TypeOK, Manifest, NoManifest
    <2>1. TargetReached(manifest.fp, Cardinality(VerifiedExamples))
            => TargetReached(manifest.fp, Cardinality(VerifiedExamples'))
      <3>. HIDE DEF DistillationInv
      <3>. QED BY <1>8, <2>0, TargetGrows
    <2>. QED BY <1>8, <1>9, <2>0, <2>1 DEF CompletedMeansCovered, LoopInv, TargetReached
  <1>11. \A i \in Lines : output[i].run \in Nat
    <2>1. \A i \in Lines : output[i] \in Record
      BY <1>1, <1>5
    <2>2. \A i \in Lines : output[i].run \in 1 .. MaxInvocations
      BY <2>1 DEF Record
    <2>. QED BY <1>1, <2>2
  <1>12. \A i \in Lines' : output'[i].run \in output'[1].run .. invocation'
    <2>1. CASE output = <<>>
      BY <1>1, <1>3, <1>5, <2>1
    <2>2. CASE output # <<>>
      <3>1. 1 \in Lines /\ output'[1] = output[1]
        BY <1>5, <2>2
      <3>2. output[1].run \in output[1].run .. invocation
        BY <3>1 DEF HistoryInv
      <3>3. output'[1].run <= invocation /\ output'[1].run \in Nat
        BY <1>11, <3>1, <3>2
      <3>. QED BY <1>1, <1>3, <1>5, <3>1, <3>3 DEF HistoryInv
    <2>. QED BY <2>1, <2>2
  <1>13. \A i \in Lines' : output'[i].resumed => output'[i].run # output'[1].run
    <2>1. CASE output = <<>>
      <3>1. ~Continues /\ Len(output) = 0
        BY <2>1 DEF Continues
      <3>2. Lines' = {1} /\ ~output'[1].resumed
        BY <1>3, <1>5, <3>1
      <3>. QED BY <3>2
    <2>2. CASE output # <<>>
      <3>1. 1 \in Lines /\ output'[1] = output[1]
        BY <1>5, <2>2
      <3>2. \A i \in Lines : output'[i].resumed => output'[i].run # output'[1].run
        BY <1>5, <3>1 DEF HistoryInv
      <3>3. r.resumed => r.run # output'[1].run
        BY <1>3, <3>1 DEF Continues
      <3>. QED BY <1>5, <3>2, <3>3
    <2>. QED BY <2>1, <2>2
  <1>14. Continues' => Continues
    BY <1>3, <1>5 DEF Continues
  <1>15. Continues => manifest # NoManifest /\ manifest.fp = args.fp
    BY DEF HistoryInv, Generating, Running
  <1>16. ResumedRecordsMatchManifest'
    BY <1>3, <1>5, <1>15 DEF HistoryInv, ResumedRecordsMatchManifest
  <1>17. VerifiedExamples' = VerifiedExamples \cup {e \in {example} : equivalent}
    BY <1>1, <1>2, <1>3, <1>4, AppendSets
  <1>18. CompletedKeys(args.fp)' = CompletedKeys(args.fp) \cup {<<example, slot>>}
    BY <1>1, <1>2, <1>3, <1>4, AppendSets
  <1>. QED BY <1>8, <1>17, <1>18, <1>5, <1>6, <1>7, <1>10, <1>12, <1>13, <1>14, <1>15, <1>16
-----------------------------------------------------------------------------
(***************************************************************************)
(* The invariant.                                                          *)
(***************************************************************************)
LEMMA InvInit == Init => DistillationInv
  <1>. SUFFICES ASSUME Init PROVE DistillationInv
    OBVIOUS
  <1>0. Lines = {} /\ Len(output) = 0
    BY DEF Init, Lines
  <1>1. TypeOK
    <2>1. args.fp \in Fingerprint /\ Slots \in Nat \ {0}
      BY SlotsType DEF Slots, Init, Args
    <2>2. output \in Seq(Record) /\ present \in BOOLEAN /\ tail \in TailState
      <3>1. output \in Seq(Record)
        BY DEF Init
      <3>. QED BY <3>1 DEF Init, TailState
    <2>3. manifest \in Manifest \cup {NoManifest} /\ progress \in Progress
      BY SizeAssumption DEF Init, NoProgress, Progress
    <2>4. pc \in At /\ args \in Args /\ outcome \in Outcome
      BY DEF Init, At, Outcome
    <2>5. completed \subseteq Example \X Index /\ verified \subseteq Example
      BY DEF Init
    <2>6. gold \in [Example -> Gold]
      BY DEF Init, Gold
    <2>7. example \in Example /\ slot \in 0 .. Slots /\ invocation \in 0 .. MaxInvocations
      BY <2>1, SizeAssumption DEF Init, Example
    <2>. QED BY <2>2, <2>3, <2>4, <2>5, <2>6, <2>7 DEF TypeOK
  <1>2. KeysUnique /\ ProgressNotAhead
    BY <1>0 DEF Init, KeysUnique, ProgressNotAhead, NoProgress
  <1>3. MemoryInv /\ HistoryInv /\ LoopInv
    BY <1>0 DEF Init, MemoryInv, HistoryInv, LoopInv, Running, Looping, Continues,
                ResumedRecordsMatchManifest, CompletedMeansCovered, NoManifest
  <1>. QED BY <1>1, <1>2, <1>3 DEF DistillationInv

\* Ending a run, however it ends, leaves the invariant to what the files say.
LEMMA EndsKeepsInv ==
  ASSUME DistillationInv, NEW how \in Outcome, Ends(how),
         output' \in Seq(Record), present' \in BOOLEAN, tail' \in TailState,
         manifest' \in Manifest \cup {NoManifest}, UNCHANGED progress,
         ~present' => output' = <<>>, KeysUnique', ProgressNotAhead', CompletedMeansCovered',
         \A i \in Lines' : output'[i].run \in output'[1].run .. invocation',
         \A i \in Lines' : output'[i].resumed => output'[i].run # output'[1].run,
         ResumedRecordsMatchManifest'
  PROVE  DistillationInv'
  <1>. USE DEF DistillationInv, Ends
  <1>1. TypeOK'
    <2>1. 1 \in Example /\ 0 \in 0 .. Slots /\ UNCHANGED Slots
      BY RunSlots, SizeAssumption DEF Example, Slots, SlotsOf
    <2>2. gold' \in [Example -> Gold]
      BY DEF Gold
    <2>. QED BY <2>1, <2>2 DEF TypeOK, At
  <1>2. MemoryInv' /\ HistoryInv' /\ LoopInv'
    BY DEF MemoryInv, HistoryInv, LoopInv, Running, Looping
  <1>. QED BY <1>1, <1>2

\* A run that ends without touching the files.
LEMMA QuietEndKeepsInv ==
  ASSUME DistillationInv, NEW how \in Outcome, Ends(how), UNCHANGED disk
  PROVE  DistillationInv'
  <1>. USE DEF DistillationInv, disk, Slots
  <1>1. UNCHANGED <<Lines, VerifiedExamples>> /\ \A fp : UNCHANGED CompletedKeys(fp)
    BY DEF Lines, VerifiedExamples, CompletedKeys
  <1>2. /\ output' \in Seq(Record) /\ present' \in BOOLEAN /\ tail' \in TailState
        /\ manifest' \in Manifest \cup {NoManifest}
    BY DEF TypeOK
  <1>3. ~present' => output' = <<>>
    BY DEF MemoryInv
  <1>4. KeysUnique' /\ ProgressNotAhead' /\ CompletedMeansCovered'
    BY <1>1 DEF KeysUnique, ProgressNotAhead, CompletedMeansCovered, LoopInv
  <1>5. /\ \A i \in Lines' : output'[i].run \in output'[1].run .. invocation'
        /\ \A i \in Lines' : output'[i].resumed => output'[i].run # output'[1].run
        /\ ResumedRecordsMatchManifest'
    BY <1>1 DEF HistoryInv, ResumedRecordsMatchManifest, Ends
  <1>. QED BY <1>2, <1>3, <1>4, <1>5, EndsKeepsInv

\* Every action preserves the invariant.
LEMMA InvNext == DistillationInv /\ [Next]_vars => DistillationInv'
  <1>. SUFFICES ASSUME DistillationInv, [Next]_vars PROVE DistillationInv'
    OBVIOUS
  <1>. USE DEF DistillationInv, disk, Slots
  <1>0. /\ Slots \in Nat \ {0} /\ NumExamples \in Nat \ {0} /\ MaxInvocations \in Nat
        /\ output \in Seq(Record)
    BY SizeAssumption, RunSlots DEF TypeOK
  <1>. DEFINE FilesKept == UNCHANGED output /\ UNCHANGED present /\ UNCHANGED invocation
  <1>1. ASSUME FilesKept
        PROVE  /\ UNCHANGED <<Lines, VerifiedExamples>> /\ \A fp : UNCHANGED CompletedKeys(fp)
               /\ KeysUnique'
               /\ ~present' => output' = <<>>
               /\ \A i \in Lines' : output'[i].run \in output'[1].run .. invocation'
               /\ \A i \in Lines' : output'[i].resumed => output'[i].run # output'[1].run
               /\ UNCHANGED progress => ProgressNotAhead'
               /\ UNCHANGED manifest => ResumedRecordsMatchManifest' /\ CompletedMeansCovered'
    <2>1. UNCHANGED <<Lines, VerifiedExamples>> /\ \A fp : UNCHANGED CompletedKeys(fp)
      BY <1>1 DEF Lines, VerifiedExamples, CompletedKeys
    <2>2. KeysUnique' /\ (UNCHANGED progress => ProgressNotAhead')
      BY <1>1, <2>1 DEF KeysUnique, ProgressNotAhead
    <2>3. /\ ~present' => output' = <<>>
          /\ \A i \in Lines' : output'[i].run \in output'[1].run .. invocation'
          /\ \A i \in Lines' : output'[i].resumed => output'[i].run # output'[1].run
      BY <1>1, <2>1 DEF MemoryInv, HistoryInv
    <2>4. UNCHANGED manifest => ResumedRecordsMatchManifest' /\ CompletedMeansCovered'
      BY <1>1, <2>1 DEF HistoryInv, LoopInv, ResumedRecordsMatchManifest, CompletedMeansCovered
    <2>. QED BY <2>1, <2>2, <2>3, <2>4
  <1>2. CASE Invoke
    <2>0. slot' \in 0 .. Slots'
      <3>1. args'.fp \in Fingerprint /\ slot' = 0
        BY <1>2 DEF Invoke, Args, LoopInv
      <3>. QED BY <3>1, SlotsType DEF Slots
    <2>1. TypeOK'
      BY <1>0, <1>2, <2>0 DEF Invoke, TypeOK, At, Outcome
    <2>2. \A i \in Lines' : output'[i].run \in output'[1].run .. invocation'
      BY <1>2 DEF Invoke, HistoryInv, TypeOK, Lines
    <2>3. UNCHANGED <<Lines, VerifiedExamples>> /\ \A fp : UNCHANGED CompletedKeys(fp)
      BY <1>2 DEF Invoke, Lines, VerifiedExamples, CompletedKeys
    <2>4. KeysUnique' /\ ProgressNotAhead' /\ ResumedRecordsMatchManifest' /\ CompletedMeansCovered'
      BY <1>2, <2>3 DEF Invoke, KeysUnique, ProgressNotAhead, HistoryInv, LoopInv,
                        ResumedRecordsMatchManifest, CompletedMeansCovered
    <2>5. MemoryInv' /\ HistoryInv' /\ LoopInv'
      BY <1>2, <2>2, <2>3, <2>4, <1>0
         DEF Invoke, MemoryInv, HistoryInv, LoopInv, Running, Looping, TypeOK
    <2>. QED BY <2>1, <2>4, <2>5
  <1>3. CASE Load
    <2>1. FilesKept /\ UNCHANGED progress /\ UNCHANGED manifest /\ UNCHANGED args
      BY <1>3 DEF Load
    <2>2. completed' = CompletedKeys(args.fp) /\ verified' = VerifiedExamples
      BY <1>3 DEF Load
    <2>3. \A i \in Lines : output[i] \in Record
      BY <1>0 DEF Lines
    <2>4. completed' \subseteq Example \X Index /\ verified' \subseteq Example
      BY <2>2, <2>3 DEF CompletedKeys, VerifiedExamples, Record
    <2>5. TypeOK'
      BY <1>3, <2>1, <2>4 DEF Load, TypeOK, At
    <2>6. MemoryInv'
      BY <1>1, <2>1, <2>2, <1>3 DEF MemoryInv, Load
    <2>7. output # <<>> => manifest # NoManifest /\ manifest.fp = args.fp
      BY <1>3 DEF Load, Refusal, MemoryInv
    <2>8. HistoryInv' /\ LoopInv'
      BY <1>1, <1>3, <2>1, <2>7 DEF Load, HistoryInv, LoopInv, Looping, Running, Continues
    <2>. QED BY <1>1, <2>1, <2>5, <2>6, <2>8
  <1>4. CASE Refuse \/ DryRun \/ LookupRaises \/ Killed
    <2>1. PICK how \in Outcome : Ends(how) /\ UNCHANGED disk
      BY <1>4 DEF Refuse, DryRun, LookupRaises, Killed, Refusal, Outcome
    <2>. QED BY <2>1, QuietEndKeepsInv
  <1>5. CASE WriteManifest
    <2>1. FilesKept /\ UNCHANGED progress /\ UNCHANGED args
      BY <1>5 DEF WriteManifest
    <2>2. /\ manifest' # NoManifest /\ manifest' \in Manifest
          /\ manifest # NoManifest => manifest' = manifest
          /\ manifest = NoManifest => manifest'.status = "RUNNING"
      BY <1>5 DEF WriteManifest, NoManifest, Manifest, TypeOK, Args
    <2>3. TypeOK'
      BY <1>5, <2>2 DEF WriteManifest, TypeOK, At
    <2>4. ResumedRecordsMatchManifest' /\ CompletedMeansCovered'
      BY <1>1, <2>1, <2>2 DEF HistoryInv, LoopInv, ResumedRecordsMatchManifest,
                              CompletedMeansCovered
    <2>5. MemoryInv'
      BY <1>1, <1>5, <2>1 DEF WriteManifest, MemoryInv, Running
    <2>6. HistoryInv'
      BY <1>1, <1>5, <2>1, <2>2, <2>4 DEF WriteManifest, HistoryInv, Running, Looping, Continues
    <2>7. example' = 1 /\ slot' = 0
      BY <1>5 DEF WriteManifest, LoopInv
    <2>8. LoopInv'
      BY <1>1, <1>5, <2>1, <2>4, <2>7 DEF WriteManifest, LoopInv, Looping
    <2>. QED BY <1>1, <2>1, <2>3, <2>5, <2>6, <2>8
  <1>6. CASE Skip
    <2>1. FilesKept /\ UNCHANGED <<manifest, progress, args, example, completed, pc>>
      BY <1>6 DEF Skip
    <2>2. completed = CompletedKeys(args.fp)
      BY <1>6 DEF Skip, MemoryInv, Running
    <2>3. slot \in Nat /\ slot' = slot + 1 /\ slot' \in 0 .. Slots
      BY <1>0, <1>6 DEF Skip, TypeOK
    <2>4. TypeOK'
      BY <1>6, <2>3 DEF Skip, TypeOK
    <2>5. \A k \in 0 .. slot' - 1 : <<example, k>> \in CompletedKeys(args.fp)
      <3>1. \A k \in 0 .. slot' - 1 : k \in 0 .. slot - 1 \/ k = slot
        BY <2>3
      <3>. QED BY <3>1, <1>6, <2>2 DEF Skip, LoopInv
    <2>6. MemoryInv' /\ HistoryInv' /\ LoopInv'
      BY <1>1, <1>6, <2>1, <2>5
         DEF Skip, MemoryInv, HistoryInv, LoopInv, Running, Looping, Continues, Covered
    <2>. QED BY <1>1, <2>1, <2>4, <2>6
  <1>7. CASE SlotsExhausted
    <2>1. FilesKept /\ UNCHANGED <<manifest, progress, args, example, completed, verified, slot>>
      BY <1>7 DEF SlotsExhausted
    <2>2. TypeOK'
      BY <1>7 DEF SlotsExhausted, TypeOK, At
    <2>3. Covered(example)
      BY <1>0, <1>7 DEF SlotsExhausted, LoopInv, Covered
    <2>4. MemoryInv' /\ HistoryInv' /\ LoopInv'
      BY <1>1, <1>7, <2>1, <2>3 DEF SlotsExhausted, MemoryInv, HistoryInv, LoopInv, Running,
                                    Looping, Continues, Covered
    <2>. QED BY <1>1, <2>1, <2>2, <2>4
  <1>8. CASE KilledInAppend /\ UNCHANGED output
    <2>1. /\ UNCHANGED output /\ UNCHANGED invocation
          /\ Ends("killed") /\ UNCHANGED <<manifest, progress>> /\ present' = TRUE
          /\ tail' \in TailState
      BY <1>8 DEF KilledInAppend, Ends, TypeOK, TailState
    <2>2. UNCHANGED <<Lines, VerifiedExamples>> /\ \A fp : UNCHANGED CompletedKeys(fp)
      BY <1>8 DEF Lines, VerifiedExamples, CompletedKeys
    <2>3. KeysUnique' /\ ProgressNotAhead' /\ ResumedRecordsMatchManifest' /\ CompletedMeansCovered'
      BY <1>8, <2>1, <2>2 DEF KeysUnique, ProgressNotAhead, HistoryInv, LoopInv,
                              ResumedRecordsMatchManifest, CompletedMeansCovered
    <2>4. /\ \A i \in Lines' : output'[i].run \in output'[1].run .. invocation'
          /\ \A i \in Lines' : output'[i].resumed => output'[i].run # output'[1].run
      BY <1>8, <2>1, <2>2 DEF HistoryInv, Ends
    <2>5. output' \in Seq(Record) /\ manifest' \in Manifest \cup {NoManifest} /\ present' \in BOOLEAN
      BY <1>0, <1>8, <2>1 DEF TypeOK
    <2>6. "killed" \in Outcome
      BY DEF Outcome
    <2>. QED BY <2>1, <2>3, <2>4, <2>5, <2>6, EndsKeepsInv
  <1>9. \A c \in Candidate, g \in Gold : ReasonOf(c, g) \in Reason /\ Equivalent(c, g) \in BOOLEAN
    BY DEF ReasonOf, Reason, Equivalent
  <1>10. CASE KilledInAppend /\ ~UNCHANGED output
    <2>1. PICK reason \in Reason, equivalent \in BOOLEAN :
            output' = Append(output, NewRecord(reason, equivalent))
      BY <1>9, <1>10 DEF KilledInAppend
    <2>2. /\ Generating /\ present' = TRUE /\ tail' \in TailState /\ Ends("killed")
          /\ UNCHANGED <<manifest, progress, args, invocation>>
      BY <1>10 DEF KilledInAppend, TailState, TypeOK, Ends
    <2>3. "killed" \in Outcome /\ manifest' \in Manifest \cup {NoManifest}
      BY <2>2 DEF Outcome, TypeOK
    <2>. QED BY <2>1, <2>2, <2>3, AppendKeepsFiles, EndsKeepsInv
  <1>11. CASE Attempt
    <2>1. PICK c \in Candidate, g \in Gold :
            /\ gold' = [gold EXCEPT ![example] = g]
            /\ Appended(NewRecord(ReasonOf(c, g), Equivalent(c, g)))
            /\ IF Equivalent(c, g)
               THEN verified' = verified \cup {example} /\ pc' = "progress" /\ UNCHANGED slot
               ELSE slot' = slot + 1 /\ UNCHANGED <<verified, pc>>
      BY <1>11 DEF Attempt
    <2>. DEFINE reason == ReasonOf(c, g)
                equivalent == Equivalent(c, g)
    <2>2. reason \in Reason /\ equivalent \in BOOLEAN
      BY <1>9
    <2>. HIDE DEF reason, equivalent
    <2>3. /\ output' = Append(output, NewRecord(reason, equivalent)) /\ present' = TRUE
          /\ tail' \in TailState
          /\ IF equivalent
             THEN verified' = verified \cup {example} /\ pc' = "progress" /\ UNCHANGED slot
             ELSE slot' = slot + 1 /\ UNCHANGED <<verified, pc>>
      BY <2>1 DEF Appended, TypeOK, TailState, reason, equivalent
    <2>4. /\ Generating /\ completed' = completed \cup {<<example, slot>>}
          /\ UNCHANGED <<manifest, progress, args, example, invocation, outcome>>
      BY <1>11 DEF Attempt
    <2>5. /\ output' \in Seq(Record) /\ KeysUnique' /\ ProgressNotAhead' /\ CompletedMeansCovered'
          /\ \A i \in Lines' : output'[i].run \in output'[1].run .. invocation'
          /\ \A i \in Lines' : output'[i].resumed => output'[i].run # output'[1].run
          /\ Continues' => manifest # NoManifest /\ manifest.fp = args.fp
          /\ ResumedRecordsMatchManifest'
          /\ VerifiedExamples' = VerifiedExamples \cup {e \in {example} : equivalent}
          /\ CompletedKeys(args.fp)' = CompletedKeys(args.fp) \cup {<<example, slot>>}
          /\ VerifiedExamples' \subseteq Example
      BY <2>2, <2>3, <2>4, AppendKeepsFiles
    <2>6. /\ completed = CompletedKeys(args.fp) /\ verified = VerifiedExamples
          /\ slot \in 0 .. Slots - 1 /\ slot \in Index /\ slot \in Nat /\ example \in Example
      <3>1. slot \in 0 .. Slots - 1
        BY <1>0, <2>4 DEF Generating, TypeOK
      <3>2. slot \in Index
        BY <3>1, RunSlots
      <3>. QED BY <1>0, <2>4, <3>1, <3>2 DEF Generating, MemoryInv, Running, TypeOK
    <2>7. completed' = CompletedKeys(args.fp)' /\ verified' = VerifiedExamples'
      BY <2>3, <2>4, <2>5, <2>6
    <2>8. MemoryInv'
      BY <2>3, <2>4, <2>7 DEF MemoryInv
    <2>9. TypeOK'
      <3>1. gold' \in [Example -> Gold]
        BY <2>1 DEF TypeOK
      <3>2. completed' \subseteq Example \X Index /\ verified' \subseteq Example
        BY <2>4, <2>5, <2>6, <2>7 DEF TypeOK
      <3>3. pc' \in At /\ slot' \in 0 .. Slots
        BY <1>0, <2>3, <2>4, <2>6 DEF TypeOK, At, Slots
      <3>. QED BY <2>3, <2>4, <2>5, <3>1, <3>2, <3>3 DEF TypeOK
    <2>10. HistoryInv'
      BY <2>3, <2>4, <2>5 DEF HistoryInv, Generating, Looping
    <2>11. \A e \in 1 .. example - 1 : Covered(e)'
      BY <2>4, <2>5 DEF Generating, LoopInv, Looping, Covered, Slots
    <2>12. LoopInv'
      <3>1. CASE equivalent
        BY <2>3, <2>4, <2>5, <2>11, <3>1 DEF LoopInv, Looping, Covered
      <3>2. CASE ~equivalent
        <4>1. \A k \in 0 .. slot' - 1 : k \in 0 .. slot - 1 \/ k = slot
          BY <2>3, <2>6, <3>2
        <4>2. \A k \in 0 .. slot' - 1 : <<example, k>> \in CompletedKeys(args.fp)'
          BY <2>4, <2>5, <4>1 DEF Generating, LoopInv
        <4>. QED BY <2>3, <2>4, <2>5, <2>11, <3>2, <4>2 DEF LoopInv, Looping, Generating
      <3>. QED BY <3>1, <3>2
    <2>. QED BY <2>5, <2>8, <2>9, <2>10, <2>12
  <1>12. CASE WriteProgress
    <2>1. FilesKept /\ UNCHANGED <<manifest, args, completed, verified, gold>>
      BY <1>12 DEF WriteProgress
    <2>2. completed = CompletedKeys(args.fp) /\ verified = VerifiedExamples
      BY <1>12 DEF WriteProgress, MemoryInv, Running
    <2>3. Cardinality(completed) \in Nat /\ Cardinality(completed) <= Len(output)
      BY <1>0, <2>2, KeysBound
    <2>4. ProgressNotAhead' /\ progress' \in Progress
      BY <1>0, <1>12, <2>1, <2>3 DEF WriteProgress, ProgressNotAhead, Progress, TypeOK, Example
    <2>5. /\ pc' \in {"slot", "complete"} /\ example' \in Example /\ slot' \in 0 .. Slots
          /\ \A e \in 1 .. example' - 1 : e \in 1 .. example - 1 \/ e = example
      BY <1>0, <1>12 DEF WriteProgress, TypeOK, Example
    <2>6. TypeOK'
      BY <1>12, <2>4, <2>5 DEF WriteProgress, TypeOK, At
    <2>7. MemoryInv' /\ HistoryInv'
      BY <1>1, <1>12, <2>1, <2>2 DEF WriteProgress, MemoryInv, HistoryInv, Running, Looping,
                                     Continues
    <2>8. \A e \in 1 .. example' - 1 : Covered(e)'
      BY <1>1, <1>12, <2>1, <2>5 DEF WriteProgress, LoopInv, Looping, Covered
    <2>9. pc' = "slot" => slot' = 0
      BY <1>12 DEF WriteProgress
    <2>10. pc' = "complete" => /\ example' = example
                               /\ example = NumExamples \/ TargetReached(args.fp, Cardinality(VerifiedExamples))
      BY <1>12, <2>2 DEF WriteProgress
    <2>11. Covered(example)'
               \/ pc' # "complete"
      BY <1>1, <1>12, <2>1, <2>10 DEF WriteProgress, LoopInv, Covered
    <2>12. CompletedMeansCovered'
      BY <1>1, <2>1
    <2>13. LoopInv'
      <3>1. pc' = "slot" => \A k \in 0 .. slot' - 1 : <<example', k>> \in CompletedKeys(args.fp)'
        BY <2>9
      <3>. QED BY <1>1, <2>1, <2>5, <2>8, <2>10, <2>11, <2>12, <3>1 DEF LoopInv, Looping
    <2>. QED BY <1>1, <2>1, <2>4, <2>6, <2>7, <2>13
  <1>13. CASE Complete
    <2>1. /\ FilesKept /\ UNCHANGED <<progress, tail>> /\ Ends("completed")
          /\ manifest' = [status |-> "COMPLETED", fp |-> args.fp]
      BY <1>13 DEF Complete, Ends
    <2>2. manifest' \in Manifest /\ manifest' # NoManifest /\ manifest'.fp = args.fp
      BY <2>1 DEF TypeOK, Args, Manifest, NoManifest
    <2>3. Continues => manifest.fp = args.fp
      BY <1>13 DEF Complete, HistoryInv, Running
    <2>4. \A i \in Lines : output[i].resumed => Continues
      <3>1. \A i \in Lines : output[i] \in Record
        BY <1>0 DEF Lines
      <3>2. \A i \in Lines : output[i].run \in Nat
        BY <3>1, <1>0 DEF Record
      <3>3. Lines # {} => output # <<>> /\ 1 \in Lines
        BY <1>0 DEF Lines
      <3>4. invocation \in Nat
        BY <1>0 DEF TypeOK
      <3>. QED BY <3>2, <3>3, <3>4 DEF Continues, HistoryInv
    <2>5. ResumedRecordsMatchManifest'
      BY <1>1, <2>1, <2>2, <2>3, <2>4 DEF ResumedRecordsMatchManifest, HistoryInv
    <2>6. (\A e \in Example : Covered(e)) \/ TargetReached(args.fp, Cardinality(VerifiedExamples))
      <3>1. CASE example = NumExamples
        <4>1. \A e \in Example : e \in 1 .. example - 1 \/ e = example
          BY <1>0, <3>1 DEF Example
        <4>. QED BY <1>13, <4>1 DEF Complete, LoopInv, Looping
      <3>. QED BY <3>1, <1>13 DEF Complete, LoopInv
    <2>7. CompletedMeansCovered'
      BY <1>1, <2>1, <2>2, <2>6 DEF CompletedMeansCovered, Covered
    <2>8. output' \in Seq(Record) /\ tail' \in TailState /\ present' \in BOOLEAN /\ "completed" \in Outcome
      BY <1>0, <2>1 DEF TypeOK, Outcome
    <2>. QED BY <1>1, <2>1, <2>2, <2>5, <2>7, <2>8, EndsKeepsInv
  <1>14. CASE UNCHANGED vars
    <2>1. FilesKept /\ UNCHANGED <<manifest, progress, pc, args, completed, verified, gold,
                                   example, slot, tail, outcome>>
      BY <1>14 DEF vars, proc
    <2>2. TypeOK'
      BY <2>1 DEF TypeOK
    <2>3. MemoryInv' /\ HistoryInv' /\ LoopInv'
      BY <1>1, <2>1 DEF MemoryInv, HistoryInv, LoopInv, Running, Looping, Continues, Covered
    <2>. QED BY <1>1, <2>1, <2>2, <2>3
  <1>. QED BY <1>2, <1>3, <1>4, <1>5, <1>6, <1>7, <1>8, <1>10, <1>11, <1>12, <1>13, <1>14
           DEF Next, Step, Stopped

\* The invariant holds in every reachable state.
THEOREM Invariance == Spec => []DistillationInv
  BY InvInit, InvNext, PTL DEF Spec

\* Type correctness of the pipeline model, for every instance.
THEOREM TypeCorrect == Spec => []TypeOK
  <1>1. DistillationInv => TypeOK
    BY DEF DistillationInv
  <1>. QED BY <1>1, Invariance, PTL

\* No crash and no resume makes the output hold a candidate twice.
THEOREM NoDuplicateRecord == Spec => []KeysUnique
  <1>1. DistillationInv => KeysUnique
    BY DEF DistillationInv
  <1>. QED BY <1>1, Invariance, PTL

\* A resumed run only ever adds to an output under the manifest's fingerprint.
THEOREM ResumedRunsMatchManifest == Spec => []ResumedRecordsMatchManifest
  <1>1. DistillationInv => ResumedRecordsMatchManifest
    BY DEF DistillationInv, HistoryInv
  <1>. QED BY <1>1, Invariance, PTL

\* The progress file is never ahead of the output.
THEOREM ProgressIsHonest == Spec => []ProgressNotAhead
  <1>1. DistillationInv => ProgressNotAhead
    BY DEF DistillationInv
  <1>. QED BY <1>1, Invariance, PTL

\* A COMPLETED manifest tells the truth about coverage, whatever was killed and
\* resumed before.
THEOREM CompletedIsCovered == Spec => []CompletedMeansCovered
  <1>1. DistillationInv => CompletedMeansCovered
    BY DEF DistillationInv, LoopInv
  <1>. QED BY <1>1, Invariance, PTL
-----------------------------------------------------------------------------
(***************************************************************************)
(* The order of the attempts.                                              *)
(***************************************************************************)
\* The output is only ever appended to, and only while a candidate is generated.
LEMMA OutputSteps ==
  ASSUME DistillationInv, [Next]_vars
  PROVE  \/ UNCHANGED output
         \/ /\ Generating /\ UNCHANGED invocation
            /\ \E reason \in Reason, equivalent \in BOOLEAN :
                 /\ output' = Append(output, NewRecord(reason, equivalent))
                 /\ pc' = "slot" => example' = example /\ ~equivalent
                 /\ Looping' => example' = example
            /\ UNCHANGED args
  <1>1. \A c \in Candidate, g \in Gold : ReasonOf(c, g) \in Reason /\ Equivalent(c, g) \in BOOLEAN
    BY DEF ReasonOf, Reason, Equivalent
  <1>2. CASE Attempt
    <2>1. PICK c \in Candidate, g \in Gold :
            /\ Appended(NewRecord(ReasonOf(c, g), Equivalent(c, g)))
            /\ IF Equivalent(c, g) THEN pc' = "progress" ELSE UNCHANGED pc
      BY <1>2 DEF Attempt
    <2>2. Generating /\ UNCHANGED <<example, invocation, args>>
      BY <1>2 DEF Attempt
    <2>3. pc' = "slot" => ~Equivalent(c, g)
      BY <2>1
    <2>. QED BY <1>1, <2>1, <2>2, <2>3 DEF Appended
  <1>3. CASE KilledInAppend
    BY <1>1, <1>3 DEF KilledInAppend, Ends, Looping
  <1>4. CASE ~Attempt /\ ~KilledInAppend
    BY <1>4 DEF Next, Step, Stopped, Invoke, Load, Refuse, DryRun, WriteManifest, Skip,
                SlotsExhausted, LookupRaises, WriteProgress, Complete, Killed, Ends, disk, vars
  <1>. QED BY <1>2, <1>3, <1>4

\* The record that is appended.
LEMMA Appending ==
  ASSUME DistillationInv, Generating, NEW reason \in Reason, NEW equivalent \in BOOLEAN,
         output' = Append(output, NewRecord(reason, equivalent))
  PROVE  /\ Lines = 1 .. Len(output) /\ Lines' = 1 .. Len(output) + 1 /\ Len(output) \in Nat
         /\ \A i \in Lines : output'[i] = output[i]
         /\ output'[Len(output) + 1] =
              [example |-> example, candidate_index |-> slot, retry_reason |-> reason,
               execution_equivalent |-> equivalent, fp |-> args.fp, feedback |-> Feedback, run |-> invocation,
               resumed |-> Continues]
  <1>1. output \in Seq(Record)
    BY DEF DistillationInv, TypeOK
  <1>. QED BY <1>1, AppendProperties DEF Lines, NewRecord

\* A run that retries under the prompt version the output began with finds no record of
\* another one in it.
LEMMA OnePrompt ==
  ASSUME DistillationInv, BeginningInv, Generating, output # <<>>,
         PromptOf[args.fp] = PromptOf[output[1].fp], NEW i \in Lines
  PROVE  PromptOf[output[i].fp] = PromptOf[args.fp]
  <1>1. /\ output \in Seq(Record) /\ 1 \in Lines /\ invocation \in Nat
        /\ \A k \in Lines : output[k] \in Record
    BY DEF DistillationInv, TypeOK, Lines
  <1>2. \A k \in Lines : output[k].run \in Nat /\ output[k].run \in output[1].run .. invocation
    <2>1. \A k \in Lines : output[k].run \in 1 .. MaxInvocations
      BY <1>1 DEF Record
    <2>. QED BY <2>1, SizeAssumption DEF DistillationInv, HistoryInv
  <1>3. CASE Continues
    <2>1. manifest # NoManifest /\ manifest.fp = args.fp
      BY <1>3 DEF DistillationInv, HistoryInv, Generating, Running
    <2>2. output[i].resumed => output[i].fp = args.fp
      BY <2>1 DEF DistillationInv, HistoryInv, ResumedRecordsMatchManifest
    <2>. QED BY <2>2 DEF BeginningInv
  <1>4. CASE ~Continues
    <2>1. output[1].run = invocation /\ output[1].fp = args.fp
      BY <1>4 DEF Continues, BeginningInv, Generating
    <2>2. output[i].run = output[1].run
      BY <1>1, <1>2, <2>1
    <2>3. ~output[i].resumed
      BY <2>2 DEF DistillationInv, HistoryInv
    <2>. QED BY <2>1, <2>3 DEF BeginningInv
  <1>. QED BY <1>3, <1>4

\* The slots before this one are recorded, so there is a first record of the one
\* before, which the feedback answers.
LEMMA FeedbackAnswers ==
  ASSUME DistillationInv, OwnRecordsInv, BeginningInv, Generating, Adaptive(args.fp), slot > 0,
         PromptOf[args.fp] = PromptOf[output[1].fp]
  PROVE  \E j \in Lines :
           /\ output[j].example = example
           /\ output[j].candidate_index = slot - 1
           /\ PromptOf[output[j].fp] = PromptOf[args.fp]
           /\ Feedback = FeedbackFor(output[j].retry_reason)
           /\ output[j].execution_equivalent => output[j].run # invocation
  <1>1. slot - 1 \in 0 .. slot - 1 /\ slot \in Nat
    <2>1. slot \in 0 .. Slots /\ Slots \in Nat
      BY RunSlots DEF DistillationInv, TypeOK
    <2>. QED BY <2>1
  <1>2. <<example, slot - 1>> \in CompletedKeys(args.fp)
    BY <1>1 DEF DistillationInv, LoopInv, Generating
  <1>3. Previous # {}
    BY <1>2 DEF CompletedKeys, Previous
  <1>4. Previous \in SUBSET Nat
    BY DEF Previous, Lines, DistillationInv, TypeOK
  <1>5. \E i \in Previous : \A j \in Previous : i <= j
    BY <1>3, <1>4, MinExists
  <1>. DEFINE m == CHOOSE i \in Previous : \A j \in Previous : i <= j
  <1>6. m \in Previous
    BY <1>5
  <1>7. Feedback = FeedbackFor(output[m].retry_reason)
    BY <1>3 DEF Feedback
  <1>. HIDE DEF m
  <1>8. m \in Lines /\ output[m].example = example /\ output[m].candidate_index = slot - 1
    BY <1>6 DEF Previous
  <1>9. output # <<>>
    BY <1>8 DEF Lines
  <1>10. PromptOf[output[m].fp] = PromptOf[args.fp]
    BY <1>8, <1>9, OnePrompt
  <1>11. output[m].execution_equivalent => output[m].run # invocation
    BY <1>8 DEF OwnRecordsInv, Generating
  <1>. QED BY <1>7, <1>8, <1>10, <1>11

LEMMA RetryNext ==
  ASSUME DistillationInv, OwnRecordsInv, BeginningInv, RetryAnswersPrevious, [Next]_vars
  PROVE  RetryAnswersPrevious'
  <1>1. CASE UNCHANGED output
    BY <1>1 DEF RetryAnswersPrevious, Lines
  <1>2. CASE ~UNCHANGED output
    <2>1. PICK reason \in Reason, equivalent \in BOOLEAN :
            output' = Append(output, NewRecord(reason, equivalent))
      BY <1>2, OutputSteps
    <2>2. Generating
      BY <1>2, OutputSteps
    <2>3. /\ Lines = 1 .. Len(output) /\ Lines' = 1 .. Len(output) + 1 /\ Len(output) \in Nat
          /\ \A i \in Lines : output'[i] = output[i]
          /\ output'[Len(output) + 1] =
               [example |-> example, candidate_index |-> slot, retry_reason |-> reason,
                execution_equivalent |-> equivalent, fp |-> args.fp, feedback |-> Feedback,
                run |-> invocation, resumed |-> Continues]
      BY <2>1, <2>2, Appending
    <2>. DEFINE Answered(out, i) ==
                  \E j \in 1 .. i - 1 :
                    /\ out[j].example = out[i].example
                    /\ out[j].candidate_index = out[i].candidate_index - 1
                    /\ PromptOf[out[j].fp] = PromptOf[out[i].fp]
                    /\ out[i].feedback = FeedbackFor(out[j].retry_reason)
                    /\ out[j].execution_equivalent => out[j].run # out[i].run
    <2>4. ASSUME NEW i \in Lines, Adaptive(output'[i].fp), output'[i].candidate_index > 0,
                 PromptOf[output'[i].fp] = PromptOf[output'[1].fp]
          PROVE  Answered(output', i)
      <3>1. 1 \in Lines /\ output'[i] = output[i] /\ output'[1] = output[1]
        BY <2>3, <2>4
      <3>2. Answered(output, i)
        BY <2>4, <3>1 DEF RetryAnswersPrevious
      <3>3. \A j \in 1 .. i - 1 : output'[j] = output[j]
        BY <2>3, <2>4
      <3>. QED BY <3>1, <3>2, <3>3
    <2>5. ASSUME NEW i \in Lines', i = Len(output) + 1,
                 Adaptive(output'[i].fp), output'[i].candidate_index > 0,
                 PromptOf[output'[i].fp] = PromptOf[output'[1].fp]
          PROVE  Answered(output', i)
      <3>1. slot > 0 /\ output'[i].fp = args.fp /\ Adaptive(args.fp)
        BY <2>3, <2>5
      <3>2. 1 \in Lines
        <4>1. slot - 1 \in 0 .. slot - 1 /\ 0 \in 0 .. slot - 1
          <5>1. slot \in Nat
            BY RunSlots DEF DistillationInv, TypeOK
          <5>. QED BY <3>1, <5>1
        <4>2. <<example, slot - 1>> \in CompletedKeys(args.fp)
          BY <2>2, <4>1 DEF DistillationInv, LoopInv, Generating
        <4>. QED BY <2>3, <4>2 DEF CompletedKeys
      <3>3. PromptOf[args.fp] = PromptOf[output[1].fp]
        BY <2>3, <2>5, <3>1, <3>2
      <3>4. PICK j \in Lines :
              /\ output[j].example = example
              /\ output[j].candidate_index = slot - 1
              /\ PromptOf[output[j].fp] = PromptOf[args.fp]
              /\ Feedback = FeedbackFor(output[j].retry_reason)
              /\ output[j].execution_equivalent => output[j].run # invocation
        BY <2>2, <3>1, <3>3, FeedbackAnswers
      <3>5. j \in 1 .. i - 1 /\ output'[j] = output[j]
        BY <2>3, <2>5
      <3>. QED BY <2>3, <2>5, <3>4, <3>5
    <2>6. \A i \in Lines' : i \in Lines \/ i = Len(output) + 1
      BY <2>3
    <2>. QED BY <2>4, <2>5, <2>6 DEF RetryAnswersPrevious
  <1>. QED BY <1>1, <1>2

LEMMA BeginningNext ==
  ASSUME DistillationInv, BeginningInv, [Next]_vars
  PROVE  BeginningInv'
  <1>0. /\ output \in Seq(Record) /\ invocation \in Nat
        /\ output # <<>> => output[1].run \in Nat /\ output[1].run <= invocation
    <2>1. output \in Seq(Record) /\ invocation \in Nat
      BY SizeAssumption DEF DistillationInv, TypeOK
    <2>2. output # <<>> => 1 \in Lines /\ output[1] \in Record
      BY <2>1 DEF Lines
    <2>3. output # <<>> => output[1].run \in 1 .. MaxInvocations
      BY <2>2 DEF Record
    <2>4. output # <<>> => output[1].run \in output[1].run .. invocation
      BY <2>2 DEF DistillationInv, HistoryInv
    <2>. QED BY <2>1, <2>3, <2>4, SizeAssumption
  <1>1. CASE UNCHANGED output /\ Invoke
    BY <1>0, <1>1 DEF Invoke, BeginningInv, Lines
  <1>2. CASE UNCHANGED output /\ ~Invoke
    <2>1. UNCHANGED invocation /\ (pc' # "idle" => pc # "idle") /\ UNCHANGED args
      BY <1>2 DEF Next, Step, Stopped, Load, Refuse, DryRun, WriteManifest, Skip, SlotsExhausted,
                  Attempt, LookupRaises, KilledInAppend, WriteProgress, Complete, Killed, Ends,
                  Generating, vars, proc
    <2>. QED BY <1>2, <2>1 DEF BeginningInv, Lines
  <1>3. CASE ~UNCHANGED output
    <2>1. PICK reason \in Reason, equivalent \in BOOLEAN :
            output' = Append(output, NewRecord(reason, equivalent))
      BY <1>3, OutputSteps
    <2>2. Generating /\ UNCHANGED <<invocation, args>>
      BY <1>3, OutputSteps
    <2>3. /\ Lines = 1 .. Len(output) /\ Lines' = 1 .. Len(output) + 1 /\ Len(output) \in Nat
          /\ \A i \in Lines : output'[i] = output[i]
          /\ output'[Len(output) + 1] =
               [example |-> example, candidate_index |-> slot, retry_reason |-> reason,
                execution_equivalent |-> equivalent, fp |-> args.fp, feedback |-> Feedback,
                run |-> invocation, resumed |-> Continues]
      BY <2>1, <2>2, Appending
    <2>4. CASE output = <<>>
      <3>1. Len(output) = 0 /\ Lines' = {1} /\ output'[1].fp = args.fp
        BY <2>3, <2>4
      <3>. QED BY <2>2, <3>1 DEF BeginningInv
    <2>5. CASE output # <<>>
      <3>1. 1 \in Lines /\ output'[1] = output[1]
        BY <1>0, <2>3, <2>5
      <3>2. ~Continues => output[1].fp = args.fp
        BY <2>2, <2>5 DEF Continues, BeginningInv, Generating
      <3>3. output'[1].run = invocation => output'[1].fp = args.fp
        BY <2>2, <2>5, <3>1 DEF BeginningInv, Generating
      <3>4. \A i \in Lines' : ~output'[i].resumed => output'[i].fp = output'[1].fp
        BY <2>3, <3>1, <3>2 DEF BeginningInv
      <3>. QED BY <2>2, <3>3, <3>4 DEF BeginningInv
    <2>. QED BY <2>4, <2>5
  <1>. QED BY <1>1, <1>2, <1>3

LEMMA OwnRecordsNext ==
  ASSUME DistillationInv, OwnRecordsInv, [Next]_vars
  PROVE  OwnRecordsInv'
  <1>0. /\ example \in Nat /\ invocation \in Nat /\ output \in Seq(Record)
        /\ pc # "idle" => invocation > 0
    BY SizeAssumption DEF DistillationInv, HistoryInv, TypeOK, Example
  <1>1. \A i \in Lines : output[i].run \in Nat /\ output[i].run <= invocation
    <2>1. \A i \in Lines : output[i] \in Record
      BY <1>0 DEF Lines
    <2>2. \A i \in Lines : output[i].run \in 1 .. MaxInvocations
      BY <2>1 DEF Record
    <2>3. \A i \in Lines : 1 \in Lines
      BY <1>0 DEF Lines
    <2>. QED BY <1>0, <2>2, <2>3, SizeAssumption DEF DistillationInv, HistoryInv
  <1>2. \A i \in Lines : output[i].example \in Nat
    <2>1. \A i \in Lines : output[i] \in Record
      BY <1>0 DEF Lines
    <2>. QED BY <2>1, SizeAssumption DEF Record, Example
  <1>3. CASE UNCHANGED output /\ Invoke
    BY <1>0, <1>1, <1>3 DEF Invoke, OwnRecordsInv, Looping, Lines
  <1>4. CASE UNCHANGED output /\ Load
    BY <1>4 DEF Load, OwnRecordsInv, Looping, Lines
  <1>5. CASE UNCHANGED output /\ WriteManifest
    BY <1>5 DEF WriteManifest, OwnRecordsInv, Looping, Lines
  <1>6. CASE UNCHANGED output /\ (Skip \/ SlotsExhausted)
    BY <1>6 DEF Skip, SlotsExhausted, OwnRecordsInv, Looping, Lines
  <1>7. CASE UNCHANGED output /\ WriteProgress
    <2>1. UNCHANGED <<Lines, invocation>> /\ pc = "progress"
      BY <1>7 DEF WriteProgress, Lines
    <2>2. \A i \in Lines : output[i].run = invocation => output[i].example <= example
      BY <2>1 DEF OwnRecordsInv, Looping
    <2>3. \/ pc' = "complete" /\ example' = example
          \/ pc' = "slot" /\ example' = example + 1
      BY <1>7 DEF WriteProgress
    <2>4. /\ Looping' => \A i \in Lines' : output'[i].run = invocation' => output'[i].example <= example'
          /\ pc' = "slot" => \A i \in Lines' : output'[i].run = invocation' => output'[i].example # example'
      BY <1>0, <1>2, <1>7, <2>1, <2>2, <2>3
    <2>. QED BY <2>3, <2>4 DEF OwnRecordsInv
  <1>8. CASE UNCHANGED output /\ pc' = "idle"
    BY <1>8 DEF OwnRecordsInv, Looping
  <1>9. CASE UNCHANGED vars
    BY <1>9 DEF vars, disk, proc, OwnRecordsInv, Looping, Lines
  <1>10. CASE ~UNCHANGED output
    <2>1. /\ Generating /\ UNCHANGED invocation
          /\ \E reason \in Reason, equivalent \in BOOLEAN :
               /\ output' = Append(output, NewRecord(reason, equivalent))
               /\ pc' = "slot" => example' = example /\ ~equivalent
               /\ Looping' => example' = example
      BY <1>10, OutputSteps
    <2>2. PICK reason \in Reason, equivalent \in BOOLEAN :
            /\ output' = Append(output, NewRecord(reason, equivalent))
            /\ pc' = "slot" => example' = example /\ ~equivalent
            /\ Looping' => example' = example
      BY <2>1
    <2>3. /\ Lines = 1 .. Len(output) /\ Lines' = 1 .. Len(output) + 1 /\ Len(output) \in Nat
          /\ \A i \in Lines : output'[i] = output[i]
          /\ output'[Len(output) + 1] =
               [example |-> example, candidate_index |-> slot, retry_reason |-> reason,
                execution_equivalent |-> equivalent, fp |-> args.fp, feedback |-> Feedback, run |-> invocation,
                resumed |-> Continues]
      BY <2>1, <2>2, Appending
    <2>4. pc' \notin {"load", "manifest"}
      BY <1>10 DEF Next, Step, Stopped, Invoke, Load, Refuse, DryRun, WriteManifest, Skip,
                  SlotsExhausted, Attempt, LookupRaises, KilledInAppend, WriteProgress,
                  Complete, Killed, Ends, Generating, disk, vars
    <2>5. \A i \in Lines : output[i].run = invocation =>
            /\ output[i].example <= example
            /\ output[i].example = example => ~output[i].execution_equivalent
      BY <2>1 DEF OwnRecordsInv, Generating, Looping
    <2>6. \A i \in Lines' : i \in Lines \/ i = Len(output) + 1
      BY <2>3
    <2>. QED BY <1>0, <2>1, <2>2, <2>3, <2>4, <2>5, <2>6 DEF OwnRecordsInv
  <1>. QED
    BY <1>3, <1>4, <1>5, <1>6, <1>7, <1>8, <1>9, <1>10
       DEF Next, Step, Stopped, Refuse, DryRun, Attempt, LookupRaises, KilledInAppend, Complete,
           Killed, Ends, Appended

\* The prompt of every retry answers the attempt before it: the one of its own example
\* and prompt version, unless the output was begun under another version, and never as a
\* mismatch if it matched, unless another run recorded it (pipeline.py 361-367, 479-488).
THEOREM RetriesAnswerPrevious == Spec => []RetryAnswersPrevious
  <1>1. Init => OwnRecordsInv /\ BeginningInv /\ RetryAnswersPrevious
    BY DEF Init, OwnRecordsInv, BeginningInv, RetryAnswersPrevious, Lines, Looping
  <1>2. DistillationInv /\ OwnRecordsInv /\ BeginningInv /\ RetryAnswersPrevious /\ [Next]_vars
          => OwnRecordsInv' /\ BeginningInv' /\ RetryAnswersPrevious'
    BY OwnRecordsNext, BeginningNext, RetryNext
  <1>. QED BY <1>1, <1>2, Invariance, PTL DEF Spec
-----------------------------------------------------------------------------
(***************************************************************************)
(* Refinement: the output is the ledger its readers rely on.               *)
(***************************************************************************)
\* A candidate that is appended is one of the ledger, of a new key.
LEMMA AppendAdds ==
  ASSUME DistillationInv, Generating, NEW reason \in Reason, NEW equivalent \in BOOLEAN,
         output' = Append(output, NewRecord(reason, equivalent))
  PROVE  Ledger!Add
  <1>. DEFINE c == [example |-> example, index |-> slot, prompt |-> PromptOf[args.fp],
                    verified |-> equivalent]
  <1>1. /\ example \in Example /\ slot \in Index /\ args.fp \in Fingerprint
        /\ Lines = 1 .. Len(output) /\ Len(output) \in Nat
    <2>1. slot \in 0 .. Slots /\ slot < Slots /\ Slots \in Nat /\ 0 .. Slots - 1 \subseteq Index
      BY RunSlots DEF DistillationInv, TypeOK, Generating
    <2>2. slot \in Index
      BY <2>1
    <2>. QED BY <2>2, RunSlots DEF DistillationInv, TypeOK, Lines
  <1>2. c \in LedgerRecord
    <2>1. PromptOf[args.fp] \in {PromptOf[fp] : fp \in Fingerprint}
      BY <1>1
    <2>. QED BY <1>1, <2>1 DEF LedgerRecord
  <1>3. /\ Lines' = 1 .. Len(output) + 1 /\ \A i \in Lines : output'[i] = output[i]
        /\ output'[Len(output) + 1] =
             [example |-> example, candidate_index |-> slot, retry_reason |-> reason,
              execution_equivalent |-> equivalent, fp |-> args.fp, feedback |-> Feedback, run |-> invocation,
              resumed |-> Continues]
    BY Appending
  <1>4. DOMAIN candidates = 1 .. Len(output) /\ Len(candidates) = Len(output)
    BY <1>1 DEF candidates
  <1>5. candidates' = [i \in 1 .. Len(output) + 1 |->
                         IF i \in 1 .. Len(output) THEN candidates[i] ELSE c]
    <2>1. ASSUME NEW i \in 1 .. Len(output) + 1, i \notin 1 .. Len(output)
          PROVE  i = Len(output) + 1
      BY <1>1, <2>1
    <2>2. DOMAIN candidates' = 1 .. Len(output) + 1
      BY <1>3 DEF candidates
    <2>3. \A i \in 1 .. Len(output) + 1 : candidates'[i] =
            [example  |-> output'[i].example,
             index    |-> output'[i].candidate_index,
             prompt   |-> PromptOf[output'[i].fp],
             verified |-> output'[i].execution_equivalent]
      BY <1>3 DEF candidates
    <2>4. \A i \in 1 .. Len(output) : candidates'[i] = candidates[i]
      BY <1>1, <1>3, <2>3 DEF candidates
    <2>5. candidates'[Len(output) + 1] = c
      BY <1>1, <1>3, <2>3
    <2>6. candidates' = [i \in 1 .. Len(output) + 1 |-> candidates'[i]]
      BY <2>2 DEF candidates
    <2>. HIDE DEF c
    <2>. QED BY <2>1, <2>4, <2>5, <2>6
  <1>6. candidates' = Append(candidates, c)
    BY <1>1, <1>4, <1>5
  <1>7. \A i \in DOMAIN candidates : Ledger!Key(candidates[i]) # Ledger!Key(c)
    <2>1. \A i \in Lines : PromptOf[output[i].fp] = PromptOf[args.fp] =>
            <<output[i].example, output[i].candidate_index>> # <<example, slot>>
      BY DEF DistillationInv, MemoryInv, Running, CompletedKeys, Generating
    <2>2. ASSUME NEW i \in Lines
          PROVE  Ledger!Key(candidates[i]) # Ledger!Key(c)
      <3>1. Ledger!Key(candidates[i]) =
              <<output[i].example, output[i].candidate_index, PromptOf[output[i].fp]>>
        BY DEF candidates, Ledger!Key
      <3>2. Ledger!Key(c) = <<example, slot, PromptOf[args.fp]>>
        BY DEF Ledger!Key
      <3>. QED BY <2>1, <3>1, <3>2
    <2>. QED BY <2>2 DEF candidates
  <1>. HIDE DEF c
  <1>. QED BY <1>2, <1>6, <1>7 DEF Ledger!Add

\* However runs are killed, resumed and followed by others, the output is a list that
\* only grows, and by no candidate twice: what those who train on it assume of it.
THEOREM OutputIsTheLedger == Spec => LedgerKept
  <1>1. Init => Ledger!Init
    BY DEF Init, Ledger!Init, candidates, Lines
  <1>2. DistillationInv /\ [Next]_vars => [Ledger!Add]_candidates
    <2>. SUFFICES ASSUME DistillationInv, [Next]_vars
                  PROVE  Ledger!Add \/ UNCHANGED candidates
      OBVIOUS
    <2>1. CASE UNCHANGED output
      BY <2>1 DEF candidates, Lines
    <2>2. CASE ~UNCHANGED output
      BY <2>2, OutputSteps, AppendAdds
    <2>. QED BY <2>1, <2>2
  <1>. QED BY <1>1, <1>2, Invariance, PTL DEF Spec, LedgerKept, Ledger!Spec
-----------------------------------------------------------------------------
(***************************************************************************)
(* Every step of a run leaves fewer to come.                               *)
(***************************************************************************)
LEMMA ExamplesLeftType == TypeOK => ExamplesLeft \in Nat /\ Slots \in Nat \ {0}
<1> SUFFICES ASSUME TypeOK PROVE ExamplesLeft \in Nat /\ Slots \in Nat \ {0}
  OBVIOUS
<1>1. example \in 1 .. NumExamples
  BY DEF TypeOK, Example
<1>2. Slots \in Nat \ {0}
  BY RunSlots
<1>3. NumExamples - example \in Nat /\ Slots + 2 \in Nat
  BY <1>1, <1>2, SizeAssumption
<1>4. \A a, b \in Nat : a * b \in Nat
  OBVIOUS
<1>5. QED
  BY <1>2, <1>3, <1>4 DEF ExamplesLeft

\* Going on to the next example uses up its share of the steps.
LEMMA NextExample ==
  ASSUME TypeOK, example # NumExamples, example' = example + 1, UNCHANGED args
  PROVE  ExamplesLeft = ExamplesLeft' + Slots + 2
<1>1. example \in 1 .. NumExamples
  BY DEF TypeOK, Example
<1>2. Slots \in Nat
  BY ExamplesLeftType
<1>3. \A a, b \in Nat : (a + 1) * b = a * b + b
  OBVIOUS
<1>4. NumExamples - example' \in Nat /\ NumExamples - example = (NumExamples - example') + 1
  BY <1>1, SizeAssumption
<1>5. (NumExamples - example) * (Slots + 2) = (NumExamples - example') * (Slots + 2) + (Slots + 2)
  BY <1>2, <1>3, <1>4
<1>6. (NumExamples - example') * (Slots + 2) \in Nat
  <2>1. \A a, b \in Nat : a * b \in Nat
    OBVIOUS
  <2>2. QED
    BY <1>2, <1>4, <2>1
<1>7. ExamplesLeft' = (NumExamples - example') * (Slots + 2)
  BY DEF ExamplesLeft, Slots
<1>8. QED
  BY <1>2, <1>5, <1>6, <1>7 DEF ExamplesLeft

LEMMA StepsLeftType == TypeOK => StepsLeft \in Nat
<1> SUFFICES ASSUME TypeOK PROVE StepsLeft \in Nat
  OBVIOUS
<1>1. ExamplesLeft \in Nat /\ Slots \in Nat /\ slot \in 0 .. Slots /\ pc \in At
  BY ExamplesLeftType DEF TypeOK
<1>2. Slots - slot \in Nat
  BY <1>1
<1>3. QED
  BY <1>1, <1>2 DEF StepsLeft, At

\* The number of steps a run has left is natural and falls with each of them: the part
\* of RunEnds that no fairness is needed for (pipeline.py 253-478).
THEOREM EveryRunRunsDown == Spec => [](StepsLeft \in Nat) /\ RunRunsDown
<1>1. ASSUME DistillationInv, Next, pc # "idle", ~UNCHANGED vars
      PROVE  StepsLeft' < StepsLeft
  <2>1. /\ ExamplesLeft \in Nat /\ Slots \in Nat \ {0} /\ slot \in 0 .. Slots
        /\ pc \in At /\ TypeOK /\ example \in 1 .. NumExamples
    BY <1>1, ExamplesLeftType DEF DistillationInv, TypeOK, Example
  <2>0. UNCHANGED <<args, Slots>>
    <3>1. UNCHANGED args
      BY <1>1 DEF Next, Step, Stopped, Invoke, Load, Refuse, DryRun, WriteManifest, Skip,
                  SlotsExhausted, Attempt, LookupRaises, KilledInAppend, WriteProgress, Complete,
                  Killed, Ends, vars, proc
    <3>2. QED
      BY <3>1 DEF Slots
  <2>2. CASE pc' = "idle"
    BY <1>1, <2>1, <2>2 DEF StepsLeft, At
  <2>3. CASE example' = example /\ slot' = slot
    <3>1. /\ ExamplesLeft' = ExamplesLeft /\ Slots' = Slots /\ Slots - slot' = Slots - slot
          /\ Slots - slot \in Int
      BY <2>0, <2>1, <2>3 DEF ExamplesLeft
    <3>2. CASE Load
      BY <2>1, <2>3, <3>1, <3>2 DEF Load, StepsLeft
    <3>3. CASE WriteManifest
      BY <2>1, <2>3, <3>1, <3>3 DEF WriteManifest, StepsLeft
    <3>4. CASE SlotsExhausted
      BY <2>1, <2>3, <3>1, <3>4 DEF SlotsExhausted, StepsLeft
    <3>5. CASE pc = "slot" /\ pc' = "progress"
      BY <2>1, <2>3, <3>1, <3>5 DEF StepsLeft
    <3>6. CASE pc = "progress" /\ pc' = "complete"
      BY <2>1, <2>3, <3>1, <3>6 DEF StepsLeft
    <3>7. CASE WriteProgress
      BY <2>1, <2>3, <3>6, <3>7 DEF WriteProgress
    <3>8. CASE Attempt
      BY <2>1, <2>3, <3>5, <3>8 DEF Attempt, Generating
    <3>9. CASE Skip
      BY <2>1, <2>3, <3>9 DEF Skip
    <3>10. CASE Complete \/ Refuse \/ DryRun \/ LookupRaises \/ KilledInAppend \/ Killed
      BY <2>2, <3>10 DEF Complete, Refuse, DryRun, LookupRaises, KilledInAppend, Killed, Ends
    <3>11. QED
      BY <1>1, <3>2, <3>3, <3>4, <3>7, <3>8, <3>9, <3>10 DEF Next, Step, Invoke, Stopped
  <2>4. CASE pc = "slot" /\ pc' = "slot" /\ slot < Slots /\ slot' = slot + 1 /\ example' = example
    <3>1. ExamplesLeft' = ExamplesLeft /\ Slots' = Slots
      BY <2>0, <2>4 DEF ExamplesLeft
    <3>2. Slots - slot' < Slots - slot
      BY <2>1, <2>4
    <3>3. QED
      BY <2>1, <2>4, <3>1, <3>2 DEF StepsLeft
  <2>5. CASE pc = "progress" /\ pc' = "slot" /\ example # NumExamples /\ example' = example + 1
               /\ slot' = 0
    <3>1. ExamplesLeft = ExamplesLeft' + Slots + 2
      BY <2>0, <2>1, <2>5, NextExample
    <3>2. ExamplesLeft' \in Int /\ Slots' = Slots
      <4>1. NumExamples - example' \in Int /\ Slots + 2 \in Int
        BY <2>1, <2>5, SizeAssumption
      <4>2. \A a, b \in Int : a * b \in Int
        OBVIOUS
      <4>3. ExamplesLeft' = (NumExamples - example') * (Slots + 2)
        BY <2>0 DEF ExamplesLeft
      <4>4. QED
        BY <2>0, <4>1, <4>2, <4>3
    <3>3. QED
      BY <2>1, <2>5, <3>1, <3>2 DEF StepsLeft
  <2>6. CASE Attempt
    BY <2>1, <2>3, <2>4, <2>6 DEF Attempt, Generating
  <2>7. CASE Skip
    BY <2>1, <2>4, <2>7 DEF Skip
  <2>8. CASE WriteProgress
    BY <2>1, <2>3, <2>5, <2>8 DEF WriteProgress
  <2>9. CASE Load \/ WriteManifest \/ SlotsExhausted
    BY <2>3, <2>9 DEF Load, WriteManifest, SlotsExhausted
  <2>10. CASE Complete \/ Refuse \/ DryRun \/ LookupRaises \/ KilledInAppend \/ Killed
    BY <2>2, <2>10 DEF Complete, Refuse, DryRun, LookupRaises, KilledInAppend, Killed, Ends
  <2>11. QED
    BY <1>1, <2>6, <2>7, <2>8, <2>9, <2>10 DEF Next, Step, Invoke, Stopped
<1>2. DistillationInv => StepsLeft \in Nat
  BY StepsLeftType DEF DistillationInv
<1>3. DistillationInv /\ [Next]_vars => [pc # "idle" => StepsLeft' < StepsLeft]_vars
  BY <1>1
<1>4. QED
  BY <1>2, <1>3, Invariance, PTL DEF Spec, RunRunsDown
=============================================================================
