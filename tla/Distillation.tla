---------------------------- MODULE Distillation ----------------------------
(***************************************************************************)
(* DistillationPipeline.run (distillation/pipeline.py) and the files it    *)
(* keeps beside each other: the output (one JSON line per candidate), the  *)
(* manifest (status and run fingerprint) and the progress counters.  Runs  *)
(* follow one another in the same directory; each may be killed at any     *)
(* step and be followed by a run with or without --resume, and with the    *)
(* same fingerprint or another.  How many candidates a run asks for, and   *)
(* whether it retries, is part of its fingerprint.                         *)
(*                                                                         *)
(* The manifest and the progress file are replaced atomically, the output  *)
(* is appended to (utils.py): a run killed in an append leaves a line      *)
(* without its end.                                                        *)
(***************************************************************************)
EXTENDS Integers, Sequences, FiniteSets

CONSTANTS
  NumExamples,     \* training examples after the split policy, in file order
  Fingerprint,     \* the run fingerprints the directory is used with
  PromptOf,        \* the teacher_prompt_version in each fingerprint
  AttemptsOf,      \* its max_attempts: more than one selects adaptive retry
  CandidatesOf,    \* its num_candidates, used when there is no adaptive retry
  TargetOf,        \* its target_verified_examples, NoTarget for None
  Candidate,       \* what the teacher may answer, a subset of CandidateKind
  MaxInvocations   \* bound: how often run() is called

NoTarget == 0

\* What a teacher's answer turns out to be.  "fenced" is a right query in a markdown
\* fence: without <sql> tags it counts as not parsed, and yet is executed.  Any other
\* fenced query leaves the record an unparseable answer leaves.
CandidateKind == {"unparseable", "fenced", "unsafe", "failing", "wrong", "right"}

ASSUME SizeAssumption ==
  /\ NumExamples \in Nat \ {0} /\ MaxInvocations \in Nat
  /\ \A fp \in Fingerprint : /\ AttemptsOf[fp] \in Nat \ {0}
                             /\ CandidatesOf[fp] \in Nat \ {0}
                             /\ TargetOf[fp] \in Nat
ASSUME CandidateAssumption == Candidate \subseteq CandidateKind

VARIABLES
  \* the directory
  output,      \* the records of the output file, in file order
  present,     \* does the output file exist?
  tail,        \* how the file ends: see TailState
  manifest,    \* NoManifest or [status, fp]
  progress,    \* NoProgress or [examples, candidates]
  \* the running process
  pc,          \* where run() is, "idle" when no process runs
  args,        \* its arguments [fp, resume, dry]
  completed,   \* completed: pairs <<example, candidate_index>>
  verified,    \* verified_example_ids
  gold,        \* gold_cache: what executing each gold query gave
  example,     \* the loop variable over examples
  slot,        \* the loop variable over attempts or candidates
  \* history
  invocation,  \* calls of run() so far
  outcome      \* how the last call ended

disk == <<output, present, tail, manifest, progress>>
proc == <<pc, args, completed, verified, gold, example, slot>>
vars == <<disk, proc, invocation, outcome>>
-----------------------------------------------------------------------------
Example  == 1 .. NumExamples

Adaptive(fp) == AttemptsOf[fp] > 1
SlotsOf(fp)  == IF Adaptive(fp) THEN AttemptsOf[fp] ELSE CandidatesOf[fp]

\* The candidate indices there are.
Index == UNION {0 .. SlotsOf(fp) - 1 : fp \in Fingerprint}

\* The attempts or candidates of the run that is under way.
Slots == SlotsOf(args.fp)

Reason == {"parse_failed", "unsafe_or_multiple_statements", "execution_failed",
           "wrong_result", "verified"}

\* RETRY_FEEDBACK_UNSAFE, the error category, RETRY_FEEDBACK_PARSE, RETRY_FEEDBACK_WRONG.
Told == {"UNSAFE", "CATEGORY", "PARSE", "WRONG"}

\* A DistillationRecord as far as a later run or a reader tells records apart.
\* The run's fingerprint, the feedback its prompt carried, the number of the run
\* and whether that run continued another's output are history: the file does not hold them.
Record ==
  [example : Example, candidate_index : Index, retry_reason : Reason,
   execution_equivalent : BOOLEAN, fp : Fingerprint,
   feedback : Told \cup {"none"}, run : 1 .. MaxInvocations, resumed : BOOLEAN]

\* "clean": complete lines; "unterminated": a whole record without its newline;
\* "torn": part of a record; "garbled": two records on one line.
TailState == {"clean", "unterminated", "torn", "garbled"}

\* load_jsonl raises ValueError on a line that is not one JSON document.
Readable == tail \in {"clean", "unterminated"}

NoManifest == [status |-> "none"]
Manifest   == [status : {"RUNNING", "COMPLETED"}, fp : Fingerprint]
NoProgress == [examples |-> 0, candidates |-> 0]
Progress   == [examples : 0 .. NumExamples, candidates : Nat]

Args    == [fp : Fingerprint, resume : BOOLEAN, dry : BOOLEAN]
Gold    == {"unknown", "ok", "failed"}
At      == {"idle", "load", "manifest", "slot", "progress", "complete"}
Outcome == {"none", "exists", "fingerprint", "unreadable", "dry_run", "completed", "killed"}

Lines == DOMAIN output

\* Faulty variant: a resumed run forgets what is done.
CompletedKeysForgotten(fp) == {}

\* _completed_keys: only the teacher's prompt version is compared.
CompletedKeys(fp) ==
  {<<output[i].example, output[i].candidate_index>> :
     i \in {j \in Lines : PromptOf[output[j].fp] = PromptOf[fp]}}

VerifiedExamples ==
  {output[i].example : i \in {j \in Lines : output[j].execution_equivalent}}

TargetReached(fp, n) == TargetOf[fp] # NoTarget /\ n >= TargetOf[fp]
-----------------------------------------------------------------------------
Init ==
  /\ output = <<>> /\ present = FALSE /\ tail = "clean"
  /\ manifest = NoManifest /\ progress = NoProgress
  /\ pc = "idle"
  /\ args \in {a \in Args : ~a.resume /\ ~a.dry}
  /\ completed = {} /\ verified = {}
  /\ gold = [e \in Example |-> "unknown"]
  /\ example = 1 /\ slot = 0
  /\ invocation = 0 /\ outcome = "none"

\* A new process: nothing is remembered but what the files hold.
Invoke ==
  /\ pc = "idle" /\ invocation < MaxInvocations
  /\ pc' = "load"
  /\ args' \in Args
  /\ invocation' = invocation + 1 /\ outcome' = "none"
  /\ UNCHANGED <<disk, completed, verified, gold, example, slot>>

\* The process ends, and its memory with it.
Ends(how) ==
  /\ pc' = "idle"
  /\ outcome' = how
  /\ completed' = {} /\ verified' = {}
  /\ gold' = [e \in Example |-> "unknown"]
  /\ example' = 1 /\ slot' = 0
  /\ UNCHANGED <<args, invocation>>

\* Faulty variant: the fingerprints are not compared.
RefusalUnchecked ==
  IF ~present THEN "none"
  ELSE IF ~Readable THEN "unreadable"
  ELSE IF ~args.resume THEN "exists"
  ELSE "none"

\* load_jsonl, the --resume check, and _check_resume_fingerprint, in this order.
Refusal ==
  IF ~present THEN "none"
  ELSE IF ~Readable THEN "unreadable"
  ELSE IF ~args.resume THEN "exists"
  ELSE IF manifest = NoManifest THEN "fingerprint"
  ELSE IF manifest.fp # args.fp THEN "fingerprint"
  ELSE "none"

Load ==
  /\ pc = "load" /\ Refusal = "none"
  /\ completed' = CompletedKeys(args.fp)
  /\ verified' = VerifiedExamples
  /\ pc' = "manifest"
  /\ UNCHANGED <<disk, args, gold, example, slot, invocation, outcome>>

Refuse ==
  /\ pc = "load" /\ Refusal # "none"
  /\ Ends(Refusal)
  /\ UNCHANGED disk

DryRun ==
  /\ pc = "manifest" /\ args.dry
  /\ Ends("dry_run")
  /\ UNCHANGED disk

\* The manifest is written only if there is none.
WriteManifest ==
  /\ pc = "manifest" /\ ~args.dry
  /\ manifest' = IF manifest = NoManifest THEN [status |-> "RUNNING", fp |-> args.fp]
                 ELSE manifest
  /\ pc' = "slot"
  /\ UNCHANGED <<output, present, tail, progress, args, completed, verified, gold, example,
                 slot, invocation, outcome>>
-----------------------------------------------------------------------------
(***************************************************************************)
(* One candidate.                                                          *)
(***************************************************************************)
\* Faulty variant: the loop over the slots does not move on.
SkipStays ==
  /\ pc = "slot" /\ slot < Slots
  /\ <<example, slot>> \in completed
  /\ UNCHANGED vars

Skip ==
  /\ pc = "slot" /\ slot < Slots
  /\ <<example, slot>> \in completed
  /\ slot' = slot + 1
  /\ UNCHANGED <<disk, pc, args, completed, verified, gold, example, invocation, outcome>>

\* Faulty variant: the last slot is left out.
SlotsExhaustedEarly ==
  /\ pc = "slot" /\ slot >= Slots - 1
  /\ pc' = "progress"
  /\ UNCHANGED <<disk, args, completed, verified, gold, example, slot, invocation, outcome>>

SlotsExhausted ==
  /\ pc = "slot" /\ slot = Slots
  /\ pc' = "progress"
  /\ UNCHANGED <<disk, args, completed, verified, gold, example, slot, invocation, outcome>>

\* Faulty variant: the attempt itself is looked up.
PreviousOffByOne ==
  {i \in Lines : output[i].example = example /\ output[i].candidate_index = slot}

\* _find_previous_record: the first line of the file for the attempt before,
\* whatever run wrote it.
Previous ==
  {i \in Lines : /\ output[i].example = example
                 /\ output[i].candidate_index = slot - 1}

\* _retry_feedback: a record that was verified falls through to the last return.  A
\* query that failed has a category, for execution_error_type is never empty.
FeedbackFor(reason) ==
  CASE reason = "unsafe_or_multiple_statements" -> "UNSAFE"
    [] reason = "execution_failed" -> "CATEGORY"
    [] reason = "parse_failed"     -> "PARSE"
    [] OTHER                       -> "WRONG"

Feedback ==
  IF Adaptive(args.fp) /\ slot > 0 /\ Previous # {}
  THEN FeedbackFor(output[CHOOSE i \in Previous : \A j \in Previous : i <= j].retry_reason)
  ELSE "none"

\* _record_failure_reason: the first thing that is wrong with a record.
ReasonOf(candidate, g) ==
  CASE candidate \in {"unparseable", "fenced"} -> "parse_failed"
    [] candidate = "unsafe"      -> "unsafe_or_multiple_statements"
    [] candidate = "failing"     -> "execution_failed"
    [] candidate = "right" /\ g = "ok" -> "verified"
    [] OTHER                     -> "wrong_result"

\* Strict equivalence with the gold result: what run() itself takes for verified.
Equivalent(candidate, g) == candidate \in {"fenced", "right"} /\ g = "ok"

\* _verify_and_record: with a safe candidate the gold query is executed too, once per
\* process and example, failures included.  An unparseable one may hold a fenced query.
GoldAfter(candidate) ==
  IF gold[example] # "unknown" \/ candidate = "unsafe" THEN {gold[example]}
  ELSE IF candidate = "unparseable" THEN Gold
  ELSE {"ok", "failed"}

\* Did another run begin this output?
Continues == output # <<>> /\ output[1].run # invocation

NewRecord(reason, equivalent) ==
  [example |-> example, candidate_index |-> slot, retry_reason |-> reason,
   execution_equivalent |-> equivalent, fp |-> args.fp,
   feedback |-> Feedback, run |-> invocation, resumed |-> Continues]

\* append_jsonl: on a file whose last line is not terminated, the new record
\* lands on that line.
Appended(record) ==
  /\ output' = Append(output, record)
  /\ present' = TRUE
  /\ tail' = IF tail = "unterminated" THEN "garbled" ELSE tail

Generating ==
  /\ pc = "slot" /\ slot < Slots
  /\ <<example, slot>> \notin completed

\* An adaptive retry reads the output again.
LookupWorks == Readable \/ ~(Adaptive(args.fp) /\ slot > 0)

Attempt ==
  /\ Generating /\ LookupWorks
  /\ \E c \in Candidate, g \in Gold :
       /\ g \in GoldAfter(c)
       /\ gold' = [gold EXCEPT ![example] = g]
       /\ Appended(NewRecord(ReasonOf(c, g), Equivalent(c, g)))
       /\ IF Equivalent(c, g)
          THEN verified' = verified \cup {example} /\ pc' = "progress" /\ UNCHANGED slot
          ELSE slot' = slot + 1 /\ UNCHANGED <<verified, pc>>
  /\ completed' = completed \cup {<<example, slot>>}
  /\ UNCHANGED <<manifest, progress, args, example, invocation, outcome>>

LookupRaises ==
  /\ Generating /\ ~LookupWorks
  /\ Ends("unreadable")
  /\ UNCHANGED disk

\* Killed, or out of disk space, in append_jsonl: the file exists and holds
\* none, part, or all but the newline of the record.
KilledInAppend ==
  /\ Generating /\ LookupWorks
  /\ present' = TRUE
  /\ \/ UNCHANGED <<output, tail>>
     \/ UNCHANGED output /\ tail' = IF tail = "clean" THEN "torn" ELSE "garbled"
     \/ /\ tail = "clean" /\ tail' = "unterminated"
        /\ \E c \in Candidate, g \in Gold :
             /\ g \in GoldAfter(c)
             /\ output' = Append(output, NewRecord(ReasonOf(c, g), Equivalent(c, g)))
  /\ Ends("killed")
  /\ UNCHANGED <<manifest, progress>>
-----------------------------------------------------------------------------
\* Faulty variant: planned candidates are counted.
WriteProgressPlanned ==
  /\ pc = "progress"
  /\ progress' = [examples |-> example, candidates |-> example * Slots]
  /\ IF example = NumExamples \/ TargetReached(args.fp, Cardinality(verified))
     THEN pc' = "complete" /\ UNCHANGED <<example, slot>>
     ELSE pc' = "slot" /\ example' = example + 1 /\ slot' = 0
  /\ UNCHANGED <<output, present, tail, manifest, args, completed, verified, gold,
                 invocation, outcome>>

\* Faulty variant: the loop runs past the last example.
WriteProgressUnbounded ==
  /\ pc = "progress"
  /\ progress' = [examples |-> example, candidates |-> Cardinality(completed)]
  /\ pc' = "slot" /\ example' = example + 1 /\ slot' = 0
  /\ UNCHANGED <<output, present, tail, manifest, args, completed, verified, gold,
                 invocation, outcome>>

WriteProgress ==
  /\ pc = "progress"
  /\ progress' = [examples |-> example, candidates |-> Cardinality(completed)]
  /\ IF example = NumExamples \/ TargetReached(args.fp, Cardinality(verified))
     THEN pc' = "complete" /\ UNCHANGED <<example, slot>>
     ELSE pc' = "slot" /\ example' = example + 1 /\ slot' = 0
  /\ UNCHANGED <<output, present, tail, manifest, args, completed, verified, gold,
                 invocation, outcome>>

Complete ==
  /\ pc = "complete"
  /\ manifest' = [status |-> "COMPLETED", fp |-> args.fp]
  /\ Ends("completed")
  /\ UNCHANGED <<output, present, tail, progress>>

\* The process dies, or an exception leaves run(), between two of the above:
\* run() cleans nothing up.
Killed ==
  /\ pc # "idle"
  /\ Ends("killed")
  /\ UNCHANGED disk

\* The bound on invocations is reached.
Stopped == pc = "idle" /\ invocation = MaxInvocations /\ UNCHANGED vars

Step ==
  \/ Load \/ Refuse \/ DryRun \/ WriteManifest \/ Skip \/ SlotsExhausted
  \/ Attempt \/ LookupRaises \/ WriteProgress \/ Complete

Next == Invoke \/ Step \/ KilledInAppend \/ Killed \/ Stopped

Spec == Init /\ [][Next]_vars

\* A process that was started runs on, unless it is killed.
FairSpec == Spec /\ WF_vars(Step)
-----------------------------------------------------------------------------
(***************************************************************************)
(* Properties.                                                             *)
(***************************************************************************)
\* Every variable has its type.
TypeOK ==
  /\ output \in Seq(Record)
  /\ present \in BOOLEAN
  /\ tail \in TailState
  /\ manifest \in Manifest \cup {NoManifest}
  /\ progress \in Progress
  /\ pc \in At
  /\ args \in Args
  /\ completed \subseteq Example \X Index
  /\ verified \subseteq Example
  /\ gold \in [Example -> Gold]
  /\ example \in Example
  /\ slot \in 0 .. Slots
  /\ invocation \in 0 .. MaxInvocations
  /\ outcome \in Outcome

\* However often a run is killed and resumed, the output never holds two records
\* for the same example, candidate and prompt version.
KeysUnique ==
  \A i, j \in Lines :
    /\ output[i].example = output[j].example
    /\ output[i].candidate_index = output[j].candidate_index
    /\ PromptOf[output[i].fp] = PromptOf[output[j].fp]
    => i = j

\* What a resumed run adds comes from the fingerprint the manifest names
\* (_check_resume_fingerprint).
ResumedRecordsMatchManifest ==
  \A i \in Lines :
    output[i].resumed => manifest # NoManifest /\ manifest.fp = output[i].fp

\* The progress file never claims a candidate that is not in the output.
ProgressNotAhead == progress.candidates <= Len(output)

\* A COMPLETED manifest means that every example has a verified record or all of the
\* candidates its fingerprint asks for, or that enough examples are verified.
CompletedMeansCovered ==
  manifest.status = "COMPLETED" =>
    \/ TargetReached(manifest.fp, Cardinality(VerifiedExamples))
    \/ \A e \in Example :
         \/ e \in VerifiedExamples
         \/ \A k \in 0 .. SlotsOf(manifest.fp) - 1 : <<e, k>> \in CompletedKeys(manifest.fp)

\* The prompt of an adaptive retry tells the teacher what was wrong with the attempt
\* before, of the same example and prompt version and recorded in this output, although
\* the lookup (pipeline.py 479-488) takes the first line of any prompt version.  Only an
\* output begun under another version can mislead it.  That a query "did not match"
\* although it did is only ever told by a run that resumed another's output.
RetryAnswersPrevious ==
  \A i \in Lines :
    (/\ Adaptive(output[i].fp)
     /\ output[i].candidate_index > 0
     /\ PromptOf[output[i].fp] = PromptOf[output[1].fp]) =>
      \E j \in 1 .. i - 1 :
        /\ output[j].example = output[i].example
        /\ output[j].candidate_index = output[i].candidate_index - 1
        /\ PromptOf[output[j].fp] = PromptOf[output[i].fp]
        /\ output[i].feedback = FeedbackFor(output[j].retry_reason)
        /\ output[j].execution_equivalent => output[j].run # output[i].run

\* "if the candidate is not strictly verified, attempt 2 may be generated"
\* (pipeline.py 11-12): an example with a verified attempt is given no other.
VerifiedIsNotRetried ==
  \A i, j \in Lines :
    (/\ i < j
     /\ Adaptive(output[i].fp)
     /\ output[i].fp = output[j].fp
     /\ output[i].example = output[j].example) => ~output[i].execution_equivalent

\* The output as those who train on it see it: the abstract list of candidates, in which
\* no run, killed, resumed or of another fingerprint, ever changes or repeats an entry.
LedgerRecord ==
  [example : Example, index : Index, prompt : {PromptOf[fp] : fp \in Fingerprint},
   verified : BOOLEAN]

candidates ==
  [i \in Lines |-> [example  |-> output[i].example,
                    index    |-> output[i].candidate_index,
                    prompt   |-> PromptOf[output[i].fp],
                    verified |-> output[i].execution_equivalent]]

Ledger == INSTANCE CandidateLedger WITH Record <- LedgerRecord, records <- candidates
LedgerKept == Ledger!Spec

\* A run that is started ends.
RunEnds == (pc # "idle") ~> (pc = "idle")
-----------------------------------------------------------------------------
(***************************************************************************)
(* The inductive invariant behind the safety properties, in named parts.   *)
(***************************************************************************)
Running == pc \in {"manifest", "slot", "progress", "complete"}
Looping == pc \in {"slot", "progress", "complete"}

Covered(e) ==
  \/ e \in VerifiedExamples
  \/ \A k \in 0 .. Slots - 1 : <<e, k>> \in CompletedKeys(args.fp)

\* What the process remembers is what the file says.
MemoryInv ==
  /\ ~present => output = <<>>
  /\ Running => completed = CompletedKeys(args.fp) /\ verified = VerifiedExamples

\* Runs write in turn, and one that continues an output does so under the
\* manifest's fingerprint.
HistoryInv ==
  /\ pc # "idle" => invocation > 0
  /\ \A i \in Lines : output[i].run \in output[1].run .. invocation
  /\ \A i \in Lines : output[i].resumed => output[i].run # output[1].run
  /\ Looping => manifest # NoManifest
  /\ Running /\ Continues => manifest # NoManifest /\ manifest.fp = args.fp
  /\ ResumedRecordsMatchManifest

\* How far the loop has come.
LoopInv ==
  /\ pc \in {"idle", "load", "manifest"} => example = 1 /\ slot = 0
  /\ Looping => \A e \in 1 .. example - 1 : Covered(e)
  /\ pc = "slot" => \A k \in 0 .. slot - 1 : <<example, k>> \in CompletedKeys(args.fp)
  /\ pc \in {"progress", "complete"} => Covered(example)
  /\ pc = "complete" =>
       example = NumExamples \/ TargetReached(args.fp, Cardinality(VerifiedExamples))
  /\ CompletedMeansCovered

\* What a run has recorded itself belongs to the examples up to the one it is at, of
\* which it has verified none while it still generates.
OwnRecordsInv ==
  /\ pc \in {"load", "manifest"} => \A i \in Lines : output[i].run # invocation
  /\ Looping => \A i \in Lines : output[i].run = invocation => output[i].example <= example
  /\ pc = "slot" =>
       \A i \in Lines : output[i].run = invocation /\ output[i].example = example =>
         ~output[i].execution_equivalent

\* Until another run continues it, an output holds one fingerprint only.
BeginningInv ==
  /\ pc # "idle" /\ output # <<>> /\ output[1].run = invocation => output[1].fp = args.fp
  /\ \A i \in Lines : ~output[i].resumed => output[i].fp = output[1].fp

DistillationInv ==
  TypeOK /\ KeysUnique /\ ProgressNotAhead /\ MemoryInv /\ HistoryInv /\ LoopInv

\* What is left of a run: an example takes at most a step for every slot, one to leave
\* the slots and one for the progress file.
ExamplesLeft == (NumExamples - example) * (Slots + 2)
StepsLeft ==
  CASE pc = "idle"     -> 0
    [] pc = "complete" -> 1
    [] pc = "progress" -> 2 + ExamplesLeft
    [] pc = "slot"     -> 3 + ExamplesLeft + (Slots - slot)
    [] pc = "manifest" -> 4 + ExamplesLeft + (Slots - slot)
    [] pc = "load"     -> 5 + ExamplesLeft + (Slots - slot)

\* A run turns in no circle: whatever is on disk and whatever the teacher answers, each
\* of its steps leaves fewer to come.
RunRunsDown == [][pc # "idle" => StepsLeft' < StepsLeft]_vars
=============================================================================
