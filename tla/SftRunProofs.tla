----------------------------- MODULE SftRunProofs -----------------------------
(***************************************************************************)
(* Proofs about SftRun, for every set of examples, arms and records and    *)
(* every number of commands.                                               *)
(***************************************************************************)
EXTENDS SftRun, WellFoundedInduction, TLAPS

USE ExampleAssumption, ArmAssumption, RecordAssumption, RunsAssumption

\* A set of numbers has a smallest.
LEMMA Smallest ==
  ASSUME NEW T \in SUBSET Nat, T # {}
  PROVE  \E n \in T : \A m \in T : n =< m
<1>1. PICK n \in T : \A m \in T : ~(<<m, n>> \in OpToRel(<, Nat))
  BY NatLessThanWellFounded, WFMin
<1>2. \A m \in T : ~(m < n)
  BY <1>1 DEF OpToRel
<1>3. QED
  BY <1>2

\* The lines of a set of candidates have a first one in the order of selection.
LEMMA LeastIsOne ==
  ASSUME NEW recs \in Seq(Record), NEW lines \in SUBSET DOMAIN recs, lines # {}
  PROVE  Least(recs, lines) \in lines
<1>0. \A i \in DOMAIN recs : i \in Nat /\ recs[i].index \in Nat
  BY DEF Candidate
<1> DEFINE T == {recs[i].index : i \in lines}
<1>1. PICK n \in T : \A m \in T : n =< m
  <2>1. T \in SUBSET Nat /\ T # {}
    BY <1>0
  <2> HIDE DEF T
  <2>2. QED
    BY <2>1, Smallest
<1> DEFINE L == {i \in lines : recs[i].index = n}
<1>2. PICK k \in L : \A j \in L : k =< j
  <2>1. L \in SUBSET Nat /\ L # {}
    BY <1>0
  <2> HIDE DEF L
  <2>2. QED
    BY <2>1, Smallest
<1>3. \E i \in lines : \A j \in lines :
        recs[i].index < recs[j].index \/ (recs[i].index = recs[j].index /\ i =< j)
  <2>1. k \in lines /\ recs[k].index = n
    OBVIOUS
  <2>2. ASSUME NEW j \in lines
        PROVE  recs[k].index < recs[j].index \/ (recs[k].index = recs[j].index /\ k =< j)
    <3>1. n =< recs[j].index /\ recs[j].index \in Nat /\ n \in Nat
      BY <1>0, <1>1
    <3>2. CASE recs[j].index = n
      BY <1>2, <2>1, <3>2
    <3>3. CASE recs[j].index # n
      BY <2>1, <3>1, <3>3
    <3>4. QED
      BY <3>2, <3>3
  <2>3. QED
    BY <2>1, <2>2
<1> HIDE DEF T, L
<1>4. QED
  BY <1>3 DEF Least

\* What a command is given to learn from.
LEMMA DistilledTarget ==
  ASSUME NEW recs \in Seq(Record), NEW source \in Sources, NEW e \in Covered(source, recs)
  PROVE  \E i \in DOMAIN recs :
           /\ recs[i].verified /\ recs[i].example = e /\ recs[i].example \in Train
           /\ TargetOf(recs, Least(recs, VerifiedOf(recs, e))) = TargetOf(recs, i)
<1>1. VerifiedOf(recs, e) # {} /\ e \in Train
  BY DEF Covered, TrainingIn
<1>2. \A i \in VerifiedOf(recs, e) : i \in DOMAIN recs /\ recs[i].verified /\ recs[i].example = e
  BY DEF VerifiedOf, Verified
<1>3. Least(recs, VerifiedOf(recs, e)) \in VerifiedOf(recs, e)
  BY <1>1, <1>2, LeastIsOne
<1>4. QED
  BY <1>1, <1>2, <1>3

LEMMA DistilledRowsAre ==
  ASSUME NEW recs \in Seq(Record), NEW source \in Sources
  PROVE  /\ \A t \in DistilledRows(source, recs) : \E i \in DOMAIN recs :
              /\ recs[i].verified /\ t = TargetOf(recs, i)
              /\ recs[i].example \in Train
         /\ DistilledRows(source, recs) \in SUBSET Target
         /\ Covered(source, recs) \in SUBSET Train
         /\ \A e \in Covered(source, recs) : VerifiedOf(recs, e) # {}
<1>1. \A t \in DistilledRows(source, recs) : \E i \in DOMAIN recs :
        /\ recs[i].verified /\ t = TargetOf(recs, i)
        /\ recs[i].example \in Train
  BY DistilledTarget DEF DistilledRows
<1>2. \A i \in DOMAIN recs : recs[i].example \in Train => TargetOf(recs, i) \in Target
  BY DEF TargetOf, Target, Candidate
<1>3. DistilledRows(source, recs) \in SUBSET Target
  BY <1>1, <1>2
<1>4. QED
  BY <1>1, <1>3 DEF Covered, TrainingIn

LEMMA GoldRowsAre ==
  ASSUME NEW source \in Sources, NEW ids
  PROVE  /\ \A t \in GoldRows(source, ids) :
              t.example \in Train \cap ids /\ t.line = Gold
         /\ GoldRows(source, ids) \in SUBSET Target
<1>1. \A e \in Train : /\ GoldTarget(e) \in Target /\ GoldTarget(e).example = e
                       /\ GoldTarget(e).line = Gold
  BY DEF GoldTarget, Target, Gold
<1>2. \A t \in GoldRows(source, ids) : \E e \in Train \cap ids : t = GoldTarget(e)
  BY DEF GoldRows, TrainingIn
<1>3. QED
  BY <1>1, <1>2
-----------------------------------------------------------------------------
(***************************************************************************)
(* The inductive invariant.                                                *)
(***************************************************************************)
\* The rows of an arm: those it has, and those of the command that prepares it.
Holds(a, t) ==
  \/ t \in dataset[a]
  \/ t \in adapter[a].rows
  \/ \E c \in checkpoints[a] : t \in c
  \/ \E u \in trainers : u.arm = a /\ t \in u.rows
  \/ sft # NoCommand /\ sft.arm = a /\ t \in sft.rows

RightTarget(a, t) ==
  /\ t.example \in Train
  /\ IF a \in Distilled
     THEN \E i \in DOMAIN records : records[i].verified /\ t = TargetOf(records, i)
     ELSE t.line = Gold
  /\ a \in Paired \ Distilled => VerifiedOf(records, t.example) # {}

TargetsInv == \A a \in Arm : \A t \in Target : Holds(a, t) => RightTarget(a, t)

\* What the paired manifest names is solved: the output only grows.
PairingInv == \A e \in pairedManifest.ids : VerifiedOf(records, e) # {}

\* A run belongs to one arm, and once its trainer succeeded the arm has an adapter.
RunsInv ==
  /\ \A r \in succeeded : r =< runs
  /\ \A t \in trainers : t.run =< runs
  /\ sft # NoCommand =>
       /\ sft.run =< runs
       /\ \A t \in trainers : t.run = sft.run => t.arm = sft.arm
       /\ sft.run \in succeeded => adapter[sft.arm].state # "none"
       /\ sft.at = "manifest" => sft.run \in succeeded
  /\ PassMeansTrained

SftInv == SftTypeOK /\ TargetsInv /\ PairingInv /\ RunsInv
-----------------------------------------------------------------------------
LEMMA CommandTyped ==
  SftTypeOK /\ sft # NoCommand =>
    /\ sft \in Command /\ sft.arm \in Arm /\ sft.run \in Run /\ sft.rows \in SUBSET Target
  BY DEF SftTypeOK, Command

LEMMA InitInv == SftInit => SftInv
<1> SUFFICES ASSUME SftInit PROVE SftInv
  OBVIOUS
<1>2. NoAdapter \in Adapter /\ NoAdapter.rows = {}
  BY DEF NoAdapter, Adapter
<1>3. SftTypeOK
  BY <1>2 DEF SftInit, SftTypeOK, Status, NoPairing
<1>4. TargetsInv
  BY <1>2 DEF SftInit, TargetsInv, Holds
<1>5. PairingInv
  BY DEF SftInit, PairingInv, NoPairing
<1>6. RunsInv
  BY DEF SftInit, RunsInv, PassMeansTrained
<1>7. QED
  BY <1>3, <1>4, <1>5, <1>6 DEF SftInv
-----------------------------------------------------------------------------
(***************************************************************************)
(* The start of a command.                                                 *)
(***************************************************************************)
\* A command prepared with rows keeps the invariant when they are right for the arm
\* and the pairing it leaves is of solved examples.
LEMMA PreparedKeepsInv ==
  ASSUME SftInv, NEW a \in Arm, NEW rows \in SUBSET Target, Prepared(a, rows),
         pairedManifest' \in [written : BOOLEAN, ids : SUBSET Train],
         \A t \in rows : RightTarget(a, t),
         \A e \in pairedManifest'.ids : VerifiedOf(records, e) # {}
  PROVE  SftInv'
<1> USE DEF SftInv
<1>1. PICK dry \in BOOLEAN :
        sft' = [at |-> "dataset", arm |-> a, run |-> runs + 1, dry |-> dry, rows |-> rows]
  BY DEF Prepared
<1>2. /\ sft = NoCommand /\ runs' = runs + 1 /\ runs + 1 \in Run /\ runs \in 0 .. MaxRuns
      /\ UNCHANGED <<records, dataset, checkpoints, adapter, manifest, sftStatus, trainers,
                     succeeded, failed>>
  BY DEF Prepared, Run, SftTypeOK
<1>3. SftTypeOK'
  <2>1. sft' \in Command
    BY <1>1, <1>2 DEF Command
  <2>2. runs' \in 0 .. MaxRuns
    BY <1>2 DEF Run
  <2>3. QED
    BY <1>2, <2>1, <2>2 DEF SftTypeOK
<1>4. TargetsInv'
  <2> SUFFICES ASSUME NEW b \in Arm, NEW t \in Target, Holds(b, t)'
               PROVE  RightTarget(b, t)'
    BY DEF TargetsInv
  <2>1. Holds(b, t) \/ (b = a /\ t \in rows)
    BY <1>1, <1>2 DEF Holds
  <2>2. RightTarget(b, t)
    BY <2>1 DEF TargetsInv
  <2>3. QED
    BY <1>2, <2>2 DEF RightTarget
<1>5. PairingInv'
  BY <1>2 DEF PairingInv
<1>6. RunsInv'
  <2>1. /\ \A r \in succeeded : r \in Int /\ r =< runs
        /\ \A t \in trainers : t.run \in Int /\ t.run =< runs
    BY DEF RunsInv, SftTypeOK, Run, Trainer
  <2>2. sft'.run = runs + 1 /\ sft'.at = "dataset" /\ sft'.arm = a
    BY <1>1
  <2>3. \A r \in succeeded' : r =< runs' /\ r # sft'.run
    BY <1>2, <2>1, <2>2
  <2>4. \A t \in trainers' : t.run =< runs' /\ t.run # sft'.run
    BY <1>2, <2>1, <2>2
  <2>5. PassMeansTrained'
    BY <1>2 DEF RunsInv, PassMeansTrained
  <2>6. sft'.run =< runs'
    BY <1>2, <2>2
  <2>7. QED
    BY <2>2, <2>3, <2>4, <2>5, <2>6 DEF RunsInv
<1>7. QED
  BY <1>3, <1>4, <1>5, <1>6
-----------------------------------------------------------------------------
(***************************************************************************)
(* The other steps hold no new rows, but for a resumed trainer's.          *)
(***************************************************************************)
\* What is solved stays solved.
LEMMA SolvedStays ==
  ASSUME NEW e, VerifiedOf(records, e) # {},
         \A i \in DOMAIN records : i \in DOMAIN records' /\ records'[i] = records[i]
  PROVE  VerifiedOf(records', e) # {}
  BY DEF VerifiedOf, Verified

\* A step that brings no new target to any arm keeps the targets right, even if the
\* output grows; one that leaves the pairing alone keeps it solved.
LEMMA TargetsKept ==
  ASSUME TargetsInv, PairingInv, pairedManifest' = pairedManifest,
         \A i \in DOMAIN records : i \in DOMAIN records' /\ records'[i] = records[i],
         \A a \in Arm : \A t \in Target : Holds(a, t)' => Holds(a, t)
  PROVE  TargetsInv' /\ PairingInv'
<1>1. \A e : VerifiedOf(records, e) # {} => VerifiedOf(records', e) # {}
  BY SolvedStays
<1>2. \A a \in Arm : \A t \in Target : RightTarget(a, t) => RightTarget(a, t)'
  BY <1>1 DEF RightTarget, TargetOf
<1>3. TargetsInv'
  BY <1>2 DEF TargetsInv
<1>4. QED
  BY <1>1, <1>3 DEF PairingInv

\* Nor does a step of the command that goes on from one place to the next.
LEMMA CommandGoesOn ==
  ASSUME SftTypeOK, TargetsInv, PairingInv, sft # NoCommand,
         sft' = NoCommand \/ \E at \in {"launch", "wait", "manifest"} : sft' = [sft EXCEPT !.at = at],
         UNCHANGED <<records, pairedManifest, checkpoints, adapter, runs>>,
         dataset' \in {dataset, [dataset EXCEPT ![sft.arm] = sft.rows]},
         trainers' = trainers \/ \E t \in Trainer : t.rows = {} /\ trainers' = trainers \cup {t}
  PROVE  /\ sft' \in Command \cup {NoCommand}
         /\ sft' # NoCommand => /\ sft'.arm = sft.arm /\ sft'.run = sft.run
                                /\ sft'.rows = sft.rows
         /\ dataset' \in [Arm -> SUBSET Target]
         /\ TargetsInv' /\ PairingInv'
<1>1. sft \in Command /\ sft.arm \in Arm /\ sft.rows \in SUBSET Target
  BY CommandTyped
<1>2. /\ sft' \in Command \cup {NoCommand}
      /\ sft' # NoCommand => sft'.arm = sft.arm /\ sft'.run = sft.run /\ sft'.rows = sft.rows
  BY <1>1 DEF Command
<1>3. dataset' \in [Arm -> SUBSET Target]
  BY <1>1 DEF SftTypeOK
<1>4. \A a \in Arm : dataset'[a] = dataset[a] \/ (a = sft.arm /\ dataset'[a] = sft.rows)
  BY <1>1 DEF SftTypeOK
<1>5. \A t \in trainers' : t \in trainers \/ t.rows = {}
  OBVIOUS
<1>7. \A a \in Arm : \A t \in Target : Holds(a, t)' => Holds(a, t)
  BY <1>2, <1>4, <1>5 DEF Holds
<1>9. QED
  BY <1>2, <1>3, <1>7, TargetsKept

LEMMA CommandStepKeepsInv ==
  ASSUME SftInv,
         WriteDataset \/ DryRun \/ NotInstalled \/ Launch \/ RecordPass \/ TrainerFailed
           \/ WriteManifest \/ KillSft
  PROVE  SftInv'
<1> USE DEF SftInv
<1>0. /\ sft # NoCommand /\ sft \in Command /\ sft.run \in Run /\ sft.arm \in Arm
  BY CommandTyped
     DEF WriteDataset, DryRun, NotInstalled, Launch, RecordPass, TrainerFailed, WriteManifest,
         KillSft, Command
<1>a. sft.run \in 0 .. MaxRuns /\ 0 \in 0 .. MaxRuns
  BY <1>0 DEF Run
<1>b. ASSUME NEW state \in {"DRY_RUN", "BLOCKED", "PASS"}, RecordStatus(state)
      PROVE  /\ sftStatus' \in Status
             /\ sftStatus' = sftStatus \/ sftStatus' = [state |-> state, run |-> sft.run]
  BY <1>0, <1>a, <1>b DEF RecordStatus, Status, SftTypeOK
<1>1. CASE WriteDataset
  <2>1. TargetsInv' /\ PairingInv' /\ dataset' \in [Arm -> SUBSET Target]
        /\ sft' \in Command \cup {NoCommand} /\ sft'.arm = sft.arm /\ sft'.run = sft.run
        /\ sft'.at = "launch"
    BY <1>0, <1>1, CommandGoesOn DEF WriteDataset, NoCommand, Command
  <2>2. SftTypeOK'
    BY <1>1, <2>1 DEF WriteDataset, SftTypeOK
  <2>3. RunsInv'
    BY <1>0, <1>1, <2>1 DEF WriteDataset, RunsInv, PassMeansTrained
  <2>4. QED
    BY <2>1, <2>2, <2>3
<1>2. CASE DryRun \/ NotInstalled
  <2>1. TargetsInv' /\ PairingInv' /\ sft' = NoCommand
    BY <1>0, <1>2, CommandGoesOn DEF DryRun, NotInstalled
  <2>2. /\ sftStatus' \in Status
        /\ sftStatus' = sftStatus \/ sftStatus'.state # "PASS"
    BY <1>2, <1>b DEF DryRun, NotInstalled
  <2>3. SftTypeOK'
    BY <1>2, <2>1, <2>2 DEF DryRun, NotInstalled, SftTypeOK
  <2>4. RunsInv'
    BY <1>2, <2>1, <2>2 DEF DryRun, NotInstalled, RunsInv, PassMeansTrained
  <2>5. QED
    BY <2>1, <2>3, <2>4
<1>3. CASE Launch
  <2> DEFINE new == [at |-> "starting", arm |-> sft.arm, run |-> sft.run, rows |-> {},
                     resumes |-> sft.arm \in Resuming /\ checkpoints[sft.arm] # {}]
  <2>1. new \in Trainer /\ new.rows = {} /\ new.arm = sft.arm /\ new.run = sft.run
    BY <1>0 DEF Trainer
  <2>2. trainers' = trainers \cup {new} /\ sft' = [sft EXCEPT !.at = "wait"]
        /\ UNCHANGED <<records, sftFiles, succeeded, failed, runs>>
    BY <1>3 DEF Launch
  <2> HIDE DEF new
  <2>3. TargetsInv' /\ PairingInv' /\ sft' \in Command \cup {NoCommand}
        /\ sft'.arm = sft.arm /\ sft'.run = sft.run /\ sft'.at = "wait"
    BY <1>0, <2>1, <2>2, CommandGoesOn DEF sftFiles, NoCommand, Command
  <2>4. SftTypeOK'
    BY <2>1, <2>2, <2>3 DEF SftTypeOK, sftFiles
  <2>5. RunsInv'
    BY <1>0, <2>1, <2>2, <2>3 DEF RunsInv, PassMeansTrained, sftFiles
  <2>6. QED
    BY <2>3, <2>4, <2>5
<1>4. CASE RecordPass
  <2>1. TargetsInv' /\ PairingInv' /\ sft' \in Command \cup {NoCommand}
        /\ sft'.arm = sft.arm /\ sft'.run = sft.run /\ sft'.at = "manifest"
    BY <1>0, <1>4, CommandGoesOn DEF RecordPass, NoCommand, Command
  <2>2. /\ sftStatus' \in Status
        /\ sftStatus' = sftStatus \/ sftStatus'.run \in succeeded
    BY <1>4, <1>b DEF RecordPass
  <2>3. SftTypeOK'
    BY <1>4, <2>1, <2>2 DEF RecordPass, SftTypeOK
  <2>4. RunsInv'
    BY <1>0, <1>4, <2>1, <2>2 DEF RecordPass, RunsInv, PassMeansTrained
  <2>5. QED
    BY <2>1, <2>3, <2>4
<1>5. CASE TrainerFailed \/ KillSft
  <2>1. TargetsInv' /\ PairingInv' /\ sft' = NoCommand
    BY <1>0, <1>5, CommandGoesOn DEF TrainerFailed, KillSft, sftFiles
  <2>2. SftTypeOK'
    BY <1>5, <2>1 DEF TrainerFailed, KillSft, SftTypeOK, sftFiles
  <2>3. RunsInv'
    BY <1>5, <2>1 DEF TrainerFailed, KillSft, RunsInv, PassMeansTrained, sftFiles
  <2>4. QED
    BY <2>1, <2>2, <2>3
<1>6. CASE WriteManifest
  <2>1. TargetsInv' /\ PairingInv' /\ sft' = NoCommand
    BY <1>0, <1>6, CommandGoesOn DEF WriteManifest
  <2>2. manifest' \in [Arm -> 0 .. MaxRuns]
    BY <1>0, <1>6, <1>a DEF WriteManifest, SftTypeOK
  <2>3. SftTypeOK'
    BY <1>6, <2>1, <2>2 DEF WriteManifest, SftTypeOK
  <2>4. sft.run \in succeeded /\ adapter[sft.arm].state # "none"
    BY <1>6 DEF WriteManifest, RunsInv
  <2>5. \A a \in Arm : manifest'[a] = manifest[a] \/ (a = sft.arm /\ manifest'[a] = sft.run)
    BY <1>6 DEF WriteManifest, SftTypeOK
  <2>6. RunsInv'
    BY <1>6, <2>1, <2>4, <2>5 DEF WriteManifest, RunsInv, PassMeansTrained
  <2>7. QED
    BY <2>1, <2>3, <2>6
<1>7. QED
  BY <1>1, <1>2, <1>3, <1>4, <1>5, <1>6
-----------------------------------------------------------------------------
(***************************************************************************)
(* The trainers.                                                           *)
(***************************************************************************)
\* A trainer that goes on from t to u with the rows its arm has, or with its own
\* data, brings nothing new; nor does the adapter it leaves.
LEMMA TrainerGoesOn ==
  ASSUME SftTypeOK, TargetsInv, PairingInv, NEW t \in trainers,
         NEW u \in Trainer, u.arm = t.arm,
         trainers' \subseteq trainers \cup {u},
         UNCHANGED <<records, pairedManifest, dataset, sft, runs>>,
         \A x \in Target : x \in u.rows => Holds(t.arm, x),
         checkpoints' \in {checkpoints, [checkpoints EXCEPT ![t.arm] = @ \cup {t.rows}]},
         \/ adapter' = adapter
         \/ \E state \in {"torn", "whole"} : adapter' = [adapter EXCEPT ![t.arm] =
              [state |-> state, run |-> t.run, rows |-> t.rows]]
  PROVE  /\ adapter' \in [Arm -> Adapter] /\ checkpoints' \in [Arm -> SUBSET SUBSET Target]
         /\ \A a \in Arm : adapter[a].state # "none" => adapter'[a].state # "none"
         /\ TargetsInv' /\ PairingInv'
<1>1. /\ t \in Trainer /\ t.arm \in Arm /\ t.run \in Run
      /\ t.rows \in SUBSET Target /\ t.run \in 0 .. MaxRuns
  BY DEF SftTypeOK, Trainer, Run
<1>2. \A state \in {"torn", "whole"} :
        [state |-> state, run |-> t.run, rows |-> t.rows] \in Adapter
  BY <1>1 DEF Adapter
<1>0. adapter \in [Arm -> Adapter] /\ checkpoints \in [Arm -> SUBSET SUBSET Target]
  BY DEF SftTypeOK
<1>3. adapter' \in [Arm -> Adapter]
  BY <1>0, <1>1, <1>2
<1>4. \A a \in Arm : \/ adapter'[a] = adapter[a]
                     \/ /\ a = t.arm /\ adapter'[a].rows = t.rows
                        /\ adapter'[a].state # "none"
  BY <1>0, <1>1
<1>5. checkpoints' \in [Arm -> SUBSET SUBSET Target]
  BY <1>0, <1>1
<1>6. \A a \in Arm : \A c \in checkpoints'[a] :
        c \in checkpoints[a] \/ (a = t.arm /\ c = t.rows)
  BY <1>1 DEF SftTypeOK
<1>7. \A a \in Arm : \A x \in Target : Holds(a, x)' => Holds(a, x)
  BY <1>4, <1>6 DEF Holds
<1>9. QED
  BY <1>3, <1>4, <1>5, <1>7, TargetsKept

LEMMA TrainerStepKeepsInv ==
  ASSUME SftInv, NEW t \in trainers,
         Load(t) \/ SaveCheckpoint(t) \/ StartSaving(t) \/ Finish(t) \/ Fail(t)
  PROVE  SftInv'
<1> USE DEF SftInv
<1>0. /\ t \in Trainer /\ t.arm \in Arm /\ t.run \in Run
      /\ t.rows \in SUBSET Target /\ t.resumes \in BOOLEAN
  BY DEF SftTypeOK, Trainer
<1>a. \A x \in Target : x \in t.rows => Holds(t.arm, x)
  BY DEF Holds
<1>b. /\ \A u \in trainers : u.run =< runs
      /\ \A r \in succeeded : r =< runs
  BY DEF RunsInv
<1>c. sft # NoCommand => sft.arm \in Arm
  BY CommandTyped
<1>1. CASE Load(t)
  <2>1. PICK learned \in IF t.resumes THEN checkpoints[t.arm] ELSE {{}},
             more \in {dataset[t.arm]} \cup IF t.resumes THEN {{}} ELSE {} :
          trainers' = (trainers \ {t}) \cup
            {[t EXCEPT !.at = "training", !.rows = learned \cup more]}
    BY <1>1 DEF Load
  <2> DEFINE u == [t EXCEPT !.at = "training", !.rows = learned \cup more]
  <2>2. dataset[t.arm] \in SUBSET Target
    BY <1>0 DEF SftTypeOK
  <2>3. learned \cup more \in SUBSET Target
    BY <1>0, <2>1, <2>2 DEF SftTypeOK
  <2>6. \A x \in Target : x \in learned \cup more => Holds(t.arm, x)
    BY <2>1 DEF Holds
  <2>7. u \in Trainer /\ u.arm = t.arm /\ u.run = t.run /\ u.rows = learned \cup more
    BY <1>0, <2>3 DEF Trainer
  <2>8. trainers' = (trainers \ {t}) \cup {u} /\ UNCHANGED <<records, sftFiles, sft, succeeded, failed, runs>>
    BY <1>1, <2>1 DEF Load
  <2> HIDE DEF u
  <2>9. /\ TargetsInv' /\ PairingInv'
    BY <2>6, <2>7, <2>8, TrainerGoesOn DEF sftFiles
  <2>10. SftTypeOK'
    BY <2>7, <2>8 DEF SftTypeOK, sftFiles
  <2>11. RunsInv'
    BY <2>7, <2>8 DEF RunsInv, PassMeansTrained, sftFiles
  <2>12. QED
    BY <2>9, <2>10, <2>11
<1>2. CASE SaveCheckpoint(t)
  <2>1. TargetsInv' /\ PairingInv' /\ checkpoints' \in [Arm -> SUBSET SUBSET Target]
    BY <1>0, <1>2, <1>a, TrainerGoesOn DEF SaveCheckpoint
  <2>2. SftTypeOK'
    BY <1>2, <2>1 DEF SaveCheckpoint, SftTypeOK
  <2>3. RunsInv'
    BY <1>2 DEF SaveCheckpoint, RunsInv, PassMeansTrained
  <2>4. QED
    BY <2>1, <2>2, <2>3
<1>3. CASE StartSaving(t)
  <2> DEFINE u == [t EXCEPT !.at = "saving"]
  <2>1. u \in Trainer /\ u.arm = t.arm /\ u.run = t.run /\ u.rows = t.rows
    BY <1>0 DEF Trainer
  <2>2. trainers' = (trainers \ {t}) \cup {u}
    BY <1>3 DEF StartSaving
  <2> HIDE DEF u
  <2>3. /\ TargetsInv' /\ PairingInv' /\ adapter' \in [Arm -> Adapter]
        /\ \A a \in Arm : adapter[a].state # "none" => adapter'[a].state # "none"
    BY <1>3, <1>a, <2>1, <2>2, TrainerGoesOn DEF StartSaving
  <2>4. SftTypeOK'
    BY <1>3, <2>1, <2>2, <2>3 DEF StartSaving, SftTypeOK
  <2>5. RunsInv'
    BY <1>3, <1>c, <2>1, <2>2, <2>3 DEF StartSaving, RunsInv, PassMeansTrained
  <2>6. QED
    BY <2>3, <2>4, <2>5
<1>4. CASE Finish(t)
  <2>1. /\ TargetsInv' /\ PairingInv' /\ adapter' \in [Arm -> Adapter]
        /\ \A a \in Arm : adapter[a].state # "none" => adapter'[a].state # "none"
    BY <1>0, <1>4, <1>a, TrainerGoesOn DEF Finish
  <2>2. adapter'[t.arm].state # "none"
    BY <1>0, <1>4 DEF Finish, SftTypeOK
  <2>3. SftTypeOK'
    BY <1>0, <1>4, <2>1 DEF Finish, SftTypeOK
  <2>4. sft # NoCommand /\ sft.run = t.run => sft.arm = t.arm
    BY DEF RunsInv
  <2>5. RunsInv'
    <3>1. \A r \in succeeded' : r \in succeeded \/ r = t.run
      BY <1>4 DEF Finish
    <3>2. PassMeansTrained'
      BY <1>4, <2>1 DEF Finish, RunsInv, PassMeansTrained
    <3>3. QED
      BY <1>4, <1>b, <1>c, <2>1, <2>2, <2>4, <3>1, <3>2 DEF Finish, RunsInv
  <2>6. QED
    BY <2>1, <2>3, <2>5
<1>5. CASE Fail(t)
  <2>1. TargetsInv' /\ PairingInv'
    BY <1>0, <1>5, <1>a, TrainerGoesOn DEF Fail, sftFiles
  <2>2. SftTypeOK'
    BY <1>0, <1>5 DEF Fail, SftTypeOK, sftFiles
  <2>3. RunsInv'
    BY <1>5 DEF Fail, RunsInv, PassMeansTrained, sftFiles
  <2>4. QED
    BY <2>1, <2>2, <2>3
<1>6. QED
  BY <1>1, <1>2, <1>3, <1>4, <1>5
-----------------------------------------------------------------------------
LEMMA StartKeepsInv ==
  ASSUME SftInv, NEW a \in Arm, NEW source \in Sources,
         PairTargets(a, source) \/ SelectGold(a, source)
  PROVE  SftInv'
<1> USE DEF SftInv
<1>0. /\ records \in Seq(Record)
      /\ pairedManifest \in [written : BOOLEAN, ids : SUBSET Train]
      /\ \A e \in pairedManifest.ids : VerifiedOf(records, e) # {}
  BY DEF SftTypeOK, PairingInv
<1>1. CASE PairTargets(a, source)
  <2>1. a \in Distilled /\ Prepared(a, DistilledRows(source, records))
    BY <1>1 DEF PairTargets
  <2>2. \A t \in DistilledRows(source, records) : RightTarget(a, t)
    <3>1. \A i \in DOMAIN records : TargetOf(records, i).example = records[i].example
      BY DEF TargetOf
    <3>2. QED
      BY <1>0, <2>1, <3>1, DistilledRowsAre DEF RightTarget
  <2>3. \/ pairedManifest' = pairedManifest
        \/ pairedManifest' = [written |-> TRUE, ids |-> Covered(source, records)]
    BY <1>1 DEF PairTargets
  <2>4. /\ pairedManifest' \in [written : BOOLEAN, ids : SUBSET Train]
        /\ \A e \in pairedManifest'.ids : VerifiedOf(records, e) # {}
    <3>1. /\ Covered(source, records) \in SUBSET Train
          /\ \A e \in Covered(source, records) : VerifiedOf(records, e) # {}
      BY <1>0, DistilledRowsAre
    <3>2. [written |-> TRUE, ids |-> Covered(source, records)]
            \in [written : BOOLEAN, ids : SUBSET Train]
      BY <3>1
    <3>3. CASE pairedManifest' = pairedManifest
      BY <1>0, <3>3
    <3>4. CASE pairedManifest' = [written |-> TRUE, ids |-> Covered(source, records)]
      BY <3>1, <3>2, <3>4
    <3>5. QED
      BY <2>3, <3>3, <3>4
  <2>5. QED
    BY <1>0, <2>1, <2>2, <2>4, DistilledRowsAre, PreparedKeepsInv
<1>2. CASE SelectGold(a, source)
  <2>1. a \in Arm \ Distilled /\ pairedManifest' = pairedManifest
    BY <1>2 DEF SelectGold
  <2>2. CASE a \notin Paired /\ Prepared(a, GoldRows(source, Example))
    <3>1. \A t \in GoldRows(source, Example) : RightTarget(a, t)
      BY <2>1, <2>2, GoldRowsAre DEF RightTarget
    <3>2. QED
      BY <1>0, <2>1, <2>2, <3>1, GoldRowsAre, PreparedKeepsInv
  <2>3. CASE a \in Paired /\ Prepared(a, GoldRows(source, pairedManifest.ids))
    <3>1. \A t \in GoldRows(source, pairedManifest.ids) : RightTarget(a, t)
      BY <1>0, <2>1, <2>3, GoldRowsAre DEF RightTarget
    <3>2. QED
      BY <1>0, <2>1, <2>3, <3>1, GoldRowsAre, PreparedKeepsInv
  <2>4. QED
    BY <1>2, <2>2, <2>3 DEF SelectGold
<1>3. QED
  BY <1>1, <1>2

LEMMA DistillKeepsInv ==
  ASSUME SftInv, Distill
  PROVE  SftInv'
<1> USE DEF SftInv
<1>0. PICK r \in Record : records' = Append(records, r)
  BY DEF Distill, Ledger!Add
<1>1. /\ records' \in Seq(Record)
      /\ \A i \in DOMAIN records : i \in DOMAIN records' /\ records'[i] = records[i]
  BY <1>0 DEF SftTypeOK
<1>2. UNCHANGED <<sftFiles, sft, trainers, succeeded, failed, runs>>
  BY DEF Distill
<1>3. SftTypeOK'
  BY <1>1, <1>2 DEF SftTypeOK, sftFiles
<1>4. TargetsInv' /\ PairingInv'
  BY <1>1, <1>2, TargetsKept DEF Holds, sftFiles
<1>6. RunsInv'
  BY <1>2 DEF RunsInv, PassMeansTrained, sftFiles
<1>7. QED
  BY <1>3, <1>4, <1>6

\* SftInv is inductive: what a step of the commands, the trainers or the pipeline
\* does, in any order, keeps it.
THEOREM SftInvInductive ==
  ASSUME SftInv, [SftNext]_sftVars
  PROVE  SftInv'
<1>1. CASE Distill
  BY <1>1, DistillKeepsInv
<1>2. CASE \E a \in Arm, source \in Sources : PairTargets(a, source) \/ SelectGold(a, source)
  BY <1>2, StartKeepsInv
<1>3. CASE WriteDataset \/ DryRun \/ NotInstalled \/ Launch \/ RecordPass \/ TrainerFailed
             \/ WriteManifest \/ KillSft
  BY <1>3, CommandStepKeepsInv
<1>4. CASE TrainerStep
  BY <1>4, TrainerStepKeepsInv DEF TrainerStep
<1>5. CASE UNCHANGED sftVars
  BY <1>5 DEF SftInv, SftTypeOK, TargetsInv, Holds, RightTarget, PairingInv, RunsInv,
              PassMeansTrained, sftVars, sftFiles
<1>6. QED
  BY <1>1, <1>2, <1>3, <1>4, <1>5 DEF SftNext, SftCommand

THEOREM SftInvariant == SftSpec => []SftInv
<1>1. SftInv /\ [SftNext]_sftVars => SftInv'
  BY SftInvInductive
<1>2. QED
  BY <1>1, InitInv, PTL DEF SftSpec

\* Every variable has its type.
THEOREM SftTypeCorrect == SftSpec => []SftTypeOK
<1>1. SftInv => SftTypeOK
  BY DEF SftInv
<1>2. QED
  BY <1>1, SftInvariant, PTL

\* What an arm has learned or holds to learn from is right for it.
LEMMA RowsAreRight ==
  ASSUME SftInv, NEW a \in Arm, NEW t \in RowsOf(a)
  PROVE  RightTarget(a, t)
<1> DEFINE taught == UNION {u.rows : u \in {u \in trainers : u.arm = a}}
           saved  == UNION checkpoints[a]
<1>a. \A x \in taught : \E u \in trainers : u.arm = a /\ x \in u.rows
  OBVIOUS
<1>b. \A x \in saved : \E c \in checkpoints[a] : x \in c
  OBVIOUS
<1>c. RowsOf(a) = dataset[a] \cup adapter[a].rows \cup saved \cup taught
  BY DEF RowsOf
<1> HIDE DEF taught, saved
<1>d. \/ t \in dataset[a] \/ t \in adapter[a].rows
      \/ \E c \in checkpoints[a] : t \in c
      \/ \E u \in trainers : u.arm = a /\ t \in u.rows
  BY <1>a, <1>b, <1>c
<1>1. Holds(a, t)
  BY <1>d DEF Holds
<1>2. t \in Target
  <2>1. dataset[a] \subseteq Target /\ adapter[a].rows \subseteq Target
    BY DEF SftInv, SftTypeOK, Adapter
  <2>2. \A c \in checkpoints[a] : c \subseteq Target
    BY DEF SftInv, SftTypeOK
  <2>3. \A u \in trainers : u.rows \subseteq Target
    BY DEF SftInv, SftTypeOK, Trainer
  <2>4. QED
    BY <1>d, <2>1, <2>2, <2>3
<1>3. QED
  BY <1>1, <1>2 DEF SftInv, TargetsInv

\* Whatever is resumed, killed or collected meanwhile, an arm has only targets of
\* its own kind, of training examples.
THEOREM TargetsAreRight == SftSpec => []OnlyItsTargets
<1>1. SftInv => OnlyItsTargets
  BY RowsAreRight DEF OnlyItsTargets, RightTarget
<1>2. QED
  BY <1>1, SftInvariant, PTL

\* Whatever the files of examples hold and however often the arms are paired again,
\* the gold arm that is paired learns only examples the teacher has solved.
THEOREM PairedGoldHasTeacher == SftSpec => []PairedGoldIsSolved
<1>1. SftInv => PairedGoldIsSolved
  BY RowsAreRight DEF PairedGoldIsSolved, RightTarget
<1>2. QED
  BY <1>1, SftInvariant, PTL

\* PASS and the artifact manifest are only written for runs that trained an adapter.
THEOREM PassIsTrained == SftSpec => []PassMeansTrained
<1>1. SftInv => PassMeansTrained
  BY DEF SftInv, RunsInv
<1>2. QED
  BY <1>1, SftInvariant, PTL
=============================================================================
