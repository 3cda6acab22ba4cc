----------------------------- MODULE FormalSplits -----------------------------
(***************************************************************************)
(* The frozen splits of the BIRD training source and the three programs    *)
(* that write them: the splitter (data/splitter.py) draws the engineering  *)
(* validation set, tools/build_formal_readiness.py draws the formal        *)
(* validation set, tools/build_final_pretraining_gate.py gives every row   *)
(* its role, rewrites all the split files, two of which it has just read,  *)
(* and pins the result in the protocol lock.  The training commands read   *)
(* whichever of these files their configuration names.                     *)
(*                                                                         *)
(* One program runs at a time and each may be killed.  No file is replaced *)
(* atomically: a killed write leaves the first rows, perhaps a broken one. *)
(***************************************************************************)
EXTENDS Integers, FiniteSets

CONSTANTS
  NumRows,         \* rows of the filtered training source (6601), in file order
  DbOf,            \* the database of each row, numbered in the order of their names
  QuestionOf,      \* the question of each row without its outer white space
  Padded,          \* the rows whose question has outer white space in the source
  Usable,          \* the rows whose database is there and whose gold SQL runs in time
  MaxTrain,        \* --max-train of prepare-bird
  Shuffle(_, _),   \* Shuffle(seed, pool): the places a seeded shuffle gives a pool
  Seed,            \* the seeds the splitter is called with
  FormalSeed,      \* the seed of the formal validation set (20260818)
  ValidationSize,  \* the validation_size values the splitter is called with
  TuningSize,      \* rows the gate expects for engineering validation (120)
  FormalSize,      \* rows drawn and expected for formal validation (256)
  MaxCommands      \* bound: how many programs are run

Row == 1 .. NumRows

ASSUME SizeAssumption ==
  /\ NumRows \in Nat /\ MaxTrain \in Nat
  /\ TuningSize \in Nat /\ FormalSize \in Nat /\ MaxCommands \in Nat
  /\ ValidationSize \subseteq Nat
ASSUME SourceAssumption ==
  /\ DbOf \in [Row -> Nat] /\ Padded \subseteq Row /\ Usable \subseteq Row
  /\ DOMAIN QuestionOf = Row
ASSUME ShuffleAssumption ==
  \A seed \in Seed \cup {FormalSeed} : \A pool \in SUBSET Row :
    LET order == Shuffle(seed, pool) IN
    /\ order \in [pool -> Nat]
    /\ \A r, s \in pool : order[r] = order[s] => r = s

VARIABLES
  \* the files
  file,       \* the split files
  report,     \* the leakage report
  lock,       \* the protocol lock: the rows its manifest hashes stand for
  \* the running program
  pc,         \* what it is about to write, "idle" when none runs
  plan,       \* the rows it decided on, by role, and their order in the files
  \* history
  selection,  \* the rows the splitter and the readiness script last drew
  redrawn,    \* have other rows been drawn than the lock was written from?
  trained,    \* the last training run: its source and the validation rows it saw
  commands,   \* programs run so far
  outcome     \* how the last one ended

drawn == <<selection, redrawn>>
vars == <<file, report, lock, pc, plan, drawn, trained, commands, outcome>>
-----------------------------------------------------------------------------
\* What the content of a row tells apart: the same row with its question stripped
\* is another content when the source pads the question.
Identity == [row : Row, padded : BOOLEAN]
RawIdentity(r)      == [row |-> r, padded |-> r \in Padded]
StrippedIdentity(r) == [row |-> r, padded |-> FALSE]
Raw(rows)      == {RawIdentity(r) : r \in rows}
Stripped(rows) == {StrippedIdentity(r) : r \in rows}
RowsOf(ids)    == {i.row : i \in ids}

Key(r)     == <<DbOf[r], QuestionOf[r]>>
Keys(rows) == {Key(r) : r \in rows}

Name    == {"train_core", "validation_tuning", "formal_validation",
            "engineering_validation", "formal_train"}
File    == [present : BOOLEAN, rows : SUBSET Identity, broken : BOOLEAN]
Absent  == [present |-> FALSE, rows |-> {}, broken |-> FALSE]
Whole(ids) == [present |-> TRUE, rows |-> ids, broken |-> FALSE]

\* json.loads raises on a broken line, read_text on a missing file.
Readable(name) == file[name].present /\ ~file[name].broken

\* The split field of the rows of each file.
SplitOf(name) ==
  CASE name \in {"train_core", "formal_train"} -> "train"
    [] name = "formal_validation" -> "formal_validation"
    [] OTHER -> "validation_tuning"

Nothing == [state |-> "none"]
Torn    == [state |-> "torn"]
Report  == {Nothing, Torn} \cup [state : {"whole"}, shared : Nat]
Lock    == {Nothing, Torn} \cup
  [state : {"whole"}, tuning : SUBSET Row, formal : SUBSET Row, train : SUBSET Row]

Plan      == [tuning : SUBSET Row, formal : SUBSET Row, train : SUBSET Row, rank : [Row -> Nat]]
Selection == [tuning : SUBSET Row, formal : SUBSET Row]
Trained   == [source : Name \cup {"none"}, seen : SUBSET Row]
GateAt    == {"engineering", "tuning", "formal", "train", "manifests", "databases",
              "report", "lock"}
At        == {"idle", "core", "drawn_tuning", "drawn_formal"} \cup GateAt
Outcome   == {"none", "refused", "killed", "databases", "split", "ready", "published",
              "trained"}
-----------------------------------------------------------------------------
\* build_bird_examples: the first MaxTrain rows that can be used, in file order; the
\* others are counted and left out.  Only the splitter starts from them.
Prepared == {r \in Usable : Cardinality({s \in Usable : s < r}) < MaxTrain}

\* The stratified round robin: the databases give one row each in every round,
\* in the order of their names, each in its shuffled order.
RoundOf(order, pool, r) ==
  Cardinality({s \in pool : DbOf[s] = DbOf[r] /\ order[s] < order[r]})

\* Faulty variant: a database gives all its rows before the next one gives any.
EarlierByDatabase(order, pool, r) ==
  {s \in pool : \/ DbOf[s] < DbOf[r]
                \/ DbOf[s] = DbOf[r] /\ order[s] < order[r]}

Earlier(order, pool, r) ==
  {s \in pool : \/ RoundOf(order, pool, s) < RoundOf(order, pool, r)
                \/ RoundOf(order, pool, s) = RoundOf(order, pool, r) /\ DbOf[s] < DbOf[r]}

RankIn(order, pool) ==
  [r \in Row |-> IF r \in pool THEN Cardinality(Earlier(order, pool, r)) ELSE NumRows]

First(rank, pool, n) == {r \in pool : rank[r] < n}

\* The formal draw begins with a round of its own that asks no size: every database
\* gives a row, however many there are.
FormalDraw(pool) ==
  LET databases == Cardinality({DbOf[r] : r \in pool}) IN
  IF FormalSize > databases THEN FormalSize ELSE databases

FileOrder == [r \in Row |-> r]

NoPlan     == [tuning |-> {}, formal |-> {}, train |-> {}, rank |-> FileOrder]
NoTraining == [source |-> "none", seen |-> {}]

\* What a killed write may leave: the rows up to some point of the file's order, and
\* perhaps part of the next one.
Prefixes(ids, rank) ==
  {[present |-> TRUE, rows |-> {i \in ids : rank[i.row] < n}, broken |-> b] :
     n \in 0 .. NumRows + 1, b \in BOOLEAN}
-----------------------------------------------------------------------------
Init ==
  /\ file = [name \in Name |-> Absent]
  /\ report = Nothing /\ lock = Nothing
  /\ pc = "idle"
  /\ plan = NoPlan
  /\ selection = [tuning |-> {}, formal |-> {}] /\ redrawn = FALSE
  /\ trained = NoTraining
  /\ commands = 0 /\ outcome = "none"

Starts(at) ==
  /\ pc = "idle" /\ commands < MaxCommands
  /\ pc' = at
  /\ commands' = commands + 1
  /\ outcome' = "none" /\ trained' = NoTraining

\* The process is gone, and with it what it had worked out.
Ends(how) == pc' = "idle" /\ outcome' = how /\ plan' = NoPlan

\* A program that does all its work in one step.
AtOnce(how) ==
  /\ pc = "idle" /\ commands < MaxCommands
  /\ commands' = commands + 1
  /\ outcome' = how
  /\ UNCHANGED <<file, report, lock, pc, plan, drawn>>

Draws(sel) == selection' = sel /\ redrawn' = (redrawn \/ sel # selection)

Write(name, ids) == file' = [file EXCEPT ![name] = Whole(ids)]

\* A program that stops before it has written anything.
Refuses(cond) ==
  /\ cond
  /\ AtOnce("refused")
  /\ trained' = NoTraining
-----------------------------------------------------------------------------
\* create_train_validation_split
SplitRefused == \E size \in ValidationSize : Refuses(Cardinality(Prepared) <= size)

Split ==
  \E seed \in Seed, size \in ValidationSize :
    LET rank == RankIn(Shuffle(seed, Prepared), Prepared)
        tuning == First(rank, Prepared, size) IN
    /\ Starts("core")
    /\ Cardinality(Prepared) > size
    /\ plan' = [tuning |-> tuning, formal |-> {}, train |-> Prepared \ tuning, rank |-> rank]
    /\ UNCHANGED <<file, report, lock, drawn>>

\* train_core.jsonl is closed and validation_tuning.jsonl opened, which empties it.
WriteCore ==
  /\ pc = "core"
  /\ file' = [file EXCEPT !["train_core"] = Whole(Stripped(plan.train)),
                          !["validation_tuning"] = Whole({})]
  /\ pc' = "drawn_tuning"
  /\ Draws([selection EXCEPT !.tuning = plan.tuning])
  /\ UNCHANGED <<report, lock, plan, trained, commands, outcome>>

\* The manifest that follows is read by no other program.
WriteDrawnTuning ==
  /\ pc = "drawn_tuning"
  /\ Write("validation_tuning", Stripped(plan.tuning))
  /\ Ends("split")
  /\ UNCHANGED <<report, lock, drawn, trained, commands>>

\* build_formal_readiness.py: the pool leaves out every row that shares its question
\* with the engineering validation set, which is taken as it is found.  The file drawn
\* before is emptied when it is opened.
ReadinessRefused == Refuses(~Readable("validation_tuning"))

Readiness ==
  LET pool == {r \in Row : Key(r) \notin Keys(RowsOf(file["validation_tuning"].rows))}
      rank == RankIn(Shuffle(FormalSeed, pool), pool)
      formal == First(rank, pool, FormalDraw(pool)) IN
  /\ Starts("drawn_formal")
  /\ Readable("validation_tuning")
  /\ plan' = [tuning |-> {}, formal |-> formal,
              train |-> {r \in pool : Key(r) \notin Keys(formal)}, rank |-> rank]
  /\ Write("formal_validation", {})
  /\ Draws([selection EXCEPT !.formal = formal])
  /\ UNCHANGED <<report, lock>>

\* The rows keep their question as the source has it.
WriteDrawnFormal ==
  /\ pc = "drawn_formal"
  /\ Write("formal_validation", Raw(plan.formal))
  /\ Ends("ready")
  /\ UNCHANGED <<report, lock, drawn, trained, commands>>
-----------------------------------------------------------------------------
\* build_final_pretraining_gate.py: the role of a row is found by its full content.
RoleTuning == {r \in Row : RawIdentity(r) \in file["validation_tuning"].rows}
RoleFormal ==
  {r \in Row : RawIdentity(r) \in file["formal_validation"].rows} \ RoleTuning
RoleTrain  == Row \ (RoleTuning \cup RoleFormal)

\* Faulty variant: the gate trusts the number of rows it finds.
GateAcceptsAnyCount ==
  /\ Readable("validation_tuning") /\ Readable("formal_validation")
  /\ file["validation_tuning"].rows \cap file["formal_validation"].rows = {}

GateAccepts ==
  /\ Readable("validation_tuning") /\ Readable("formal_validation")
  /\ Cardinality(file["validation_tuning"].rows) = TuningSize
  /\ Cardinality(file["formal_validation"].rows) = FormalSize
  /\ file["validation_tuning"].rows \cap file["formal_validation"].rows = {}
  /\ Cardinality(RoleTuning) = TuningSize
  /\ Cardinality(RoleFormal) = FormalSize
  /\ Cardinality(RoleTrain) = NumRows - TuningSize - FormalSize

GateRefused == Refuses(~GateAccepts)

\* The schema of every training database is read before the first split file is
\* written: one that is missing or damaged ends the run here.
DatabaseUnread == Refuses(GateAccepts)

Gate ==
  /\ Starts("engineering")
  /\ GateAccepts
  /\ plan' = [tuning |-> RoleTuning, formal |-> RoleFormal, train |-> RoleTrain,
              rank |-> FileOrder]
  /\ UNCHANGED <<file, report, lock, drawn>>

\* One of the gate's split files: their questions are stripped.
GateWrites(at, name, rows, next) ==
  /\ pc = at
  /\ Write(name, Stripped(rows))
  /\ pc' = next
  /\ UNCHANGED <<report, lock, plan, drawn, trained, commands, outcome>>

\* Faulty variant: formal_train.jsonl is the whole source without the formal set.
WriteFormalTrainTooWide ==
  GateWrites("train", "formal_train", Row \ plan.formal, "manifests")

WriteEngineering == GateWrites("engineering", "engineering_validation", plan.tuning, "tuning")
WriteTuning      == GateWrites("tuning", "validation_tuning", plan.tuning, "formal")
WriteFormal      == GateWrites("formal", "formal_validation", plan.formal, "train")
WriteFormalTrain == GateWrites("train", "formal_train", plan.train, "manifests")

\* The migration table and the split manifests: no program decides anything by them.
WriteManifests ==
  /\ pc = "manifests"
  /\ pc' = "databases"
  /\ UNCHANGED <<file, report, lock, plan, drawn, trained, commands, outcome>>

\* The whole registry is examined only now, the Mini-Dev databases for the first time:
\* one that is missing or damaged, or has no schema hash, ends the run with the split
\* files already rewritten.
CheckDatabases ==
  /\ pc = "databases"
  /\ \/ pc' = "report" /\ UNCHANGED <<plan, outcome>>
     \/ Ends("databases")
  /\ UNCHANGED <<file, report, lock, drawn, trained, commands>>

\* Faulty variant: overlap is looked for among ids, which never collide.
SharedById(a, b, c) ==
  Cardinality(a \cap b) + Cardinality(a \cap c) + Cardinality(b \cap c)

\* pairwise_split_content_overlap
Shared(a, b, c) ==
  Cardinality(Keys(a) \cap Keys(b)) + Cardinality(Keys(a) \cap Keys(c))
    + Cardinality(Keys(b) \cap Keys(c))

WriteReport ==
  /\ pc = "report"
  /\ report' = [state |-> "whole", shared |-> Shared(plan.train, plan.tuning, plan.formal)]
  /\ pc' = "lock"
  /\ UNCHANGED <<file, lock, plan, drawn, trained, commands, outcome>>

\* Faulty variant: the lock has no hash of the training manifest.
WriteLockWithoutTrain ==
  /\ pc = "lock"
  /\ lock' = [state |-> "whole", tuning |-> plan.tuning, formal |-> plan.formal]
  /\ redrawn' = (plan.tuning # selection.tuning \/ plan.formal # selection.formal)
  /\ Ends("published")
  /\ UNCHANGED <<file, report, selection, trained, commands>>

WriteLock ==
  /\ pc = "lock"
  /\ lock' = [state |-> "whole", tuning |-> plan.tuning, formal |-> plan.formal,
              train |-> plan.train]
  /\ redrawn' = (plan.tuning # selection.tuning \/ plan.formal # selection.formal)
  /\ Ends("published")
  /\ UNCHANGED <<file, report, selection, trained, commands>>
-----------------------------------------------------------------------------
\* The file a program is writing, and the rows it writes into it.
Open ==
  [core         |-> [name |-> "train_core", ids |-> Stripped(plan.train), rank |-> FileOrder],
   drawn_tuning |-> [name |-> "validation_tuning", ids |-> Stripped(plan.tuning), rank |-> plan.rank],
   drawn_formal |-> [name |-> "formal_validation", ids |-> Raw(plan.formal), rank |-> plan.rank],
   engineering  |-> [name |-> "engineering_validation", ids |-> Stripped(plan.tuning), rank |-> plan.rank],
   tuning       |-> [name |-> "validation_tuning", ids |-> Stripped(plan.tuning), rank |-> plan.rank],
   formal       |-> [name |-> "formal_validation", ids |-> Stripped(plan.formal), rank |-> plan.rank],
   train        |-> [name |-> "formal_train", ids |-> Stripped(plan.train), rank |-> plan.rank]]

\* The process is killed: what it was writing is cut short, or not opened yet.
Kill ==
  /\ pc # "idle"
  /\ IF pc \in DOMAIN Open
       THEN \E left \in Prefixes(Open[pc].ids, Open[pc].rank) \cup {file[Open[pc].name]} :
              file' = [file EXCEPT ![Open[pc].name] = left]
       ELSE UNCHANGED file
  /\ report' \in (IF pc = "report" THEN {report, Torn} ELSE {report})
  /\ lock' \in (IF pc = "lock" THEN {lock, Torn} ELSE {lock})
  /\ Ends("killed")
  /\ UNCHANGED <<drawn, trained, commands>>

\* load_examples, then SplitPolicy.apply, which raises on a row marked as validation.
Admitted(name) == Readable(name) /\ (SplitOf(name) = "train" \/ file[name].rows = {})

\* A training command.  assert_formal_training_source is called by none of them.
Train(name) ==
  /\ AtOnce("trained")
  /\ Admitted(name)
  /\ trained' = [source |-> name,
                 seen |-> RowsOf(file[name].rows) \cap
                            RowsOf(file["formal_validation"].rows
                                     \cup file["validation_tuning"].rows)]

TrainRefused ==
  \E name \in Name : Refuses(~Admitted(name))

Next ==
  \/ SplitRefused \/ Split \/ WriteCore \/ WriteDrawnTuning
  \/ ReadinessRefused \/ Readiness \/ WriteDrawnFormal
  \/ GateRefused \/ DatabaseUnread \/ Gate
  \/ WriteEngineering \/ WriteTuning \/ WriteFormal \/ WriteFormalTrain
  \/ WriteManifests \/ CheckDatabases \/ WriteReport \/ WriteLock
  \/ Kill
  \/ \E name \in Name : Train(name)
  \/ TrainRefused

Spec == Init /\ [][Next]_vars
-----------------------------------------------------------------------------
\* Every variable keeps its type.
TypeOK ==
  /\ file \in [Name -> File]
  /\ report \in Report /\ lock \in Lock
  /\ pc \in At
  /\ plan \in Plan
  /\ selection \in Selection /\ redrawn \in BOOLEAN
  /\ trained \in Trained
  /\ commands \in 0 .. MaxCommands
  /\ outcome \in Outcome

\* The held-out rows of a database, and a draw in which no database that still has
\* rows is two behind another.
OfDatabase(rows, r) == Cardinality({s \in rows : DbOf[s] = DbOf[r]})
Even(held, left) == \A r \in held, s \in left : OfDatabase(held, r) <= OfDatabase(held, s) + 1

\* splitter.py: the split "is representative across databases and never uses first-N".
\* The engineering draw has the size asked for; in both draws no database is more than
\* one row ahead of one that has rows left, and the formal one, if it leaves any row,
\* has its size and leaves out no database.
DrawIsStratified ==
  /\ pc \in {"core", "drawn_tuning"} =>
       /\ Cardinality(plan.tuning) \in ValidationSize
       /\ Even(plan.tuning, plan.train)
  /\ pc = "drawn_formal" =>
       /\ Even(plan.formal, plan.train)
       /\ plan.train # {} => Cardinality(plan.formal) >= FormalSize
       /\ \A s \in plan.train : OfDatabase(plan.formal, s) > 0

\* The gate rewrites the two files that hold the only record of the drawn sets.
\* Whatever was killed, cut short or run again before it, a gate run that gets as far
\* as writing works from exactly the rows last drawn, or it writes nothing.  (A set
\* drawn larger than the gate expects and cut at just the size it expects is the one
\* case it cannot tell.)
GateKeepsSelection ==
  pc \in GateAt =>
    /\ Cardinality(selection.tuning) <= TuningSize => plan.tuning = selection.tuning
    /\ Cardinality(selection.formal) <= FormalSize => plan.formal = selection.formal

\* A lock pins a partition of the source; and until other rows are drawn no split file,
\* however often the programs are run again and killed, holds a row that the lock
\* gives to another split, so that training which reads the canonical
\* formal_train.jsonl sees no validation row.
LockedSplits ==
  lock.state = "whole" =>
    /\ lock.tuning \cap lock.formal = {}
    /\ lock.train = Row \ (lock.tuning \cup lock.formal)
    /\ ~redrawn =>
         /\ RowsOf(file["engineering_validation"].rows) \subseteq lock.tuning
         /\ RowsOf(file["validation_tuning"].rows) \subseteq lock.tuning
         /\ RowsOf(file["formal_validation"].rows) \subseteq lock.formal
         /\ RowsOf(file["formal_train"].rows) \subseteq lock.train
         /\ trained.source = "formal_train" => trained.seen = {}

\* Two rows with one question may end up in different splits, the gate only counts
\* them: after a run that published, the report counts every question two of the
\* split files on disk share.
SharedQuestionsReported ==
  LET asked(name) == Keys(RowsOf(file[name].rows)) IN
  pc = "idle" /\ outcome = "published" =>
    report.shared =
      Cardinality(asked("formal_train") \cap asked("validation_tuning"))
        + Cardinality(asked("formal_train") \cap asked("formal_validation"))
        + Cardinality(asked("validation_tuning") \cap asked("formal_validation"))

\* split_policy.py: in formal mode every training entry point reads the canonical
\* formal_train.jsonl and never receives validation examples.
TrainingNeverSeesValidation == trained.seen = {}
=============================================================================
