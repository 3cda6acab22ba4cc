---------------------------- MODULE RewardScoring ---------------------------
(***************************************************************************)
(* CompositeReward.score_once and the GoldResultCache it reads the gold    *)
(* results through (rewards/composite.py), with the parser, the fallback   *)
(* extractor, the five reward components and the result verifier as far as *)
(* a reward depends on them.                                               *)
(*                                                                         *)
(* Reward processes follow one another on the same cache directory.  Each  *)
(* takes the database's fingerprint when it starts; the database may be    *)
(* replaced while none runs.  A query that could be answered may still     *)
(* time out, and the cache keeps failures as it keeps results.             *)
(*                                                                         *)
(* Rewards are counted in hundredths.                                      *)
(***************************************************************************)
EXTENDS Integers, QueryOutcomes

CONSTANTS
  Example,      \* the examples whose completions are scored
  Database,     \* the contents the database file may have
  GoldOf,       \* [Database \X Example -> Sql]: what each gold query is
  Completion,   \* the model outputs scored, a subset of Output
  RequirePlan   \* require_plan

ASSUME PlanAssumption == RequirePlan \in BOOLEAN

-----------------------------------------------------------------------------
(***************************************************************************)
(* Model outputs.                                                          *)
(***************************************************************************)
\* How the SQL is wrapped (parse_model_output): one block of tags, with its plan
\* or without a required one, markdown fences, tags the parser refuses, or nothing.
Wrapper == {"tags", "no_plan", "fence", "refused", "bare"}

\* Where the parser finds no SQL, extract_fallback_sql may still find one
\* statement.
Output ==
  {o \in [wrapper : Wrapper, sql : Sql] :
     /\ o.wrapper = "no_plan" => RequirePlan
     /\ o.wrapper \in {"tags", "no_plan"} => o.sql # "none"}

ASSUME CompletionAssumption == Completion \subseteq Output
ASSUME GoldAssumption == GoldOf \in [Database \X Example -> Runnable]
-----------------------------------------------------------------------------
(***************************************************************************)
(* Execution and comparison.                                               *)
(***************************************************************************)
Kind == {"none", "not_equivalent", "truncated_unverified", "empty_unverified",
         "empty_structural_partial", "equivalent"}

\* ResultEquivalenceVerifier.verify; found says whether the table names of the
\* database could be read.
KindOf(sql, candidate, gold, found) ==
  IF "failed" \in {candidate, gold} THEN "not_equivalent"
  ELSE IF "cut" \in {candidate, gold} THEN "truncated_unverified"
  ELSE IF candidate = "empty" /\ gold = "empty"
       THEN IF sql = "sane_empty" /\ found = "known"
            THEN "empty_structural_partial" ELSE "empty_unverified"
  ELSE IF gold = "rows" /\ sql = "same_rows" THEN "equivalent" ELSE "not_equivalent"
-----------------------------------------------------------------------------
(***************************************************************************)
(* The components and the total.                                           *)
(***************************************************************************)
FormatReward(wrapper) ==
  CASE wrapper = "tags"  -> 5
    [] wrapper = "fence" -> 0
    [] OTHER             -> -40

ParseReward(sql) == IF sql \in Runnable THEN 5 ELSE -40

SafetyReward(sql) ==
  CASE sql = "none"   -> 0
    [] sql = "unsafe" -> -100
    [] OTHER          -> 5

ExecutionReward(candidate) == IF candidate \in {"rows", "empty", "cut"} THEN 10 ELSE 0

\* Faulty variant: an empty result that passes the structural check counts in full.
CorrectnessRewardGenerous(kind) ==
  IF kind \in {"equivalent", "empty_structural_partial"} THEN 100 ELSE 0

CorrectnessReward(kind) ==
  CASE kind = "equivalent"               -> 100
    [] kind = "empty_structural_partial" -> 25
    [] OTHER                             -> 0

Clamp(n) == IF n < -100 THEN -100 ELSE n

\* Faulty variant: the plain sum, without the pin and the clamp.
TotalUnpinned(output, candidate, kind) ==
  FormatReward(output.wrapper) + ParseReward(output.sql) + SafetyReward(output.sql)
  + ExecutionReward(candidate) + CorrectnessReward(kind)

Total(output, candidate, kind) ==
  IF output.sql = "unsafe" THEN -100
  ELSE Clamp(FormatReward(output.wrapper) + ParseReward(output.sql)
             + SafetyReward(output.sql) + ExecutionReward(candidate)
             + CorrectnessReward(kind))
-----------------------------------------------------------------------------
VARIABLES
  database,     \* the contents of the database file
  cache,        \* [Database \X Example -> Entry]: the cache directory
  fingerprint,  \* what the running process read of the database, NoProcess if none runs
  tables,       \* _schema_tables of the process: "unknown" | "known" | "lost"
  trace,        \* the last trace returned, NoTrace before
  kept          \* some earlier trace: history, to compare with

vars == <<database, cache, fingerprint, tables, trace, kept>>

CONSTANTS NoProcess, NoTrace
ASSUME NoProcessAssumption == NoProcess \notin Database

\* A cached gold result and, as history, the contents it was computed from.
NoEntry == [result |-> "none"]
Entry   == {NoEntry} \cup [result : Result, from : Database]

\* A RewardTrace, with the contents of the database it was computed on.
Trace ==
  [example : Example, completion : Completion, candidate : Result \cup {"none"},
   gold : Entry, kind : Kind, total : -100 .. 125, on : Database]

ASSUME NoTraceAssumption == NoTrace \notin Trace

Init ==
  /\ database \in Database
  /\ cache = [key \in Database \X Example |-> NoEntry]
  /\ fingerprint = NoProcess
  /\ tables = "unknown"
  /\ trace = NoTrace /\ kept = NoTrace

\* Faulty variant: the key does not depend on the database.
StartWithoutFingerprint ==
  /\ fingerprint = NoProcess
  /\ fingerprint' = CHOOSE d \in Database : TRUE
  /\ tables' = "unknown"
  /\ UNCHANGED <<database, cache, trace, kept>>

\* reward_environment: the cache is keyed by the fingerprint taken here.
Start ==
  /\ fingerprint = NoProcess
  /\ fingerprint' = database
  /\ tables' = "unknown"
  /\ UNCHANGED <<database, cache, trace, kept>>

\* The process ends, or is killed between two calls or in one, of which only
\* the gold result can remain.
Stop ==
  /\ fingerprint # NoProcess
  /\ fingerprint' = NoProcess
  /\ UNCHANGED <<database, cache, tables, trace, kept>>

ReplaceDatabase ==
  /\ fingerprint = NoProcess
  /\ database' \in Database
  /\ UNCHANGED <<cache, fingerprint, tables, trace, kept>>

Returns(t) ==
  /\ trace' = t
  /\ kept' \in {kept, trace}

\* No SQL, or SQL that validate_sql refuses: nothing is executed.
ScoreUnexecuted(e, o) ==
  /\ fingerprint # NoProcess
  /\ o.sql \notin Runnable
  /\ Returns([example |-> e, completion |-> o, candidate |-> "none", gold |-> NoEntry,
              kind |-> "none", total |-> Total(o, "none", "none"), on |-> database])
  /\ UNCHANGED <<database, cache, fingerprint, tables>>

\* Faulty variant: the gold query is executed again each time.
GoldEntriesUncached(e) == [result : Executed(GoldOf[<<database, e>>]), from : {database}]

\* _gold_result: the cached entry, or what executing the gold query gives now.
GoldEntries(e) ==
  IF cache[<<fingerprint, e>>] # NoEntry
  THEN {cache[<<fingerprint, e>>]}
  ELSE [result : Executed(GoldOf[<<database, e>>]), from : {database}]

\* schema_tables: asked once per process, and an unanswered question leaves the
\* empty set behind.
TableLookups == IF tables = "unknown" THEN {"known", "lost"} ELSE {tables}

Score(e, o) ==
  /\ fingerprint # NoProcess
  /\ o.sql \in Runnable
  /\ \E candidate \in Executed(o.sql), gold \in GoldEntries(e), found \in TableLookups :
       LET kind == KindOf(o.sql, candidate, gold.result, found)
       IN  /\ cache' = [cache EXCEPT ![<<fingerprint, e>>] = gold]
           /\ tables' = found
           /\ Returns([example |-> e, completion |-> o, candidate |-> candidate,
                       gold |-> gold, kind |-> kind,
                       total |-> Total(o, candidate, kind), on |-> database])
  /\ UNCHANGED <<database, fingerprint>>

\* Killed after the gold result was stored and before the trace was returned.
KilledInScore(e, o) ==
  /\ fingerprint # NoProcess
  /\ o.sql \in Runnable
  /\ \E gold \in GoldEntries(e) : cache' = [cache EXCEPT ![<<fingerprint, e>>] = gold]
  /\ fingerprint' = NoProcess
  /\ UNCHANGED <<database, tables, trace, kept>>

Next ==
  \/ Start \/ Stop \/ ReplaceDatabase
  \/ \E e \in Example, o \in Completion :
       ScoreUnexecuted(e, o) \/ Score(e, o) \/ KilledInScore(e, o)

Spec == Init /\ [][Next]_vars
-----------------------------------------------------------------------------
(***************************************************************************)
(* Properties.                                                             *)
(***************************************************************************)
\* Every variable has its type.
TypeOK ==
  /\ database \in Database
  /\ cache \in [Database \X Example -> Entry]
  /\ fingerprint \in Database \cup {NoProcess}
  /\ tables \in {"unknown", "known", "lost"}
  /\ trace \in Trace \cup {NoTrace}
  /\ kept \in Trace \cup {NoTrace}

Scored == {t \in {trace, kept} : t # NoTrace}

\* However two outputs are wrapped, an output with the gold result scores more
\* than one without: format, parse, safety, execution and the credit for empty
\* results never outweigh correctness (score_once lines 196-202).
CorrectnessDominates ==
  \A s, t \in Scored :
    s.kind = "equivalent" /\ t.kind # "equivalent" => s.total > t.total

\* The same output on the same database, executed with the same result, gets the
\* same reward again, in this process or a later one; only the credit for empty
\* results depends on whether the process could read the table names.
RewardReproducible ==
  \A s, t \in Scored :
    (/\ s.example = t.example /\ s.completion = t.completion
     /\ s.candidate = t.candidate /\ s.on = t.on)
    => s.total = t.total \/ (s.gold.result = "empty" /\ s.candidate = "empty")

\* A candidate is compared with a gold result of the database it ran on: entries
\* that have become stale are not reused (GoldResultCache, lines 35-41).
GoldIsFresh ==
  \A t \in Scored : t.gold # NoEntry => t.gold.from = t.on
-----------------------------------------------------------------------------
(***************************************************************************)
(* The inductive invariant behind the safety properties, in named parts.   *)
(***************************************************************************)
\* A cache entry was computed from the contents its key names, and a process
\* runs on the contents it took the fingerprint of.
CacheInv ==
  /\ fingerprint \in {database, NoProcess}
  /\ \A key \in Database \X Example :
       cache[key] # NoEntry =>
         cache[key].from = key[1] /\ cache[key].result \in Executed(GoldOf[key])

\* A trace is what its parts make it, and its gold result is the cached one.
TraceInv ==
  \A t \in Scored :
    /\ t.total = Total(t.completion, t.candidate, t.kind)
    /\ IF t.completion.sql \in Runnable
       THEN /\ t.candidate \in Executed(t.completion.sql)
            /\ t.gold # NoEntry /\ t.gold = cache[<<t.on, t.example>>]
            /\ \E found \in {"known", "lost"} :
                 t.kind = KindOf(t.completion.sql, t.candidate, t.gold.result, found)
       ELSE t.candidate = "none" /\ t.gold = NoEntry /\ t.kind = "none"

RewardInv == TypeOK /\ CacheInv /\ TraceInv
=============================================================================
