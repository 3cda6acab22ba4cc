--------------------------- MODULE QueryOutcomes ----------------------------
(***************************************************************************)
(* What the reward tells apart of the SQL it scores and of the results     *)
(* SafeSQLExecutor returns for it (sql/verifier.py).  RewardScoring is     *)
(* written in these terms; SqlExecutor is shown to return nothing else.    *)
(***************************************************************************)

\* What the SQL taken from an output is: nothing, refused by validate_sql, or
\* what SQLite makes of it, compared with the gold rows ("same_rows",
\* "other_rows") or, when there are none, with the gold tables: "sane_empty"
\* reads only tables the gold query reads, "odd_empty" does not.
Answerable == {"same_rows", "other_rows", "sane_empty", "odd_empty", "cut"}
Runnable   == Answerable \cup {"error"}
Sql        == Runnable \cup {"none", "unsafe"}

Result == {"rows", "empty", "cut", "failed"}

\* What SQLExecutionEnvironment.execute may return for a query: its result, or
\* a failure.
Executed(sql) ==
  {"failed"} \cup
    CASE sql \in {"same_rows", "other_rows"} -> {"rows"}
      [] sql \in {"sane_empty", "odd_empty"} -> {"empty"}
      [] sql = "cut"                         -> {"cut"}
      [] OTHER                               -> {}

\* What the verifier reads of an ExecutionResult, in this order.
OutcomeOf(r) ==
  IF ~r.success THEN "failed"
  ELSE IF r.truncated THEN "cut"
  ELSE IF r.row_count = 0 THEN "empty" ELSE "rows"
=============================================================================
