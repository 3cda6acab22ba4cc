-------------------------- MODULE ExecutionResults --------------------------
(***************************************************************************)
(* The data of sql/executor.py and sql/safety.py: statements, as far as    *)
(* the executor tells them apart, and the ExecutionResult it returns.      *)
(***************************************************************************)
EXTENDS Integers

CONSTANTS
  MaxRows,      \* SafeSQLExecutor.max_rows
  TotalRows     \* the row counts a finite statement may produce

ASSUME MaxRowsAssumption   == MaxRows \in Nat \ {0}
ASSUME TotalRowsAssumption == TotalRows \subseteq Nat

-----------------------------------------------------------------------------
Verdict == {"none", "format_error", "syntax_error", "unsafe_sql"}

\* A statement as the executor meets it: validate_sql's verdict, whether the
\* database file is there, the rows SQLite produces for it and what comes after
\* them: the end, an error, or a computation that never ends.
Ending == {"end", "error", "never"}

Statement ==
  [verdict : Verdict, file : BOOLEAN, total : TotalRows, ending : Ending]

ErrorType ==
  {"none", "timeout", "sqlite_error", "internal_error", "schema_error"} \cup Verdict

ExecutionResult ==
  [success : BOOLEAN, error_type : ErrorType, timed_out : BOOLEAN,
   row_count : 0 .. MaxRows, truncated : BOOLEAN]

NoResult == [success |-> FALSE, error_type |-> "none", timed_out |-> FALSE,
             row_count |-> 0, truncated |-> FALSE]

Failed(error) ==
  [success |-> FALSE, error_type |-> error, timed_out |-> (error = "timeout"),
   row_count |-> 0, truncated |-> FALSE]

Answer(n, cut) ==
  [success |-> TRUE, error_type |-> "none", timed_out |-> FALSE,
   row_count |-> n, truncated |-> cut]

\* The only success a statement allows: all of its rows, or the first MaxRows
\* of them marked as truncated.
TrueAnswer(s) ==
  Answer(IF s.total <= MaxRows THEN s.total ELSE MaxRows, s.total > MaxRows)

Admissible(s) == s.verdict = "none" /\ s.file

Refusal(s) == Failed(IF s.verdict # "none" THEN s.verdict ELSE "schema_error")

\* An answer is allowed only if the statement ends or has rows to cut off.
Allowed(s) ==
  {Failed("timeout"), Failed("sqlite_error"), Failed("internal_error")}
    \cup {r \in {TrueAnswer(s)} : s.ending = "end" \/ s.total > MaxRows}
=============================================================================
