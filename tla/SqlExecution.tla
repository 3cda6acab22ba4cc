---------------------------- MODULE SqlExecution ----------------------------
(***************************************************************************)
(* What one call of SafeSQLExecutor.execute promises its caller, without   *)
(* saying how: the reward, the distillation pipeline and the evaluation    *)
(* harness rely on no more than this.  SqlExecutor implements it.          *)
(***************************************************************************)
EXTENDS ExecutionResults

VARIABLES
  stmt,     \* the statement, its verdict and what SQLite would do with it
  call,     \* "pending" | "running" | "returned"
  result    \* the ExecutionResult, NoResult before the call returns

vars == <<stmt, call, result>>
-----------------------------------------------------------------------------
Init ==
  /\ stmt \in Statement
  /\ call = "pending"
  /\ result = NoResult

Refuse ==
  /\ call = "pending" /\ ~Admissible(stmt)
  /\ call' = "returned"
  /\ result' = Refusal(stmt)
  /\ UNCHANGED stmt

Start ==
  /\ call = "pending" /\ Admissible(stmt)
  /\ call' = "running"
  /\ UNCHANGED <<stmt, result>>

Return ==
  /\ call = "running"
  /\ call' = "returned"
  /\ result' \in Allowed(stmt)
  /\ UNCHANGED stmt

Next == Refuse \/ Start \/ Return

Spec == Init /\ [][Next]_vars
=============================================================================
