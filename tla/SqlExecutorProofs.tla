-------------------------- MODULE SqlExecutorProofs -------------------------
(***************************************************************************)
(* ExecutorInv is inductive; the safety properties of SqlExecutor, the     *)
(* refinement of SqlExecution and that a call runs down follow, for every  *)
(* budget, row limit, pipe capacity and row width.                         *)
(***************************************************************************)
EXTENDS SqlExecutor, TLAPS

(***************************************************************************)
(* Facts about results, after which their records need not be opened.      *)
(***************************************************************************)
\* A failure is a result of its own error type, and is flagged timed_out
\* exactly when that type is timeout.
LEMMA FailedFacts ==
  ASSUME NEW e \in ErrorType
  PROVE  /\ Failed(e) \in ExecutionResult
         /\ Failed(e).error_type = e
         /\ e # "none" => Failed(e) # NoResult
  BY MaxRowsAssumption DEF Failed, NoResult, ExecutionResult

\* An answer is a result without an error.
LEMMA AnswerFacts ==
  ASSUME NEW n \in 0 .. MaxRows, NEW cut \in BOOLEAN
  PROVE  /\ Answer(n, cut) \in ExecutionResult
         /\ Answer(n, cut).error_type = "none"
         /\ Answer(n, cut) # NoResult
  BY MaxRowsAssumption DEF Answer, NoResult, ExecutionResult, ErrorType, Verdict

\* Before anything is reported there is no error.
LEMMA NoResultFacts ==
  /\ NoResult \in ExecutionResult
  /\ NoResult.error_type = "none"
  BY MaxRowsAssumption DEF NoResult, ExecutionResult, ErrorType, Verdict

\* A payload takes room, and nothing takes none.
LEMMA UnitsFacts ==
  ASSUME NEW r \in ExecutionResult
  PROVE  Units(r) \in Nat /\ (r = NoResult <=> Units(r) = 0)
  <1>1. r.row_count \in Nat /\ RowUnits \in Nat
    BY MaxRowsAssumption, PipeAssumption DEF ExecutionResult
  <1>2. RowUnits * r.row_count \in Nat
    BY <1>1
  <1>. QED BY <1>2 DEF Units

\* What the fetch loop ends with is what the statement allows: all of its rows,
\* or the first MaxRows of them and the mark that some were cut off.
LEMMA AnswersAreAllowed ==
  ASSUME NEW s \in Statement, NEW n \in 0 .. MaxRows
  PROVE  /\ n = s.total /\ s.ending = "end" => Answer(n, FALSE) \in Allowed(s)
         /\ n = MaxRows /\ n < s.total => Answer(n, TRUE) \in Allowed(s)
  <1>1. s.total \in Nat
    BY TotalRowsAssumption DEF Statement
  <1>2. ASSUME n = s.total, s.ending = "end" PROVE Answer(n, FALSE) \in Allowed(s)
    <2>1. (s.total <= MaxRows) = TRUE /\ (s.total > MaxRows) = FALSE
      BY <1>1, <1>2, MaxRowsAssumption
    <2>2. TrueAnswer(s) = Answer(s.total, FALSE)
      BY <2>1, Zenon DEF TrueAnswer
    <2>. QED BY <2>2, <1>2 DEF Allowed
  <1>3. ASSUME n = MaxRows, n < s.total PROVE Answer(n, TRUE) \in Allowed(s)
    <2>1. (s.total <= MaxRows) = FALSE /\ (s.total > MaxRows) = TRUE
      BY <1>1, <1>3, MaxRowsAssumption
    <2>2. TrueAnswer(s) = Answer(MaxRows, TRUE)
      BY <2>1, Zenon DEF TrueAnswer
    <2>. QED BY <2>1, <2>2, <1>3 DEF Allowed
  <1>. QED BY <1>2, <1>3

\* The failures a worker reports are allowed for every statement.
LEMMA FailuresAreAllowed ==
  ASSUME NEW s,
         NEW e \in {"timeout", "sqlite_error", "internal_error"}
  PROVE  e \in ErrorType /\ Failed(e) \in Allowed(s)
  BY DEF Allowed, ErrorType
-----------------------------------------------------------------------------
(***************************************************************************)
(* The invariant.                                                          *)
(***************************************************************************)
LEMMA InvInit == ExecutorInit => ExecutorInv
  <1>. SUFFICES ASSUME ExecutorInit PROVE ExecutorInv
    OBVIOUS
  <1>. USE NoResultFacts, BudgetAssumption, MaxRowsAssumption DEF ExecutorInit
  <1>1. TypeOK
    <2>1. 0 \in 0 .. ClockBound
      BY DEF ClockBound, HardDeadline
    <2>2. fetched \in 0 .. MaxRows /\ sent \in Nat
      OBVIOUS
    <2>. QED BY <2>1, <2>2 DEF TypeOK, ParentAt, WorkerAt, NotStarted
  <1>2. ParentInv
    BY DEF ParentInv, Alive
  <1>3. ClockInv
    BY DEF ClockInv, TimeoutIsEarned
  <1>4. Units(outbox) = 0
    BY UnitsFacts
  <1>5. PayloadInv
    <2>1. stmt.total \in Nat
      BY TotalRowsAssumption DEF Statement
    <2>. QED BY <1>4, <2>1 DEF PayloadInv
  <1>. QED BY <1>1, <1>2, <1>3, <1>5 DEF ExecutorInv

\* Every step of the parent preserves the invariant.
LEMMA ParentKeepsInv == ExecutorInv /\ Parent => ExecutorInv'
  <1>. SUFFICES ASSUME ExecutorInv, Parent PROVE ExecutorInv'
    OBVIOUS
  <1>. USE NoResultFacts DEF ExecutorInv, ParentReturns, workerVars
  <1>0. /\ HardDeadline \in Nat /\ ExecBudget \in Nat /\ StartTimeout \in Nat
        /\ HardDeadline = ExecBudget + StartTimeout
    BY BudgetAssumption DEF HardDeadline
  <1>1. CASE Validate
    <2>1. stmt.verdict \in ErrorType /\ stmt.verdict # "timeout"
      BY DEF TypeOK, Statement, ErrorType, Verdict
    <2>2. TypeOK'
      BY <1>1, <2>1, FailedFacts DEF TypeOK, Validate, ParentAt
    <2>3. ParentInv'
      BY <1>1, <2>1 DEF ParentInv, Validate, Alive, Admissible, Refusal
    <2>4. ClockInv'
      BY <1>1, <2>1, FailedFacts DEF ClockInv, Validate, TimeoutIsEarned
    <2>. QED BY <1>1, <2>2, <2>3, <2>4 DEF PayloadInv, Validate
  <1>2. CASE CheckFile
    <2>1. "schema_error" \in ErrorType
      BY DEF ErrorType
    <2>2. TypeOK'
      BY <1>2, <2>1, FailedFacts DEF TypeOK, CheckFile, ParentAt
    <2>3. ParentInv'
      BY <1>2 DEF ParentInv, CheckFile, Alive, Admissible, Refusal, TypeOK, Statement
    <2>4. ClockInv'
      BY <1>2, <2>1, FailedFacts DEF ClockInv, CheckFile, TimeoutIsEarned
    <2>. QED BY <1>2, <2>2, <2>3, <2>4 DEF PayloadInv, CheckFile
  <1>3. CASE StartProcess
    BY <1>3 DEF TypeOK, ParentInv, ClockInv, PayloadInv, StartProcess, ParentAt,
                WorkerAt, Alive, TimeoutIsEarned
  <1>4. CASE JoinReturns
    BY <1>4 DEF TypeOK, ParentInv, ClockInv, PayloadInv, JoinReturns, ParentAt, Alive,
                TimeoutIsEarned
  <1>5. CASE AskAlive
    BY <1>5 DEF TypeOK, ParentInv, ClockInv, PayloadInv, AskAlive, ParentAt, Alive,
                TimeoutIsEarned
  <1>6. ASSUME parent \in {"term_join", "kill_join"}
        PROVE  /\ Failed("timeout") \in Allowed(stmt) /\ Failed("timeout") \in ExecutionResult
               /\ result' = Failed("timeout") /\ UNCHANGED <<started, now>> => TimeoutIsEarned'
    <2>1. now >= HardDeadline /\ now \in Nat /\ started \in Int
      BY <1>6, <1>0 DEF ParentInv, ClockInv, TypeOK, ClockBound, NotStarted
    <2>2. \/ started = NotStarted \/ started > StartTimeout
          \/ started # NotStarted /\ now >= started + ExecBudget
      BY <1>0, <2>1
    <2>3. result' = Failed("timeout") /\ UNCHANGED <<started, now>> => TimeoutIsEarned'
      BY <1>0, <2>1, <2>2 DEF TimeoutIsEarned
    <2>. QED BY <2>3, FailedFacts, FailuresAreAllowed
  <1>7. CASE TermJoinReturns
    <2>1. TypeOK'
      BY <1>6, <1>7 DEF TypeOK, TermJoinReturns, ParentAt
    <2>2. ParentInv'
      BY <1>6, <1>7 DEF ParentInv, TermJoinReturns, Alive
    <2>3. ClockInv'
      BY <1>6, <1>7 DEF ParentInv, ClockInv, TermJoinReturns, TimeoutIsEarned
    <2>. QED BY <1>7, <2>1, <2>2, <2>3 DEF PayloadInv, TermJoinReturns
  <1>8. CASE KillJoinReturns
    <2>1. TypeOK'
      BY <1>6, <1>8 DEF TypeOK, KillJoinReturns, ParentAt
    <2>2. ParentInv'
      BY <1>6, <1>8 DEF ParentInv, KillJoinReturns, Alive
    <2>3. ClockInv'
      BY <1>6, <1>8 DEF ClockInv, KillJoinReturns
    <2>. QED BY <1>8, <2>1, <2>2, <2>3 DEF PayloadInv, KillJoinReturns
  <1>9. CASE Poll
    <2>1. /\ Failed("internal_error") \in ExecutionResult
          /\ Failed("internal_error").error_type = "internal_error"
          /\ Failed("internal_error") \in Allowed(stmt)
      BY FailedFacts, FailuresAreAllowed
    <2>2. TypeOK'
      BY <1>9, <2>1 DEF TypeOK, Poll, ParentAt
    <2>3. ParentInv'
      BY <1>9, <2>1 DEF ParentInv, Poll, Alive
    <2>4. ClockInv'
      BY <1>9, <2>1 DEF ClockInv, Poll, TimeoutIsEarned
    <2>. QED BY <1>9, <2>2, <2>3, <2>4 DEF PayloadInv, Poll
  <1>10. CASE Receive
    <2>1. outbox \in Allowed(stmt)
      BY <1>10, UnitsFacts DEF TypeOK, Receive, ParentInv, PayloadInv
    <2>2. TypeOK'
      BY <1>10 DEF TypeOK, Receive, ParentAt
    <2>3. ParentInv'
      BY <1>10, <2>1 DEF ParentInv, Receive, Alive
    <2>4. ClockInv'
      BY <1>10 DEF ClockInv, Receive, TimeoutIsEarned
    <2>. QED BY <1>10, <2>2, <2>3, <2>4 DEF PayloadInv, Receive
  <1>. QED BY <1>1, <1>2, <1>3, <1>4, <1>5, <1>7, <1>8, <1>9, <1>10 DEF Parent

\* The two shapes of a worker's step: it moves on without a payload, or hands
\* one over and closes its connection.
LEMMA WorkerReportsKeepsInv ==
  ASSUME ExecutorInv, NEW from, NEW payload, Report(from, payload),
         from \in {"connect", "execute", "loop", "fetch", "probe"},
         payload \in ExecutionResult, payload \in Allowed(stmt),
         payload.error_type = "timeout" => now >= started + ExecBudget
  PROVE  ExecutorInv'
  <1>. USE DEF ExecutorInv, Report, WorkerStep
  <1>1. TypeOK'
    BY DEF TypeOK, WorkerAt
  <1>2. ParentInv'
    BY DEF ParentInv, Alive
  <1>3. ClockInv'
    BY DEF ClockInv, TimeoutIsEarned, HardDeadline
  <1>4. sent <= Units(outbox) /\ Units(outbox) = 0 /\ Units(payload) \in Nat /\ sent \in Nat
    BY UnitsFacts DEF TypeOK, PayloadInv
  <1>5. PayloadInv'
    BY <1>4 DEF PayloadInv, Units
  <1>. QED BY <1>1, <1>2, <1>3, <1>5

\* Every step of the worker preserves the invariant.
LEMMA WorkerKeepsInv == ExecutorInv /\ (Worker \/ WorkerRaises) => ExecutorInv'
  <1>. SUFFICES ASSUME ExecutorInv, Worker \/ WorkerRaises PROVE ExecutorInv'
    OBVIOUS
  <1>. USE DEF ExecutorInv, WorkerStep
  <1>0. /\ ExecBudget \in Nat /\ StartTimeout \in Nat /\ MaxRows \in Nat
        /\ stmt.total \in Nat /\ now \in Nat /\ started \in Int /\ fetched \in 0 .. MaxRows
    <2>1. stmt.total \in Nat
      BY TotalRowsAssumption DEF TypeOK, Statement
    <2>. QED BY <2>1, BudgetAssumption, MaxRowsAssumption
             DEF TypeOK, NotStarted, ClockBound, HardDeadline
  <1>1. \A e \in {"timeout", "sqlite_error", "internal_error"} :
          /\ Failed(e) \in ExecutionResult /\ Failed(e).error_type = e
          /\ Failed(e) \in Allowed(stmt)
    BY FailedFacts, FailuresAreAllowed
  <1>2. CASE WorkerBegins
    BY <1>2, <1>0 DEF WorkerBegins, TypeOK, ParentInv, ClockInv, PayloadInv, WorkerAt, Alive,
                TimeoutIsEarned, NotStarted, HardDeadline
  <1>3. CASE Connect
    <2>1. CASE Report("connect", Failed("sqlite_error"))
      BY <2>1, <1>1, WorkerReportsKeepsInv
    <2>2. CASE ~Report("connect", Failed("sqlite_error"))
      BY <1>3, <2>2 DEF Connect, TypeOK, ParentInv, ClockInv, PayloadInv, WorkerAt, Alive,
                        TimeoutIsEarned
    <2>. QED BY <2>1, <2>2
  <1>4. CASE Execute
    <2>1. CASE Report("execute", Failed("sqlite_error"))
      BY <2>1, <1>1, WorkerReportsKeepsInv
    <2>2. CASE ~Report("execute", Failed("sqlite_error"))
      BY <1>4, <2>2 DEF Execute, TypeOK, ParentInv, ClockInv, PayloadInv, WorkerAt, Alive,
                        TimeoutIsEarned
    <2>. QED BY <2>1, <2>2
  <1>5. CASE LoopHead
    <2>1. CASE PastDeadline /\ Report("loop", Failed("timeout"))
      BY <2>1, <1>0, <1>1, WorkerReportsKeepsInv DEF PastDeadline
    <2>2. CASE ~(PastDeadline /\ Report("loop", Failed("timeout")))
      BY <1>5, <1>0, <2>2 DEF LoopHead, TypeOK, ParentInv, ClockInv, PayloadInv, WorkerAt,
                              Alive, TimeoutIsEarned
    <2>. QED BY <2>1, <2>2
  <1>6. CASE Fetch
    <2>1. CASE Report("fetch", Failed("sqlite_error"))
      BY <2>1, <1>1, WorkerReportsKeepsInv
    <2>2. CASE /\ fetched = stmt.total /\ stmt.ending = "end"
               /\ Report("fetch", Answer(fetched, FALSE))
      <3>1. stmt \in Statement
        BY DEF TypeOK
      <3>2. Answer(fetched, FALSE) \in Allowed(stmt)
        BY <2>2, <3>1, <1>0, AnswersAreAllowed
      <3>3. /\ Answer(fetched, FALSE) \in ExecutionResult
            /\ Answer(fetched, FALSE).error_type = "none"
        BY <1>0, AnswerFacts
      <3>. QED BY <2>2, <3>2, <3>3, WorkerReportsKeepsInv
    <2>3. CASE /\ fetched < stmt.total
               /\ WorkerStep("fetch", "loop")
               /\ fetched' = fetched + 1
               /\ UNCHANGED <<started, watchdog, outbox>>
      BY <1>0, <2>3 DEF TypeOK, ParentInv, ClockInv, PayloadInv, WorkerAt, Alive,
                        TimeoutIsEarned
    <2>. QED BY <1>6, <2>1, <2>2, <2>3 DEF Fetch
  <1>7. CASE Probe
    <2>1. stmt \in Statement /\ (worker = "probe" => fetched = MaxRows)
      BY DEF TypeOK, PayloadInv
    <2>2. \A cut \in BOOLEAN : /\ Answer(fetched, cut) \in ExecutionResult
                              /\ Answer(fetched, cut).error_type = "none"
      BY <1>0, AnswerFacts
    <2>3. CASE Report("probe", Failed("sqlite_error"))
      BY <2>3, <1>1, WorkerReportsKeepsInv
    <2>4. CASE fetched < stmt.total /\ Report("probe", Answer(fetched, TRUE))
      <3>1. Answer(fetched, TRUE) \in Allowed(stmt)
        BY <2>1, <2>4, <1>0, AnswersAreAllowed DEF Report
      <3>. QED BY <2>4, <3>1, <2>2, WorkerReportsKeepsInv
    <2>5. CASE /\ fetched = stmt.total /\ stmt.ending = "end"
               /\ Report("probe", Answer(fetched, FALSE))
      <3>1. Answer(fetched, FALSE) \in Allowed(stmt)
        BY <2>1, <2>5, <1>0, AnswersAreAllowed
      <3>. QED BY <2>5, <3>1, <2>2, WorkerReportsKeepsInv
    <2>. QED BY <1>7, <2>3, <2>4, <2>5 DEF Probe
  <1>8. CASE Interrupted
    <2>1. now >= started + ExecBudget
      BY <1>8, <1>0 DEF Interrupted, PastDeadline, ClockInv
    <2>2. worker \in {"connect", "execute", "loop", "fetch", "probe"}
      BY <1>8 DEF Interrupted, InSqlite
    <2>. QED BY <1>8, <2>1, <2>2, <1>1, WorkerReportsKeepsInv DEF Interrupted
  <1>9. CASE WorkerRaises
    BY <1>9, <1>1, WorkerReportsKeepsInv DEF WorkerRaises
  <1>10. CASE CloseConnection
    BY <1>10 DEF CloseConnection, TypeOK, ParentInv, ClockInv, PayloadInv, WorkerAt, Alive,
                 TimeoutIsEarned
  <1>11. CASE WorkerExits
    BY <1>11 DEF WorkerExits, TypeOK, ParentInv, ClockInv, PayloadInv, WorkerAt, Alive,
                 TimeoutIsEarned
  <1>. QED BY <1>2, <1>3, <1>4, <1>5, <1>6, <1>7, <1>8, <1>9, <1>10, <1>11 DEF Worker

\* So do the watchdog, the feeder, deaths of the worker and the clock.
LEMMA EnvironmentKeepsInv ==
  /\ ExecutorInv
  /\ WatchdogFires \/ FeederWrites \/ WorkerDies \/ WorkerCrashes \/ Tick
  => ExecutorInv'
  <1>. SUFFICES ASSUME ExecutorInv,
                       WatchdogFires \/ FeederWrites \/ WorkerDies \/ WorkerCrashes \/ Tick
                PROVE  ExecutorInv'
    OBVIOUS
  <1>. USE DEF ExecutorInv, workerVars
  <1>0. /\ ExecBudget \in Nat /\ StartTimeout \in Nat /\ HardDeadline \in Nat
        /\ HardDeadline = ExecBudget + StartTimeout /\ ClockBound = HardDeadline + 1
        /\ now \in 0 .. ClockBound /\ started \in Nat \cup {-1} /\ NotStarted = -1
        /\ sent \in Nat /\ Units(outbox) \in Nat
    BY BudgetAssumption, UnitsFacts DEF TypeOK, NotStarted, ClockBound, HardDeadline
  <1>1. CASE WatchdogFires
    <2>1. started # NotStarted
      BY <1>1 DEF WatchdogFires, TypeOK, ClockInv, Alive
    <2>. QED BY <1>1, <2>1 DEF WatchdogFires, TypeOK, ParentInv, ClockInv, PayloadInv, Alive,
                               TimeoutIsEarned
  <1>2. CASE FeederWrites
    <2>1. sent' \in Nat /\ sent' <= Units(outbox) /\ (sent > 0 => sent' > 0)
      BY <1>0, <1>2 DEF FeederWrites
    <2>. QED BY <1>2, <2>1 DEF FeederWrites, TypeOK, ParentInv, ClockInv, PayloadInv, Alive,
                               TimeoutIsEarned, Units
  <1>3. CASE WorkerDies \/ WorkerCrashes
    BY <1>3 DEF WorkerDies, WorkerCrashes, TypeOK, ParentInv, ClockInv, PayloadInv, WorkerAt,
                Alive, TimeoutIsEarned
  <1>4. CASE Tick
    <2>1. /\ now' \in 0 .. ClockBound /\ now' = now + 1
          /\ \A t \in Int : now >= t => now' >= t
      BY <1>0, <1>4 DEF Tick
    <2>2. TypeOK'
      BY <1>4, <2>1 DEF Tick, TypeOK, ClockBound, HardDeadline
    <2>3. ParentInv'
      BY <1>4 DEF Tick, ParentInv, Alive
    <2>4. TimeoutIsEarned'
      BY <1>0, <1>4, NoResultFacts DEF Tick, ParentInv, TimeoutIsEarned
    <2>5. ClockInv'
      BY <1>0, <1>4, <2>1, <2>4 DEF Tick, ClockInv, HardDeadline
    <2>6. PayloadInv'
      BY <1>4 DEF Tick, PayloadInv, Units
    <2>. QED BY <2>2, <2>3, <2>5, <2>6
  <1>. QED BY <1>1, <1>2, <1>3, <1>4

\* The invariant holds in every reachable state: its conjuncts say what each
\* of the two processes may rely on at each of its steps.
THEOREM Invariance == ExecutorSpec => []ExecutorInv
  <1>1. ExecutorInv /\ UNCHANGED evars => ExecutorInv'
    BY DEF ExecutorInv, TypeOK, ParentInv, ClockInv, PayloadInv, TimeoutIsEarned, Alive,
           Units, FeederBlocked, evars, workerVars
  <1>2. ExecutorInv /\ [ExecutorNext]_evars => ExecutorInv'
    BY <1>1, ParentKeepsInv, WorkerKeepsInv, EnvironmentKeepsInv
    DEF ExecutorNext, ReceiveBlocks, Finished
  <1>. QED BY InvInit, <1>2, PTL DEF ExecutorSpec

\* Type correctness of the executor model, for every instance.
THEOREM TypeCorrect == ExecutorSpec => []TypeOK
  <1>1. ExecutorInv => TypeOK
    BY DEF ExecutorInv
  <1>. QED BY <1>1, Invariance, PTL

\* A reported timeout was earned: the statement had its whole budget, or the
\* worker missed the start-up allowance (the two deadlines of executor.py).
THEOREM TimeoutsAreEarned == ExecutorSpec => []TimeoutIsEarned
  <1>1. ExecutorInv => TimeoutIsEarned
    BY DEF ExecutorInv, ClockInv
  <1>. QED BY <1>1, Invariance, PTL

\* No call leaves behind a worker that was not killed, and no worker is ever
\* started for a refused statement.
THEOREM NoWorkerIsLeftRunning == ExecutorSpec => []NoWorkerLeftRunning
  <1>1. ExecutorInv => NoWorkerLeftRunning
    BY DEF ExecutorInv, ParentInv, NoWorkerLeftRunning
  <1>. QED BY <1>1, Invariance, PTL
-----------------------------------------------------------------------------
(***************************************************************************)
(* Delivery: what a worker that was not killed leaves in the pipe.         *)
(***************************************************************************)
LEMMA DeliveryInit == ExecutorInit => DeliveryInv
  BY DEF ExecutorInit, DeliveryInv

LEMMA DeliveryStep ==
  ExecutorInv /\ DeliveryInv /\ [ExecutorNext]_evars => DeliveryInv'
  <1>. SUFFICES ASSUME ExecutorInv, DeliveryInv, ExecutorNext \/ UNCHANGED evars
                PROVE  DeliveryInv'
    OBVIOUS
  <1>. USE DEF DeliveryInv, workerVars
  <1>1. CASE Parent
    <2>1. UNCHANGED <<worker, outbox, sent, crashed>> \/ StartProcess
      BY <1>1 DEF Parent, Validate, CheckFile, StartProcess, JoinReturns, AskAlive,
                  TermJoinReturns, KillJoinReturns, Poll, Receive
    <2>2. signal' = "none" => signal = "none"
      BY <1>1 DEF Parent, Validate, CheckFile, StartProcess, JoinReturns, AskAlive,
                  TermJoinReturns, KillJoinReturns, Poll, Receive
    <2>3. CASE StartProcess
      BY <2>3 DEF StartProcess
    <2>4. CASE UNCHANGED <<worker, outbox, sent, crashed>>
      BY <2>2, <2>4 DEF Units
    <2>. QED BY <2>1, <2>3, <2>4
  <1>2. ASSUME NEW from, NEW payload \in ExecutionResult, payload # NoResult,
               Report(from, payload)
        PROVE  DeliveryInv'
    BY <1>2 DEF Report, WorkerStep
  <1>3. CASE Worker \/ WorkerRaises
    <2>1. CASE worker' = "closing"
      <3>1. PICK from, payload : Report(from, payload)
                 /\ payload \in {Failed(e) : e \in {"timeout", "sqlite_error", "internal_error"}}
                                 \cup {Answer(fetched, cut) : cut \in BOOLEAN}
        BY <1>3, <2>1 DEF Worker, WorkerRaises, WorkerBegins, Connect, Execute, LoopHead, Fetch,
                          Probe, Interrupted, CloseConnection, WorkerExits, WorkerStep
      <3>2. payload \in ExecutionResult /\ payload # NoResult
        BY <3>1, FailedFacts, AnswerFacts, FailuresAreAllowed DEF ExecutorInv, TypeOK
      <3>. QED BY <3>1, <3>2, <1>2
    <2>2. CASE worker' # "closing"
      <3>1. \/ worker' \notin {"closing", "exiting", "dead"}
            \/ CloseConnection \/ WorkerExits
        BY <1>3, <2>2 DEF Worker, WorkerRaises, WorkerBegins, Connect, Execute, LoopHead, Fetch,
                          Probe, Interrupted, Report, WorkerStep
      <3>. QED BY <3>1 DEF CloseConnection, WorkerExits, WorkerStep, Units
    <2>. QED BY <2>1, <2>2
  <1>4. CASE FeederWrites
    BY <1>4 DEF FeederWrites, Alive
  <1>5. CASE WorkerDies \/ WorkerCrashes
    BY <1>5 DEF WorkerDies, WorkerCrashes
  <1>6. CASE WatchdogFires \/ Tick \/ ReceiveBlocks \/ Finished \/ UNCHANGED evars
    <2>1. UNCHANGED <<worker, outbox, sent, signal, crashed>>
      BY <1>6 DEF WatchdogFires, Tick, ReceiveBlocks, Finished, evars
    <2>. QED BY <2>1 DEF Units
  <1>. QED BY <1>1, <1>3, <1>4, <1>5, <1>6 DEF ExecutorNext

LEMMA Delivery == ExecutorSpec => []DeliveryInv
  BY DeliveryInit, DeliveryStep, Invariance, PTL DEF ExecutorSpec

\* A parent that turns to the queue finds a whole report in it, unless somebody
\* killed the worker: the caller never waits in vain and never sees queue.Empty.
THEOREM TheWorkerReportsBack == ExecutorSpec => []WorkerReportsBack
  <1>1. ExecutorInv /\ DeliveryInv => WorkerReportsBack
    BY DEF ExecutorInv, ParentInv, DeliveryInv, WorkerReportsBack
  <1>. QED BY <1>1, Invariance, Delivery, PTL

\* A get() that has found something returns at once, even though recv_bytes() has no
\* timeout, unless somebody killed the worker from outside and its payload was written in
\* more than one piece: then half a message may be all that ever comes.
THEOREM ReceiveDoesNotBlock ==
  ExecutorSpec => [](parent = "recv" /\ (~crashed \/ RowUnits = 0) => sent = Units(outbox))
  <1>1. ExecutorInv /\ DeliveryInv
          => (parent = "recv" /\ (~crashed \/ RowUnits = 0) => sent = Units(outbox))
    <2>. SUFFICES ASSUME ExecutorInv, DeliveryInv, parent = "recv", ~crashed \/ RowUnits = 0
                  PROVE  sent = Units(outbox)
      OBVIOUS
    <2>1. CASE ~crashed
      BY <2>1 DEF ExecutorInv, ParentInv, DeliveryInv
    <2>2. CASE RowUnits = 0
      <3>1. sent > 0 /\ sent <= Units(outbox) /\ sent \in Nat /\ outbox.row_count \in Nat
        BY MaxRowsAssumption DEF ExecutorInv, TypeOK, ParentInv, PayloadInv, ExecutionResult
      <3>2. Units(outbox) <= 1
        BY <2>2, <3>1 DEF Units
      <3>3. Units(outbox) \in Nat
        BY UnitsFacts DEF ExecutorInv, TypeOK
      <3>. QED BY <3>1, <3>2, <3>3
    <2>. QED BY <2>1, <2>2
  <1>. QED BY <1>1, Invariance, Delivery, PTL
-----------------------------------------------------------------------------
(***************************************************************************)
(* Termination: StepsLeft is a natural number and every step makes it      *)
(* smaller, so that a call takes at most StepsLeft steps, whatever the     *)
(* statement, the scheduler, the signals and the faults do.                *)
(***************************************************************************)
\* What a payload may need of the pipe.
LEMMA RoomLeft ==
  ASSUME NEW r \in ExecutionResult
  PROVE  Units(r) \in Nat /\ RowUnits * MaxRows \in Nat /\ Units(r) <= 1 + RowUnits * MaxRows
  <1>1. r.row_count \in 0 .. MaxRows
    BY DEF ExecutionResult
  <1>2. RowUnits * r.row_count <= RowUnits * MaxRows
    BY <1>1, MaxRowsAssumption, PipeAssumption, SMTT(30)
  <1>3. RowUnits * r.row_count \in Nat /\ RowUnits * MaxRows \in Nat
    BY <1>1, MaxRowsAssumption, PipeAssumption
  <1>. QED BY <1>2, <1>3 DEF Units

\* What is left never falls below zero.
LEMMA MeasureIsNatural ==
  ASSUME ExecutorInv
  PROVE  /\ ParentLeft \in Nat /\ WorkerLeft \in Nat /\ WatchdogLeft \in Nat
         /\ PipeLeft \in Nat /\ ClockLeft \in Nat /\ StepsLeft \in Nat
  <1>1. ParentLeft \in Nat /\ WatchdogLeft \in Nat
    BY DEF ParentLeft, WatchdogLeft
  <1>2. WorkerLeft \in Nat
    BY MaxRowsAssumption DEF WorkerLeft, ExecutorInv, TypeOK
  <1>3. PipeLeft \in Nat
    <2>1. outbox \in ExecutionResult /\ sent \in Nat /\ sent <= Units(outbox)
      BY DEF ExecutorInv, TypeOK, PayloadInv
    <2>2. /\ Units(outbox) \in Nat /\ RowUnits * MaxRows \in Nat
          /\ Units(outbox) <= 1 + RowUnits * MaxRows
      BY <2>1, RoomLeft
    <2>. QED BY <2>1, <2>2 DEF PipeLeft
  <1>4. ClockLeft \in Nat
    BY BudgetAssumption DEF ClockLeft, ClockBound, HardDeadline, ExecutorInv, TypeOK
  <1>. QED BY <1>1, <1>2, <1>3, <1>4 DEF StepsLeft

\* The parent moves forward; only the start of the worker touches anything else.
LEMMA ParentRunsDown ==
  ASSUME ExecutorInv, Parent
  PROVE  /\ ParentLeft' < ParentLeft /\ ParentLeft' \in Nat
         /\ WorkerLeft' <= WorkerLeft /\ WorkerLeft' \in Nat
         /\ UNCHANGED <<watchdog, sent, now>>
  <1>1. UNCHANGED <<watchdog, sent, now>>
    BY DEF Parent, Validate, CheckFile, StartProcess, JoinReturns, AskAlive,
           TermJoinReturns, KillJoinReturns, Poll, Receive, workerVars
  <1>2. ParentLeft' < ParentLeft /\ ParentLeft' \in Nat
    BY DEF Parent, Validate, CheckFile, StartProcess, JoinReturns, AskAlive,
           TermJoinReturns, KillJoinReturns, Poll, Receive, ParentReturns, ParentLeft
  <1>3. StartProcess \/ UNCHANGED <<worker, fetched>>
    BY DEF Parent, Validate, CheckFile, StartProcess, JoinReturns, AskAlive,
           TermJoinReturns, KillJoinReturns, Poll, Receive, workerVars
  <1>4. CASE StartProcess
    <2>1. worker = "none" /\ worker' = "starting"
      BY <1>4 DEF StartProcess, ExecutorInv, ParentInv
    <2>. QED BY <1>1, <1>2, <2>1, MaxRowsAssumption DEF WorkerLeft
  <1>5. CASE UNCHANGED <<worker, fetched>>
    <2>1. WorkerLeft' = WorkerLeft
      BY <1>5 DEF WorkerLeft
    <2>. QED BY <1>1, <1>2, <2>1, MeasureIsNatural
  <1>. QED BY <1>3, <1>4, <1>5

\* A step of the worker uses up one of its own.
LEMMA WorkerRunsDown ==
  ASSUME ExecutorInv, Worker \/ WorkerRaises \/ WorkerDies \/ WorkerCrashes
  PROVE  /\ WorkerLeft' < WorkerLeft /\ WorkerLeft' \in Nat
         /\ WatchdogLeft' <= WatchdogLeft /\ WatchdogLeft' \in Nat
         /\ UNCHANGED <<parent, sent, now>>
  <1>0. MaxRows \in Nat /\ fetched \in 0 .. MaxRows /\ worker \in WorkerAt
    BY MaxRowsAssumption DEF ExecutorInv, TypeOK
  <1>1. UNCHANGED <<parent, sent, now>>
    BY DEF Worker, WorkerBegins, Connect, Execute, LoopHead, Fetch, Probe, Interrupted,
           CloseConnection, WorkerExits, WorkerRaises, WorkerDies, WorkerCrashes, Report,
           WorkerStep
  <1>2. WatchdogLeft' <= WatchdogLeft /\ WatchdogLeft' \in Nat
    <2>1. UNCHANGED watchdog \/ (Connect /\ watchdog' = "sleeping")
      BY DEF Worker, WorkerBegins, Connect, Execute, LoopHead, Fetch, Probe, Interrupted,
             CloseConnection, WorkerExits, WorkerRaises, WorkerDies, WorkerCrashes, Report
    <2>2. CASE Connect /\ watchdog' = "sleeping"
      <3>1. watchdog = "off"
        BY <2>2 DEF Connect, Report, WorkerStep, ExecutorInv, ClockInv
      <3>. QED BY <2>2, <3>1 DEF WatchdogLeft
    <2>. QED BY <2>1, <2>2 DEF WatchdogLeft
  <1>3. WorkerLeft' < WorkerLeft /\ WorkerLeft' \in Nat
    <2>. USE <1>0 DEF WorkerLeft
    <2>1. ASSUME NEW from \in {"connect", "execute", "loop", "fetch", "probe"},
                 NEW payload, Report(from, payload)
          PROVE  WorkerLeft' < WorkerLeft /\ WorkerLeft' \in Nat
      BY <2>1 DEF Report, WorkerStep
    <2>2. CASE WorkerBegins \/ CloseConnection \/ WorkerExits
      BY <2>2 DEF WorkerBegins, CloseConnection, WorkerExits, WorkerStep
    <2>3. CASE Connect
      BY <2>1, <2>3 DEF Connect, WorkerStep
    <2>4. CASE Execute
      BY <2>1, <2>4 DEF Execute, WorkerStep
    <2>5. CASE LoopHead
      BY <2>1, <2>5 DEF LoopHead, WorkerStep
    <2>6. CASE Fetch
      <3>1. worker = "fetch" => fetched < MaxRows
        BY DEF ExecutorInv, PayloadInv
      <3>2. CASE fetched' = fetched + 1 /\ WorkerStep("fetch", "loop")
        <4>1. WorkerLeft' = 2 * (MaxRows - (fetched + 1)) + 5
          BY <3>2 DEF WorkerStep
        <4>2. WorkerLeft = 2 * (MaxRows - fetched) + 4 /\ fetched < MaxRows
          BY <3>1, <3>2 DEF WorkerStep
        <4>. QED BY <4>1, <4>2
      <3>. QED BY <2>1, <2>6, <3>2 DEF Fetch
    <2>7. CASE Probe
      BY <2>1, <2>7 DEF Probe
    <2>8. CASE Interrupted \/ WorkerRaises
      BY <2>1, <2>8 DEF Interrupted, InSqlite, WorkerRaises
    <2>9. CASE WorkerDies \/ WorkerCrashes
      BY <2>9 DEF WorkerDies, WorkerCrashes, Alive, WorkerAt
    <2>. QED BY <2>2, <2>3, <2>4, <2>5, <2>6, <2>7, <2>8, <2>9 DEF Worker
  <1>. QED BY <1>1, <1>2, <1>3

\* A sum falls when one of its terms does and none rises.
LEMMA SumFalls ==
  ASSUME NEW p \in Nat, NEW w \in Nat, NEW d \in Nat, NEW q \in Nat, NEW c \in Nat,
         NEW p1 \in Nat, NEW w1 \in Nat, NEW d1 \in Nat, NEW q1 \in Nat, NEW c1 \in Nat,
         p1 <= p, w1 <= w, d1 <= d, q1 <= q, c1 <= c,
         p1 < p \/ w1 < w \/ d1 < d \/ q1 < q \/ c1 < c
  PROVE  p1 + w1 + d1 + q1 + c1 < p + w + d + q + c
  OBVIOUS

\* The counters change separately, so that one that falls makes the sum fall.
THEOREM EveryCallRunsDown ==
  ExecutorSpec => [](StepsLeft \in Nat) /\ CallRunsDown
  <1>1. ASSUME ExecutorInv, ExecutorNext, ~UNCHANGED evars
        PROVE  StepsLeft' < StepsLeft
    <2>0. /\ ParentLeft \in Nat /\ WorkerLeft \in Nat /\ WatchdogLeft \in Nat
          /\ PipeLeft \in Nat /\ ClockLeft \in Nat
      BY <1>1, MeasureIsNatural
    <2>1. CASE Parent
      <3>1. /\ ParentLeft' < ParentLeft /\ ParentLeft' \in Nat
            /\ WorkerLeft' <= WorkerLeft /\ WorkerLeft' \in Nat
            /\ UNCHANGED <<watchdog, sent, now>>
        BY <1>1, <2>1, ParentRunsDown
      <3>2. WatchdogLeft' = WatchdogLeft /\ PipeLeft' = PipeLeft /\ ClockLeft' = ClockLeft
        BY <3>1 DEF WatchdogLeft, PipeLeft, ClockLeft, ClockBound, HardDeadline
      <3>3. /\ WatchdogLeft <= WatchdogLeft /\ PipeLeft <= PipeLeft /\ ClockLeft <= ClockLeft
            /\ ParentLeft' <= ParentLeft
        BY <2>0, <3>1
      <3>. QED BY <2>0, <3>1, <3>2, <3>3, SumFalls, Zenon DEF StepsLeft
    <2>2. CASE Worker \/ WorkerRaises \/ WorkerDies \/ WorkerCrashes
      <3>1. /\ WorkerLeft' < WorkerLeft /\ WorkerLeft' \in Nat
            /\ WatchdogLeft' <= WatchdogLeft /\ WatchdogLeft' \in Nat
            /\ UNCHANGED <<parent, sent, now>>
        BY <1>1, <2>2, WorkerRunsDown
      <3>2. ParentLeft' = ParentLeft /\ PipeLeft' = PipeLeft /\ ClockLeft' = ClockLeft
        BY <3>1 DEF ParentLeft, PipeLeft, ClockLeft, ClockBound, HardDeadline
      <3>3. /\ ParentLeft <= ParentLeft /\ PipeLeft <= PipeLeft /\ ClockLeft <= ClockLeft
            /\ WorkerLeft' <= WorkerLeft
        BY <2>0, <3>1
      <3>. QED BY <2>0, <3>1, <3>2, <3>3, SumFalls, Zenon DEF StepsLeft
    <2>3. CASE WatchdogFires
      <3>1. WatchdogLeft' = 0 /\ WatchdogLeft = 1
        BY <2>3 DEF WatchdogFires, WatchdogLeft
      <3>3. StepsLeft = ParentLeft + WorkerLeft + 1 + PipeLeft + ClockLeft
        BY <3>1 DEF StepsLeft
      <3>2. /\ ParentLeft' = ParentLeft /\ WorkerLeft' = WorkerLeft /\ PipeLeft' = PipeLeft
            /\ ClockLeft' = ClockLeft
        BY <2>3 DEF WatchdogFires, ParentLeft, WorkerLeft, PipeLeft, ClockLeft, ClockBound,
                    HardDeadline
      <3>4. StepsLeft' = ParentLeft + WorkerLeft + 0 + PipeLeft + ClockLeft
        BY <3>1, <3>2 DEF StepsLeft
      <3>. QED BY <2>0, <3>3, <3>4
    <2>4. CASE FeederWrites
      <3>1. RowUnits * MaxRows \in Nat /\ sent \in Nat /\ sent' = sent + 1
        BY <1>1, <2>4, NoResultFacts, RoomLeft DEF FeederWrites, ExecutorInv, TypeOK
      <3>2. PipeLeft' = PipeLeft - 1
        BY <3>1 DEF PipeLeft
      <3>3. /\ ParentLeft' = ParentLeft /\ WorkerLeft' = WorkerLeft
            /\ WatchdogLeft' = WatchdogLeft /\ ClockLeft' = ClockLeft
        BY <2>4 DEF FeederWrites, workerVars, ParentLeft, WorkerLeft, WatchdogLeft, ClockLeft,
                    ClockBound, HardDeadline
      <3>. QED BY <2>0, <3>2, <3>3 DEF StepsLeft
    <2>5. CASE Tick
      <3>1. ClockLeft' = ClockLeft - 1
        BY <1>1, <2>5, BudgetAssumption
        DEF Tick, ClockLeft, ClockBound, HardDeadline, ExecutorInv, TypeOK
      <3>2. /\ ParentLeft' = ParentLeft /\ WorkerLeft' = WorkerLeft
            /\ WatchdogLeft' = WatchdogLeft /\ PipeLeft' = PipeLeft
        BY <2>5 DEF Tick, workerVars, ParentLeft, WorkerLeft, WatchdogLeft, PipeLeft
      <3>. QED BY <2>0, <3>1, <3>2 DEF StepsLeft
    <2>. QED BY <1>1, <2>1, <2>2, <2>3, <2>4, <2>5 DEF ExecutorNext, ReceiveBlocks, Finished
  <1>2. ExecutorInv => StepsLeft \in Nat
    BY MeasureIsNatural
  <1>3. ExecutorInv /\ [ExecutorNext]_evars => [StepsLeft' < StepsLeft]_evars
    BY <1>1
  <1>. QED BY <1>2, <1>3, Invariance, PTL DEF ExecutorSpec, CallRunsDown
-----------------------------------------------------------------------------
(***************************************************************************)
(* Refinement: the executor keeps the promise of SqlExecution.             *)
(***************************************************************************)
\* The definitions SqlExecution instantiates are the executor's own.
LEMMA SameDefinitions ==
  /\ Promise!Statement = Statement
  /\ Promise!NoResult = NoResult
  /\ \A s : /\ Promise!Admissible(s) = Admissible(s)
           /\ Promise!Refusal(s) = Refusal(s)
           /\ Promise!Allowed(s) = Allowed(s)
  BY DEF Promise!Statement, Statement, Promise!Verdict, Verdict, Promise!Ending, Ending,
         Promise!NoResult, NoResult, Promise!Admissible, Admissible, Promise!Refusal, Refusal,
         Promise!Failed, Failed, Promise!Allowed, Allowed, Promise!TrueAnswer, TrueAnswer,
         Promise!Answer, Answer

\* Each step of the executor is a step of the promise or leaves it unchanged.
LEMMA StepRefines ==
  ExecutorInv /\ ExecutorInv' /\ [ExecutorNext]_evars => [Promise!Next]_(Promise!vars)
  <1>. SUFFICES ASSUME ExecutorInv, ExecutorInv', ExecutorNext \/ UNCHANGED evars
                PROVE  Promise!Next \/ UNCHANGED Promise!vars
    OBVIOUS
  <1>. USE SameDefinitions
       DEF Promise!Next, Promise!Refuse, Promise!Start, Promise!Return, Promise!vars,
           promisedCall, ParentReturns, workerVars
  <1>1. CASE Validate
    BY <1>1 DEF Validate, Admissible, Refusal
  <1>2. CASE CheckFile
    BY <1>2 DEF CheckFile, Admissible, Refusal, ExecutorInv, ParentInv, TypeOK, Statement
  <1>3. CASE TermJoinReturns \/ KillJoinReturns \/ Poll \/ Receive
    <2>1. Admissible(stmt) /\ stmt' = stmt
      BY <1>3 DEF TermJoinReturns, KillJoinReturns, Poll, Receive, ExecutorInv, ParentInv
    <2>2. parent' = "done" => result' \in Allowed(stmt)
      BY <2>1 DEF ExecutorInv, ParentInv
    <2>. QED BY <1>3, <2>1, <2>2 DEF TermJoinReturns, KillJoinReturns, Poll, Receive
  <1>4. CASE StartProcess \/ JoinReturns \/ AskAlive
    BY <1>4 DEF StartProcess, JoinReturns, AskAlive
  <1>5. CASE Worker \/ WatchdogFires \/ WorkerRaises \/ FeederWrites \/ WorkerDies
             \/ WorkerCrashes \/ Tick \/ ReceiveBlocks \/ Finished \/ UNCHANGED evars
    <2>1. UNCHANGED <<stmt, result, parent>>
      BY <1>5 DEF Worker, WorkerBegins, Connect, Execute, LoopHead, Fetch, Probe, Interrupted,
                  CloseConnection, WorkerExits, WatchdogFires, WorkerRaises, FeederWrites,
                  WorkerDies, WorkerCrashes, Tick, ReceiveBlocks, Finished, Report,
                  WorkerStep, evars
    <2>. QED BY <2>1
  <1>. QED BY <1>1, <1>2, <1>3, <1>4, <1>5 DEF ExecutorNext, Parent

\* execute() returns once, refuses what it must, and what it calls a success is
\* the true answer of the statement, cut off exactly when there was more.
THEOREM ExecutorKeepsPromise == ExecutorSpec => PromiseKept
  <1>1. ExecutorInit => Promise!Init
    BY SameDefinitions DEF ExecutorInit, Promise!Init, promisedCall
  <1>. QED BY <1>1, StepRefines, Invariance, PTL DEF ExecutorSpec, PromiseKept, Promise!Spec
-----------------------------------------------------------------------------
(***************************************************************************)
(* Composition: the results the reward, the verifier and the gold cache    *)
(* count with are those of the executor.                                   *)
(***************************************************************************)
\* For a query of each kind, what execute() promises are exactly the outcomes
\* RewardScoring lets its scoring choose from: none that is not among them, and none
\* of them that cannot happen.
THEOREM OutcomesAreTheScored ==
  ASSUME NEW s \in Statement, NEW sql \in Runnable, Means(s, sql)
  PROVE  {OutcomeOf(r) : r \in Allowed(s)} = Executed(sql)
  <1>0. s.total \in Nat /\ MaxRows \in Nat \ {0} /\ s.ending \in Ending
    BY TotalRowsAssumption, MaxRowsAssumption DEF Statement
  <1>1. \A e : OutcomeOf(Failed(e)) = "failed"
    BY DEF OutcomeOf, Failed
  <1>2. \A n, cut : OutcomeOf(Answer(n, cut)) =
                      IF cut THEN "cut" ELSE IF n = 0 THEN "empty" ELSE "rows"
    BY DEF OutcomeOf, Answer
  <1>3. {OutcomeOf(r) : r \in Allowed(s)} =
          {"failed"} \cup {OutcomeOf(r) : r \in {q \in {TrueAnswer(s)} :
                                            s.ending = "end" \/ s.total > MaxRows}}
    BY <1>1 DEF Allowed
  <1>4. CASE sql = "error"
    <2>1. ~(s.ending = "end" \/ s.total > MaxRows)
      BY <1>0, <1>4 DEF Means
    <2>2. Executed(sql) = {"failed"}
      BY <1>4 DEF Executed
    <2>. QED BY <1>3, <2>1, <2>2
  <1>5. CASE sql \in Answerable
    <2>1. s.ending = "end" \/ s.total > MaxRows
      BY <1>5 DEF Means, Answerable
    <2>2. {OutcomeOf(r) : r \in Allowed(s)} = {"failed", OutcomeOf(TrueAnswer(s))}
      BY <1>3, <2>1
    <2>3. CASE sql = "cut"
      <3>1. TrueAnswer(s) = Answer(MaxRows, TRUE)
        <4>1. s.total > MaxRows
          BY <2>3 DEF Means
        <4>2. (IF s.total <= MaxRows THEN s.total ELSE MaxRows) = MaxRows
                /\ (s.total > MaxRows) = TRUE
          BY <1>0, <4>1
        <4>. QED BY <4>2, Zenon DEF TrueAnswer
      <3>2. OutcomeOf(TrueAnswer(s)) = "cut" /\ Executed(sql) = {"failed", "cut"}
        BY <1>2, <2>3, <3>1 DEF Executed
      <3>. QED BY <2>2, <3>2
    <2>4. CASE sql # "cut"
      <3>1. TrueAnswer(s) = Answer(s.total, FALSE)
        <4>1. s.total <= MaxRows
          BY <1>0, <1>5, <2>4 DEF Means, Answerable
        <4>2. (IF s.total <= MaxRows THEN s.total ELSE MaxRows) = s.total
                /\ (s.total > MaxRows) = FALSE
          BY <1>0, <4>1
        <4>. QED BY <4>2, Zenon DEF TrueAnswer
      <3>2. OutcomeOf(TrueAnswer(s)) = IF s.total = 0 THEN "empty" ELSE "rows"
        BY <1>2, <3>1
      <3>3. CASE sql \in {"same_rows", "other_rows"}
        BY <1>0, <2>2, <3>2, <3>3 DEF Means, Executed
      <3>4. CASE sql \in {"sane_empty", "odd_empty"}
        BY <1>0, <2>2, <3>2, <3>4 DEF Means, Executed
      <3>. QED BY <1>5, <2>4, <3>3, <3>4 DEF Answerable
    <2>. QED BY <2>3, <2>4
  <1>. QED BY <1>4, <1>5 DEF Runnable

\* What a call returns is an outcome the reward counts with for that query.
THEOREM ResultsAreTheScored == ExecutorSpec => []OutcomeAsScored
  <1>1. ExecutorInv => OutcomeAsScored
    <2>. SUFFICES ASSUME ExecutorInv, parent = "done", NEW sql \in Runnable, Means(stmt, sql)
                  PROVE  OutcomeOf(result) \in Executed(sql)
      BY DEF OutcomeAsScored
    <2>1. stmt \in Statement /\ result \in Allowed(stmt)
      BY DEF ExecutorInv, TypeOK, ParentInv, Means
    <2>2. OutcomeOf(result) \in {OutcomeOf(r) : r \in Allowed(stmt)}
      BY <2>1
    <2>. QED BY <2>1, <2>2, OutcomesAreTheScored
  <1>. QED BY <1>1, Invariance, PTL
=============================================================================
