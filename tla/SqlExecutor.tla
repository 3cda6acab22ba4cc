----------------------------- MODULE SqlExecutor ----------------------------
(***************************************************************************)
(* One call of SafeSQLExecutor.execute (sql/executor.py): the caller's     *)
(* process (the parent), the SQL worker it starts, the worker's watchdog   *)
(* thread, the feeder thread multiprocessing.Queue runs inside the worker, *)
(* the pipe between them and the signals that end a worker.                *)
(*                                                                         *)
(* The parent joins the worker BEFORE it drains the queue, and a worker    *)
(* cannot exit before its feeder has written the whole payload, so what    *)
(* the pipe can hold matters: a payload is counted in units, of which the  *)
(* pipe holds PipeCapacity, and a unit is what one write(2) transfers      *)
(* whole.                                                                  *)
(*                                                                         *)
(* Time is a clock that starts at process.start() and stops one tick past  *)
(* the hard deadline, after which no step of the program reads it anew.    *)
(***************************************************************************)
EXTENDS ExecutionResults, QueryOutcomes

CONSTANTS
  ExecBudget,     \* max_execution_ms, in clock ticks
  StartTimeout,   \* worker_start_timeout, in clock ticks
  RowUnits,       \* units of payload one row takes
  PipeCapacity    \* units the pipe of result_queue holds unread

ASSUME BudgetAssumption ==
  ExecBudget \in Nat \ {0} /\ StartTimeout \in Nat \ {0}
ASSUME PipeAssumption ==
  RowUnits \in Nat /\ PipeCapacity \in Nat \ {0}

VARIABLES
  stmt,      \* the statement execute() was called with
  result,    \* what it returned, NoResult before
  parent,    \* where execute() is
  worker,    \* where _run_sql_worker is, "dead" once the process is reaped
  started,   \* the worker's own `started`, NotStarted before it runs
  fetched,   \* len(rows) in the worker
  watchdog,  \* "off" | "sleeping" | "fired"
  outbox,    \* the payload handed to result_queue.put, NoResult before
  sent,      \* units of outbox the feeder thread has written to the pipe
  signal,    \* the strongest signal the parent sent: "none" | "TERM" | "KILL"
  crashed,   \* was the worker killed from outside (OOM killer, operator)?
  now        \* clock ticks since process.start()

workerVars == <<worker, started, fetched, watchdog, outbox>>
evars == <<stmt, result, parent, workerVars, sent, signal, crashed, now>>
-----------------------------------------------------------------------------
NotStarted == -1

ParentAt == {"validate", "check_file", "start", "join", "alive?", "term_join",
             "kill_join", "get", "recv", "done"}

WorkerAt == {"none", "starting", "connect", "execute", "loop", "fetch", "probe",
             "closing", "exiting", "dead"}

Alive     == worker \notin {"none", "dead"}
InSqlite  == worker \in {"execute", "fetch", "probe"}

\* Faulty variant: the time a process needs to start is not allowed for.
HardDeadlineWithoutStart == ExecBudget

HardDeadline == ExecBudget + StartTimeout
ClockBound   == HardDeadline + 1

\* time.monotonic() > deadline, in the worker.
PastDeadline == now > started + ExecBudget

Units(payload) ==
  IF payload = NoResult THEN 0 ELSE 1 + RowUnits * payload.row_count

\* The feeder waits for room that only a reader of the pipe can make.
FeederBlocked == sent < Units(outbox) /\ sent >= PipeCapacity
-----------------------------------------------------------------------------
ExecutorInit ==
  /\ stmt \in Statement
  /\ result = NoResult
  /\ parent = "validate"
  /\ worker = "none"
  /\ started = NotStarted
  /\ fetched = 0
  /\ watchdog = "off"
  /\ outbox = NoResult
  /\ sent = 0
  /\ signal = "none"
  /\ crashed = FALSE
  /\ now = 0
-----------------------------------------------------------------------------
(***************************************************************************)
(* The parent.                                                             *)
(***************************************************************************)
ParentReturns(r) == parent' = "done" /\ result' = r

Validate ==
  /\ parent = "validate"
  /\ IF stmt.verdict = "none"
     THEN parent' = "check_file" /\ UNCHANGED result
     ELSE ParentReturns(Failed(stmt.verdict))
  /\ UNCHANGED <<stmt, workerVars, sent, signal, crashed, now>>

CheckFile ==
  /\ parent = "check_file"
  /\ IF stmt.file
     THEN parent' = "start" /\ UNCHANGED result
     ELSE ParentReturns(Failed("schema_error"))
  /\ UNCHANGED <<stmt, workerVars, sent, signal, crashed, now>>

StartProcess ==
  /\ parent = "start"
  /\ parent' = "join"
  /\ worker' = "starting"
  /\ UNCHANGED <<stmt, result, started, fetched, watchdog, outbox, sent, signal, crashed, now>>

\* join() returns: the worker is gone or the hard deadline has passed.
JoinReturns ==
  /\ parent = "join"
  /\ worker = "dead" \/ now >= HardDeadline
  /\ parent' = "alive?"
  /\ UNCHANGED <<stmt, result, workerVars, sent, signal, crashed, now>>

\* process.is_alive() is asked after join() returned: the worker may have
\* ended in between.
AskAlive ==
  /\ parent = "alive?"
  /\ IF Alive
     THEN parent' = "term_join" /\ signal' = "TERM"
     ELSE parent' = "get" /\ UNCHANGED signal
  /\ UNCHANGED <<stmt, result, workerVars, sent, crashed, now>>

\* Faulty variant: a worker that survives terminate() is given up.
TermJoinReturnsWithoutKill ==
  /\ parent = "term_join"
  /\ ParentReturns(Failed("timeout"))
  /\ UNCHANGED <<stmt, workerVars, sent, signal, crashed, now>>

\* The five-second join after terminate(): it may end with the worker alive,
\* which is then killed.
TermJoinReturns ==
  /\ parent = "term_join"
  /\ IF Alive
     THEN parent' = "kill_join" /\ signal' = "KILL" /\ UNCHANGED result
     ELSE ParentReturns(Failed("timeout")) /\ UNCHANGED signal
  /\ UNCHANGED <<stmt, workerVars, sent, crashed, now>>

KillJoinReturns ==
  /\ parent = "kill_join"
  /\ ParentReturns(Failed("timeout"))
  /\ UNCHANGED <<stmt, workerVars, sent, signal, crashed, now>>

\* Faulty variant: get() without a timeout.
PollForever ==
  /\ parent = "get" /\ sent > 0
  /\ parent' = "recv"
  /\ UNCHANGED <<stmt, result, workerVars, sent, signal, crashed, now>>

\* result_queue.get(timeout=2.0): the poll finds some of a message, or nothing.
Poll ==
  /\ parent = "get"
  /\ IF sent > 0
     THEN parent' = "recv" /\ UNCHANGED result
     ELSE ParentReturns(Failed("internal_error"))
  /\ UNCHANGED <<stmt, workerVars, sent, signal, crashed, now>>

\* recv_bytes() has no timeout and sees no end of file, for the parent itself
\* holds the write end open: it returns only once the whole message is there.
Receive ==
  /\ parent = "recv"
  /\ sent = Units(outbox)
  /\ ParentReturns(outbox)
  /\ UNCHANGED <<stmt, workerVars, sent, signal, crashed, now>>

\* A worker killed from outside halfway through a message leaves its reader waiting for
\* the rest of it.
ReceiveBlocks ==
  /\ parent = "recv" /\ ~Alive
  /\ sent < Units(outbox)
  /\ UNCHANGED evars

Parent ==
  \/ Validate \/ CheckFile \/ StartProcess \/ JoinReturns \/ AskAlive
  \/ TermJoinReturns \/ KillJoinReturns \/ Poll \/ Receive
-----------------------------------------------------------------------------
(***************************************************************************)
(* The worker.                                                             *)
(***************************************************************************)
WorkerStep(from, to) ==
  /\ worker = from
  /\ worker' = to
  /\ UNCHANGED <<stmt, result, parent, sent, signal, crashed, now>>

\* result_queue.put(payload) followed by the finally clause.
Report(from, payload) ==
  /\ WorkerStep(from, "closing")
  /\ outbox' = payload
  /\ UNCHANGED <<started, fetched, watchdog>>

WorkerBegins ==
  /\ WorkerStep("starting", "connect")
  /\ started' = now
  /\ UNCHANGED <<fetched, watchdog, outbox>>

\* connect, PRAGMA query_only, authorizer, progress handler, watchdog.start().
Connect ==
  \/ /\ WorkerStep("connect", "execute")
     /\ watchdog' = "sleeping"
     /\ UNCHANGED <<started, fetched, outbox>>
  \/ Report("connect", Failed("sqlite_error"))

\* connection.execute(sql) runs the statement up to its first row.
Execute ==
  \/ /\ stmt.total > 0 \/ stmt.ending = "end"
     /\ WorkerStep("execute", "loop")
     /\ UNCHANGED <<started, fetched, watchdog, outbox>>
  \/ /\ stmt.total = 0 /\ stmt.ending = "error"
     /\ Report("execute", Failed("sqlite_error"))

\* Faulty variant: the loop does not stop at MaxRows.
LoopHeadUnlimited ==
  \/ PastDeadline /\ Report("loop", Failed("timeout"))
  \/ /\ ~PastDeadline
     /\ WorkerStep("loop", "fetch")
     /\ UNCHANGED <<started, fetched, watchdog, outbox>>

\* The head of the fetch loop and the deadline check in it.
LoopHead ==
  \/ /\ fetched < MaxRows /\ PastDeadline
     /\ Report("loop", Failed("timeout"))
  \/ /\ fetched < MaxRows /\ ~PastDeadline
     /\ WorkerStep("loop", "fetch")
     /\ UNCHANGED <<started, fetched, watchdog, outbox>>
  \/ /\ fetched >= MaxRows
     /\ WorkerStep("loop", "probe")
     /\ UNCHANGED <<started, fetched, watchdog, outbox>>

\* Faulty variant: an error after the first rows is taken for their end.
FetchErrorAsEnd ==
  \/ /\ fetched < stmt.total
     /\ WorkerStep("fetch", "loop")
     /\ fetched' = fetched + 1
     /\ UNCHANGED <<started, watchdog, outbox>>
  \/ fetched = stmt.total /\ stmt.ending # "never" /\ Report("fetch", Answer(fetched, FALSE))

Fetch ==
  \/ /\ fetched < stmt.total
     /\ WorkerStep("fetch", "loop")
     /\ fetched' = fetched + 1
     /\ UNCHANGED <<started, watchdog, outbox>>
  \/ fetched = stmt.total /\ stmt.ending = "end" /\ Report("fetch", Answer(fetched, FALSE))
  \/ fetched = stmt.total /\ stmt.ending = "error" /\ Report("fetch", Failed("sqlite_error"))

\* One fetch more, to see whether anything was cut off.
Probe ==
  \/ fetched < stmt.total /\ Report("probe", Answer(fetched, TRUE))
  \/ fetched = stmt.total /\ stmt.ending = "end" /\ Report("probe", Answer(fetched, FALSE))
  \/ fetched = stmt.total /\ stmt.ending = "error" /\ Report("probe", Failed("sqlite_error"))

\* SQLite gives a statement up once the progress handler, which runs every
\* thousand VM steps, finds the deadline passed or interrupt() was called; one
\* that is nearly done, or had not begun when interrupt() came, gets away.
Interrupted ==
  /\ InSqlite
  /\ PastDeadline \/ watchdog = "fired"
  /\ Report(worker, Failed("timeout"))

WatchdogFires ==
  /\ watchdog = "sleeping" /\ Alive
  /\ now >= started + ExecBudget
  /\ watchdog' = "fired"
  /\ UNCHANGED <<stmt, result, parent, worker, started, fetched, outbox, sent, signal, crashed, now>>

\* Anything else raised in the try block (MemoryError, KeyboardInterrupt, ...).
WorkerRaises ==
  /\ worker \in {"connect", "execute", "loop", "fetch", "probe"}
  /\ Report(worker, Failed("internal_error"))

CloseConnection ==
  /\ WorkerStep("closing", "exiting")
  /\ UNCHANGED <<started, fetched, watchdog, outbox>>

\* The feeder thread of the queue, inside the worker process.
FeederWrites ==
  /\ Alive
  /\ sent < Units(outbox) /\ ~FeederBlocked
  /\ sent' = sent + 1
  /\ UNCHANGED <<stmt, result, parent, workerVars, signal, crashed, now>>

\* Faulty variant: the process does not wait for its feeder (cancel_join_thread).
WorkerExitsUnjoined ==
  /\ WorkerStep("exiting", "dead")
  /\ UNCHANGED <<started, fetched, watchdog, outbox>>

\* Process exit joins the feeder thread.
WorkerExits ==
  /\ sent = Units(outbox)
  /\ WorkerStep("exiting", "dead")
  /\ UNCHANGED <<started, fetched, watchdog, outbox>>

\* A signalled worker dies, though not at once (it may be in the kernel).
WorkerDies ==
  /\ Alive /\ signal # "none"
  /\ worker' = "dead"
  /\ UNCHANGED <<stmt, result, parent, started, fetched, watchdog, outbox, sent, signal, crashed, now>>

\* Somebody else kills it.
WorkerCrashes ==
  /\ Alive
  /\ worker' = "dead"
  /\ crashed' = TRUE
  /\ UNCHANGED <<stmt, result, parent, started, fetched, watchdog, outbox, sent, signal, now>>

Worker ==
  \/ WorkerBegins \/ Connect \/ Execute \/ LoopHead \/ Fetch \/ Probe
  \/ CloseConnection \/ WorkerExits \/ Interrupted

Tick ==
  /\ worker # "none" /\ parent # "done" /\ now < ClockBound
  /\ now' = now + 1
  /\ UNCHANGED <<stmt, result, parent, workerVars, sent, signal, crashed>>

\* The call is over and nothing of it is left running.
Finished == parent = "done" /\ ~Alive /\ UNCHANGED evars

ExecutorNext ==
  \/ Parent \/ Worker \/ WatchdogFires \/ WorkerRaises \/ FeederWrites
  \/ WorkerDies \/ WorkerCrashes \/ Tick \/ ReceiveBlocks \/ Finished

ExecutorSpec == ExecutorInit /\ [][ExecutorNext]_evars

(***************************************************************************)
(* The operating system schedules both processes and the feeder thread,    *)
(* time passes, and a signal is delivered in the end.  Nothing is assumed  *)
(* of the watchdog, of faults and of crashes.                              *)
(***************************************************************************)
Fairness ==
  /\ WF_evars(Parent)
  /\ WF_evars(Worker)
  /\ WF_evars(FeederWrites)
  /\ WF_evars(WorkerDies)
  /\ WF_evars(Tick)

FairSpec == ExecutorSpec /\ Fairness
-----------------------------------------------------------------------------
(***************************************************************************)
(* Properties.                                                             *)
(***************************************************************************)
\* Every variable has its type.
TypeOK ==
  /\ stmt \in Statement
  /\ result \in ExecutionResult
  /\ parent \in ParentAt
  /\ worker \in WorkerAt
  /\ started \in Nat \cup {NotStarted}
  /\ fetched \in 0 .. MaxRows
  /\ watchdog \in {"off", "sleeping", "fired"}
  /\ outbox \in ExecutionResult
  /\ sent \in Nat
  /\ signal \in {"none", "TERM", "KILL"}
  /\ crashed \in BOOLEAN
  /\ now \in 0 .. ClockBound

\* The refinement mapping to what execute() promises.
promisedCall ==
  IF parent \in {"validate", "check_file"} THEN "pending"
  ELSE IF parent = "done" THEN "returned" ELSE "running"

Promise == INSTANCE SqlExecution WITH call <- promisedCall
PromiseKept == Promise!Spec

\* Which kind of query a statement is to the reward: what it would give if nothing
\* interfered with it, as far as max_rows lets anybody see it.
Means(s, sql) ==
  /\ Admissible(s)
  /\ sql \in Runnable
  /\ sql \in {"same_rows", "other_rows"} => s.total \in 1 .. MaxRows /\ s.ending = "end"
  /\ sql \in {"sane_empty", "odd_empty"} => s.total = 0 /\ s.ending = "end"
  /\ sql = "cut"   => s.total > MaxRows
  /\ sql = "error" => s.total <= MaxRows /\ s.ending # "end"

\* The verifier and the reward see no outcome but those RewardScoring counts with: the
\* result of the query or a failure, never a part of the rows taken for all of them, and
\* never none for some (ExecutionResult.truncated, sql/executor.py lines 155-169).
OutcomeAsScored ==
  parent = "done" => \A sql \in Runnable : Means(stmt, sql) => OutcomeOf(result) \in Executed(sql)

\* A call that returned left no worker that nobody has killed, and had one
\* only if the statement was safe and its database exists (execute() lines
\* 247-279 of sql/executor.py).
NoWorkerLeftRunning ==
  /\ parent = "done" => ~Alive \/ signal = "KILL"
  /\ worker # "none" => Admissible(stmt)

\* A caller is told "timeout" only if the budget is really spent: the worker
\* had all of max_execution_ms, or did not even start within
\* worker_start_timeout.
TimeoutIsEarned ==
  result.error_type = "timeout" =>
    \/ started = NotStarted /\ now >= HardDeadline
    \/ started > StartTimeout /\ now >= HardDeadline
    \/ started # NotStarted /\ now >= started + ExecBudget

\* A worker that has nothing left to do but hand over its payload is not kept
\* waiting for the parent, while the parent waits for it to exit ("worker must
\* always report back", sql/executor.py line 178).
NoCircularWait ==
  ~(parent = "join" /\ worker = "exiting" /\ FeederBlocked)

\* Nobody waits in vain for what a worker owes: unless it was killed from outside,
\* the one the parent reads from has reported, and its message is whole in the pipe,
\* so that get(), of which only the poll has a timeout, neither blocks nor raises
\* queue.Empty ("worker must always report back", sql/executor.py line 178).
WorkerReportsBack ==
  ~crashed /\ parent \in {"get", "recv"} => outbox # NoResult /\ sent = Units(outbox)

\* execute() returns, whatever the statement does: terminate() is the hard backstop
\* (sql/executor.py lines 11-13).  The one call that never does is that of a worker killed
\* from outside halfway through its message (lines 282-285: get() bounds the wait for the
\* first byte only).
CallReturns ==
  <>(parent = "done" \/ (parent = "recv" /\ crashed /\ sent < Units(outbox)))
-----------------------------------------------------------------------------
(***************************************************************************)
(* The inductive invariant behind the safety properties, in named parts.   *)
(***************************************************************************)
\* What the parent knows at each of its steps.
ParentInv ==
  /\ parent \in {"validate", "check_file", "start"} => worker = "none" /\ signal = "none"
  /\ parent = "check_file" => stmt.verdict = "none"
  /\ parent \notin {"validate", "check_file", "done"} => Admissible(stmt)
  /\ parent \in {"join", "alive?"} => worker # "none" /\ signal = "none"
  /\ parent = "term_join" => worker # "none" /\ signal = "TERM"
  /\ parent = "kill_join" => worker # "none" /\ signal = "KILL"
  /\ parent \in {"get", "recv"} => worker = "dead" /\ signal = "none"
  /\ parent = "recv" => sent > 0
  /\ parent = "done" => ~Alive \/ signal = "KILL"
  /\ parent # "done" => result = NoResult
  /\ parent = "done" =>
       IF Admissible(stmt) THEN result \in Allowed(stmt) ELSE result = Refusal(stmt)
  /\ worker # "none" => Admissible(stmt)

\* What the clock says at each step.
ClockInv ==
  /\ worker \in {"none", "starting"} => started = NotStarted
  /\ worker \notin {"none", "starting", "dead"} => started # NotStarted
  /\ started # NotStarted => started \in 0 .. now
  /\ signal # "none" => now >= HardDeadline
  /\ parent = "alive?" => worker = "dead" \/ now >= HardDeadline
  /\ watchdog # "off" => started # NotStarted
  /\ worker \in {"none", "starting", "connect"} => watchdog = "off"
  /\ watchdog = "fired" => now >= started + ExecBudget
  /\ outbox.error_type = "timeout" => started # NotStarted /\ now >= started + ExecBudget
  /\ TimeoutIsEarned

\* What the worker has computed and handed over.
PayloadInv ==
  /\ outbox = NoResult \/ outbox \in Allowed(stmt)
  /\ worker \in {"none", "starting", "connect", "execute", "loop", "fetch", "probe"}
       => outbox = NoResult
  /\ sent <= Units(outbox)
  /\ fetched <= stmt.total
  /\ worker = "fetch" => fetched < MaxRows
  /\ worker = "probe" => fetched = MaxRows

ExecutorInv == TypeOK /\ ParentInv /\ ClockInv /\ PayloadInv

\* What a worker that stopped by itself has left behind.
DeliveryInv ==
  /\ worker \in {"closing", "exiting"} => outbox # NoResult
  /\ worker = "dead" /\ signal = "none" /\ ~crashed =>
       outbox # NoResult /\ sent = Units(outbox)
-----------------------------------------------------------------------------
(***************************************************************************)
(* How many steps a call may still take: what is left to the parent, the   *)
(* worker and its watchdog, the room a payload may still need in the pipe, *)
(* and the time.  Every step uses one of them up and gives none back.      *)
(***************************************************************************)
ParentLeft ==
  CASE parent = "validate"               -> 8
    [] parent = "check_file"             -> 7
    [] parent = "start"                  -> 6
    [] parent = "join"                   -> 5
    [] parent = "alive?"                 -> 4
    [] parent \in {"term_join", "get"}   -> 3
    [] parent \in {"kill_join", "recv"}  -> 2
    [] OTHER                             -> 0

WorkerLeft ==
  CASE worker = "none"     -> 2 * MaxRows + 9
    [] worker = "starting" -> 2 * MaxRows + 8
    [] worker = "connect"  -> 2 * MaxRows + 7
    [] worker = "execute"  -> 2 * MaxRows + 6
    [] worker = "loop"     -> 2 * (MaxRows - fetched) + 5
    [] worker = "fetch"    -> 2 * (MaxRows - fetched) + 4
    [] worker = "probe"    -> 4
    [] worker = "closing"  -> 3
    [] worker = "exiting"  -> 2
    [] OTHER               -> 0

WatchdogLeft ==
  CASE watchdog = "off" -> 2 [] watchdog = "sleeping" -> 1 [] OTHER -> 0

PipeLeft  == 1 + RowUnits * MaxRows - sent
ClockLeft == ClockBound - now

StepsLeft == ParentLeft + WorkerLeft + WatchdogLeft + PipeLeft + ClockLeft

\* Nothing in a call repeats: two processes, three threads, signals and time can
\* only take so many steps before the call is over.
CallRunsDown == [][StepsLeft' < StepsLeft]_evars
=============================================================================
