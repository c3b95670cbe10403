------------------------------ MODULE Runtime -------------------------------
(***************************************************************************)
(* One analysis run of the durable task runtime: the rows of its tasks,    *)
(* attempts and dispatch outbox, the relay that moves dispatches to the    *)
(* broker, the workers that claim and complete attempts, the recovery      *)
(* sweep, and the operators of the admin and public APIs.                  *)
(*                                                                         *)
(* A transaction of the code is one action: every transaction that writes  *)
(* a task, an attempt or the run holds the row lock of the run.  What      *)
(* happens between two transactions of one call (a relay between its claim *)
(* and its mark, a worker between its claim and its completion) is kept in *)
(* `relaying' and `exec'.                                                  *)
(*                                                                         *)
(* An operator whose name ends in _Slip is no part of the model: it is the *)
(* operator after it with a plausible programming error, kept to show that *)
(* a property below would notice that error.                               *)
(***************************************************************************)
EXTENDS TaskGraph, Sequences

CONSTANTS
    MaxAttempts,  \* max_attempts of the retry policy of each task
    Gate,         \* {resolve_discovered_product}, or {}
    MaxRetries,   \* bound: manual retries by an administrator
    MaxRelays,    \* bound: relay passes running at the same time
    Faults        \* what may go wrong besides the failures of handlers

FaultKinds == {"crash",      \* a worker or relay process dies
               "lease",      \* a lease lapses while its holder still runs
               "duplicate",  \* a delivery fails after the send, or is redelivered
               "abort",      \* the database aborts the transaction of a worker
               "softlimit",  \* the soft time limit fires outside the handler
               "budget",     \* the run budget is found exhausted
               "late",       \* a task deadline has passed
               "deadline"}   \* the run deadline passes

ASSUME RuntimeAssumption ==
    /\ MaxAttempts \in [Tasks -> Nat \ {0}]
    /\ Gate \subseteq Tasks
    /\ Gate \cap (Auditor \cup Publisher) = {}
    /\ MaxRetries \in Nat
    /\ MaxRelays \in Nat \ {0}
    /\ Faults \subseteq FaultKinds

VARIABLES
    run,          \* AnalysisRun.status
    task,         \* TaskRun.status of each task
    maxAttempts,  \* TaskRun.max_attempts
    attempts,     \* TaskAttempt.status by attempt_number; current_attempt is the length
    dispatch,     \* RuntimeOutbox.status of the dispatch rows, by attempt number
    relaying,     \* dispatch rows a relay pass is working on, with its progress
    broker,       \* deliveries <<task, attempt number>> waiting for a worker
    exec,         \* deliveries whose attempt a worker is executing, unacknowledged
    revokes,      \* revocations the outbox has not published yet
    clar,         \* ProductClarification.status, "none" before there is a row
    budget,       \* RunBudgetState.status
    report,       \* the status in the payload of the Report row, "none" without a row
    runLate,      \* the deadline of the run has passed
    retries       \* manual retries so far

vars == <<run, task, maxAttempts, attempts, dispatch, relaying, broker, exec,
          revokes, clar, budget, report, runLate, retries>>

queueVars == <<relaying, broker, exec, revokes>>
fixedVars == <<maxAttempts, clar, report, runLate, retries>>

Delivery == Tasks \X (Nat \ {0})
RelayStep == {"claimed", "cleared", "done"}

TypeOK ==
    /\ run \in RunStatus
    /\ task \in [Tasks -> TaskStatus]
    /\ maxAttempts \in [Tasks -> Nat \ {0}]
    /\ attempts \in [Tasks -> Seq(AttemptStatus)]
    /\ dispatch \in [Tasks -> Seq(OutboxStatus)]
    /\ relaying \subseteq [msg : Delivery, step : RelayStep]
    /\ broker \subseteq Delivery
    /\ exec \subseteq Delivery
    /\ revokes \subseteq Delivery
    /\ clar \in {"none", "pending", "answered", "expired", "cancelled"}
    /\ budget \in {"active", "exhausted", "closed"}
    /\ report \in {"none", "complete", "partial"}
    /\ runLate \in BOOLEAN
    /\ retries \in Nat

\* create_run: the roots are queued, each with its first dispatch.
Init ==
    /\ run = "queued"
    /\ task = [t \in Tasks |-> IF Deps[t] = {} THEN "queued" ELSE "blocked"]
    /\ maxAttempts = MaxAttempts
    /\ attempts = [t \in Tasks |-> <<>>]
    /\ dispatch = [t \in Tasks |-> IF Deps[t] = {} THEN <<"pending">> ELSE <<>>]
    /\ relaying = {}
    /\ broker = {}
    /\ exec = {}
    /\ revokes = {}
    /\ clar = "none"
    /\ budget = "active"
    /\ report = "none"
    /\ runLate = FALSE
    /\ retries = 0

-----------------------------------------------------------------------------
(* What the transactions share *)

Current(t) == Len(attempts[t])

HasRunning(t) == Current(t) > 0 /\ attempts[t][Current(t)] = "running"

AttemptOver_Slip(m) == FALSE

\* The attempt a worker executes has been ended by somebody else.
AttemptOver(m) == attempts[m[1]][m[2]] # "running"

EndAttempt_Slip(m, status) ==
    attempts' = IF status = "failed" THEN attempts
                ELSE [attempts EXCEPT ![m[1]][m[2]] = status]

EndAttempt(m, status) ==
    attempts' = [attempts EXCEPT ![m[1]][m[2]] = status]

\* Whether the check `now < deadline' of a task may come out late.
LateChoices == IF runLate THEN {TRUE}
               ELSE IF "late" \in Faults THEN BOOLEAN ELSE {FALSE}

\* queue_task_dispatch for a task with n attempts: a row keyed by attempt
\* number n + 1 is added unless it exists.
WithDispatch(rows, n) == IF Len(rows) = n THEN Append(rows, "pending") ELSE rows

\* Every task that ts queues gets the dispatch of its next attempt.
QueueDispatches(ts) ==
    dispatch' = [t \in Tasks |-> IF ts[t] = "queued" /\ task[t] # "queued"
                                 THEN WithDispatch(dispatch[t], Current(t))
                                 ELSE dispatch[t]]

Unfinished(ts) == {t \in Tasks : ts[t] \notin TaskTerminal}

Interrupted(ts) == \E t \in Tasks : ts[t] \in {"running", "cancelling"}

FinalRun_TimeoutSlip(rs, ts) ==
    CASE rs = "cancelling"        -> IF Interrupted(ts) THEN rs ELSE "cancelled"
      [] rs = "waiting_for_input" -> rs
      [] OTHER ->
            IF Unfinished(ts) # {} THEN rs
            ELSE IF report # "none" THEN report
            ELSE IF \A t \in Tasks : ts[t] = "succeeded" THEN "complete"
            ELSE IF \E t \in Tasks : ts[t] = "failed" THEN "failed" ELSE rs

FinalRun_OrderSlip(rs, ts) ==
    CASE rs = "cancelling"        -> IF Interrupted(ts) THEN rs ELSE "cancelled"
      [] rs = "waiting_for_input" -> rs
      [] OTHER ->
            IF Unfinished(ts) # {} THEN rs
            ELSE IF \E t \in Tasks : ts[t] \in {"failed", "timed_out"} THEN "failed"
            ELSE IF report # "none" THEN report
            ELSE "complete"

\* _finalize_run: the status the run moves to.
FinalRun(rs, ts) ==
    CASE rs = "cancelling"        -> IF Interrupted(ts) THEN rs ELSE "cancelled"
      [] rs = "waiting_for_input" -> rs
      [] OTHER ->
            IF Unfinished(ts) # {} THEN rs
            ELSE IF report # "none" THEN report
            ELSE IF \A t \in Tasks : ts[t] = "succeeded" THEN "complete"
            ELSE IF /\ \E t \in Tasks : ts[t] \in {"failed", "timed_out"}
                    /\ rs \in {"queued", "running"}
            THEN "failed" ELSE rs

\* _finalize_run: what a cancelled run does to the tasks it never started.
FinalTasks(rs, ts) ==
    [t \in Tasks |-> IF /\ FinalRun(rs, ts) = "cancelled" /\ rs = "cancelling"
                        /\ ts[t] \in {"blocked", "queued"}
                     THEN "cancelled" ELSE ts[t]]

\* _close_budget.
ClosedBudget(b) == IF b = "exhausted" THEN b ELSE "closed"

\* Commit statuses ts of a run in status rs, after _finalize_run.  An illegal
\* move of the run raises, and the transaction does not happen.
Commit(rs, ts, b) ==
    /\ LegalRunMove(rs, FinalRun(rs, ts))
    /\ run' = FinalRun(rs, ts)
    /\ task' = FinalTasks(rs, ts)
    /\ budget' = IF run' # rs /\ run' \in RunTerminal THEN ClosedBudget(b) ELSE b

-----------------------------------------------------------------------------
(* The outbox relay: relay_runtime_outbox *)

RelayHolds(m) == \E r \in relaying : r.msg = m

RelayClaim_Slip(t, n) ==
    /\ relaying = {}
    /\ n \in DOMAIN dispatch[t]
    /\ dispatch[t][n] = "pending"
    /\ dispatch' = [dispatch EXCEPT ![t][n] = "processing"]
    /\ relaying' = {[msg |-> <<t, n>>, step |-> "claimed"]}
    /\ UNCHANGED <<run, task, attempts, budget, broker, exec, revokes, fixedVars>>

\* _claim_next_outbox: a pending row, or one whose relay let the lease lapse.
RelayClaim(t, n) ==
    /\ Cardinality(relaying) < MaxRelays
    /\ n \in DOMAIN dispatch[t]
    /\ \/ dispatch[t][n] = "pending"
       \/ /\ dispatch[t][n] = "processing"
          /\ RelayHolds(<<t, n>>) => "lease" \in Faults
    /\ [msg |-> <<t, n>>, step |-> "claimed"] \notin relaying
    /\ dispatch' = [dispatch EXCEPT ![t][n] = "processing"]
    /\ relaying' = relaying \cup {[msg |-> <<t, n>>, step |-> "claimed"]}
    /\ UNCHANGED <<run, task, attempts, budget, broker, exec, revokes, fixedVars>>

\* The statuses under which _publish_task_dispatch sends a delivery.
Dispatchable(m) ==
    /\ task[m[1]] = "queued"
    /\ run \notin {"cancelling", "cancelled", "waiting_for_input"}
    /\ m[2] = Current(m[1]) + 1

RelayMoves(r, step) == relaying' = (relaying \ {r}) \cup {[r EXCEPT !.step = step]}

\* _publish_task_dispatch reads the task and the run in a transaction of its own.
RelayCheck(r) ==
    /\ r.step = "claimed"
    /\ RelayMoves(r, IF Dispatchable(r.msg) THEN "cleared" ELSE "done")
    /\ UNCHANGED <<run, task, attempts, dispatch, budget, broker, exec, revokes,
                   fixedVars>>

\* send_task: the statuses may have changed since they were read.
RelaySend(r) ==
    /\ r.step = "cleared"
    /\ RelayMoves(r, "done")
    /\ broker' = broker \cup {r.msg}
    /\ UNCHANGED <<run, task, attempts, dispatch, budget, exec, revokes, fixedVars>>

Marked_Slip(m, status) == [dispatch EXCEPT ![m[1]][m[2]] = "published"]

\* A relay marks a row only while the row is still processing.
Marked(m, status) ==
    IF dispatch[m[1]][m[2]] = "processing"
    THEN [dispatch EXCEPT ![m[1]][m[2]] = status]
    ELSE dispatch

RelayMark(r) ==
    /\ r.step = "done"
    /\ dispatch' = Marked(r.msg, "published")
    /\ relaying' = relaying \ {r}
    /\ UNCHANGED <<run, task, attempts, budget, broker, exec, revokes, fixedVars>>

\* The delivery raises, before or after the broker took it (dispatch lock
\* busy, broker or Redis down): back to pending.
RelayFail(r) ==
    /\ r.step = "done" => "duplicate" \in Faults
    /\ dispatch' = Marked(r.msg, "pending")
    /\ relaying' = relaying \ {r}
    /\ UNCHANGED <<run, task, attempts, budget, broker, exec, revokes, fixedVars>>

\* The relay process dies: its row stays processing until the lease lapses.
RelayCrash(r) ==
    /\ "crash" \in Faults
    /\ relaying' = relaying \ {r}
    /\ UNCHANGED <<run, task, attempts, dispatch, budget, broker, exec, revokes,
                   fixedVars>>

\* _publish_task_revoke: workers discard a delivery they have not started.
RelayRevoke(m) ==
    /\ revokes' = revokes \ {m}
    /\ broker' = broker \ {m}
    /\ UNCHANGED <<run, task, attempts, dispatch, budget, relaying, exec, fixedVars>>

-----------------------------------------------------------------------------
(* A worker receives a delivery: the first transaction of execute_task_run *)

\* The transaction reaches the claim of an attempt.
Claimable(m) ==
    /\ run \notin {"cancelling", "cancelled", "waiting_for_input"}
    /\ task[m[1]] = "queued"
    /\ m[2] = Current(m[1]) + 1

\* Returns without a claim: the delivery is stale, duplicated or too early.
IgnoreDelivery(m) ==
    /\ \/ task[m[1]] \in TaskTerminal
       \/ run \notin {"cancelling", "cancelled"} /\ ~Claimable(m)
    /\ broker' = broker \ {m}
    /\ UNCHANGED <<run, task, attempts, dispatch, budget, relaying, exec, revokes,
                   fixedVars>>

\* The run is being cancelled: a task it finds unstarted is cancelled.
DeliverToCancelled(m) ==
    /\ run \in {"cancelling", "cancelled"}
    /\ task[m[1]] \notin TaskTerminal
    /\ IF task[m[1]] \in {"blocked", "queued"}
       THEN Commit(run, [task EXCEPT ![m[1]] = "cancelled"], budget)
       ELSE UNCHANGED <<run, task, budget>>
    /\ broker' = broker \ {m}
    /\ UNCHANGED <<attempts, dispatch, relaying, exec, revokes, fixedVars>>

\* The task ends before its attempt is created.
Reject(m, status, b) ==
    LET ts == EvaluateDependents([task EXCEPT ![m[1]] = status], m[1])
    IN /\ Commit(run, ts, b)
       /\ QueueDispatches(ts)
       /\ broker' = broker \ {m}
       /\ UNCHANGED <<attempts, relaying, exec, revokes, fixedVars>>

RejectForBudget(m) ==
    /\ Claimable(m)
    /\ budget = "exhausted" \/ "budget" \in Faults
    /\ Reject(m, "failed", "exhausted")

\* The window of a task opens at its claim or at a manual retry; before the
\* first of these only the run deadline counts.
RejectLate(m) ==
    /\ Claimable(m)
    /\ budget # "exhausted"
    /\ TRUE \in LateChoices
    /\ runLate \/ Current(m[1]) > 0 \/ retries > 0
    /\ Reject(m, "timed_out", budget)

ClaimTask(m) ==
    /\ Claimable(m)
    /\ budget # "exhausted"
    /\ ~runLate
    /\ attempts' = [attempts EXCEPT ![m[1]] = Append(@, "running")]
    /\ task' = [task EXCEPT ![m[1]] = "running"]
    /\ run' = IF run = "queued" THEN "running" ELSE run
    /\ broker' = broker \ {m}
    /\ exec' = exec \cup {m}
    /\ UNCHANGED <<dispatch, budget, relaying, revokes, fixedVars>>

\* The claim transaction is rolled back (a deadlock, a version conflict, the
\* soft time limit): the task message fails, and is acknowledged.
AbortClaim(m) ==
    /\ "abort" \in Faults
    /\ Claimable(m)
    /\ broker' = broker \ {m}
    /\ UNCHANGED <<run, task, attempts, dispatch, budget, relaying, exec, revokes,
                   fixedVars>>

-----------------------------------------------------------------------------
(* A worker executes an attempt and completes it *)

\* _publish_report commits the Report row; nothing ties it to the attempt
\* still being the current one, and an existing row is kept.
PublishReport(m) ==
    /\ m[1] \in Publisher
    /\ \A a \in Auditor : \E n \in DOMAIN attempts[a] : attempts[a][n] = "succeeded"
    /\ report = "none"
    /\ report' \in {"complete", "partial"}
    /\ UNCHANGED <<run, task, maxAttempts, attempts, dispatch, clar, budget, runLate,
                   retries, queueVars>>

\* A publisher returns a result only after its Report row exists.
HasResult(m) == m[1] \in Publisher => report # "none"

\* The message is acknowledged once the task of the worker returns or raises.
Acknowledge(m) ==
    /\ exec' = exec \ {m}
    /\ UNCHANGED <<relaying, broker, revokes>>

\* A completion under cancellation, whatever the handler returned.
Discard(m) ==
    /\ EndAttempt(m, "cancelled")
    /\ Commit(run, [task EXCEPT ![m[1]] =
                        IF @ \in {"running", "cancelling"} THEN "cancelled" ELSE @],
              budget)
    /\ UNCHANGED dispatch

\* _complete_attempt_success.
Succeed(m) ==
    LET ts == EvaluateDependents([task EXCEPT ![m[1]] = "succeeded"], m[1])
    IN /\ EndAttempt(m, "succeeded")
       /\ Commit(run, ts, budget)
       /\ QueueDispatches(ts)

FinishSuccess(m) ==
    /\ ~AttemptOver(m)
    /\ HasResult(m)
    /\ IF run = "cancelling" \/ task[m[1]] = "cancelling"
       THEN Discard(m)
       ELSE Succeed(m)
    /\ Acknowledge(m)
    /\ UNCHANGED fixedVars

\* The gate found several products: pause_for_product.
PauseForProduct(m) ==
    /\ m[1] \in Gate
    /\ ~AttemptOver(m)
    /\ run # "cancelling" /\ task[m[1]] # "cancelling"
    /\ clar = "none"
    /\ LegalRunMove(run, "waiting_for_input")
    /\ EndAttempt(m, "succeeded")
    /\ task' = [task EXCEPT ![m[1]] = "waiting_for_input"]
    /\ run' = "waiting_for_input"
    /\ clar' = "pending"
    /\ Acknowledge(m)
    /\ UNCHANGED <<maxAttempts, dispatch, budget, report, runLate, retries>>

\* A second clarification in a run raises: the completion is rolled back.
PauseRefused(m) ==
    /\ m[1] \in Gate
    /\ ~AttemptOver(m)
    /\ run # "cancelling" /\ task[m[1]] # "cancelling"
    /\ clar # "none"
    /\ Acknowledge(m)
    /\ UNCHANGED <<run, task, attempts, dispatch, budget, fixedVars>>

\* _complete_attempt_failure decides to try again.
Retryable(m, transient, late) ==
    transient /\ m[2] < maxAttempts[m[1]] /\ ~late

FailureStatus_Slip(timeout) == IF timeout THEN "timeout" ELSE "failed"

FailureStatus(timeout) == IF timeout THEN "timed_out" ELSE "failed"

\* _complete_attempt_failure outside a cancellation: `transient' when the
\* error is retryable and in a retryable category.
Fail(m, timeout, transient, late) ==
    LET retry == Retryable(m, transient, late)
        ended == [task EXCEPT ![m[1]] = FailureStatus(timeout)]
        ts    == IF retry THEN [task EXCEPT ![m[1]] = "queued"]
                 ELSE EvaluateDependents(ended, m[1])
    IN /\ EndAttempt(m, FailureStatus(timeout))
       /\ IF retry THEN task' = ts /\ UNCHANGED <<run, budget>>
                   ELSE Commit(run, ts, budget)
       /\ QueueDispatches(ts)

\* The handler found its run cancelled, or a tool found it no longer running.
CancelledError == run # "running"

FinishFailure(m, timeout, transient, late) ==
    /\ ~AttemptOver(m)
    /\ IF run = "cancelling" THEN Discard(m) ELSE Fail(m, timeout, transient, late)
    /\ Acknowledge(m)
    /\ UNCHANGED fixedVars

FinishCancelled(m) ==
    /\ ~AttemptOver(m)
    /\ CancelledError
    /\ Discard(m)
    /\ Acknowledge(m)
    /\ UNCHANGED fixedVars

\* The attempt was ended by the recovery meanwhile: the result is dropped.
LateResult(m) ==
    /\ AttemptOver(m)
    /\ Acknowledge(m)
    /\ UNCHANGED <<run, task, attempts, dispatch, budget, fixedVars>>

\* The completion transaction is rolled back: the attempt stays running.
AbortCompletion(m) ==
    /\ "abort" \in Faults
    /\ ~AttemptOver(m)
    /\ Acknowledge(m)
    /\ UNCHANGED <<run, task, attempts, dispatch, budget, fixedVars>>

\* The soft time limit fires in a transaction of the worker: execute_runtime_task
\* calls fail_active_attempt, which ends the running attempt of the task,
\* whoever executes it.
SoftLimit(m, late) ==
    LET live == <<m[1], Current(m[1])>>
    IN /\ "softlimit" \in Faults
       /\ IF HasRunning(m[1])
          THEN IF run = "cancelling" THEN Discard(live) ELSE Fail(live, TRUE, TRUE, late)
          ELSE UNCHANGED <<run, task, attempts, dispatch, budget>>
       /\ Acknowledge(m)
       /\ UNCHANGED fixedVars

\* The worker process dies: its message is requeued, unless the hard time
\* limit killed it.
Crash(m, requeued) ==
    /\ "crash" \in Faults
    /\ exec' = exec \ {m}
    /\ broker' = IF requeued THEN broker \cup {m} ELSE broker
    /\ UNCHANGED <<run, task, attempts, dispatch, budget, relaying, revokes, fixedVars>>

\* The broker delivers an unacknowledged message a second time.
Redeliver(m) ==
    /\ "duplicate" \in Faults
    /\ broker' = broker \cup {m}
    /\ UNCHANGED <<run, task, attempts, dispatch, budget, relaying, exec, revokes,
                   fixedVars>>

-----------------------------------------------------------------------------
(* The recovery sweep: recover_stale_attempts, repair_unfinished_runs *)

\* What the recovery decides for a task whose lease lapsed; unlike
\* _complete_attempt_failure it asks neither for a retryable category nor for
\* the deadline of the run.
Recoverable(t, late) == Current(t) < maxAttempts[t] /\ ~late

\* A live worker renews its lease every 15 seconds of 480.
LeaseLapsed(t) == <<t, Current(t)>> \in exec => "lease" \in Faults

Stale_Slip(t) == HasRunning(t) /\ LeaseLapsed(t) /\ task[t] = "running"

Stale(t) ==
    /\ HasRunning(t)
    /\ LeaseLapsed(t)
    /\ task[t] \in {"running", "cancelling"}

RecoverStale(t, late) ==
    LET live  == <<t, Current(t)>>
        retry == Recoverable(t, late)
        ended == [task EXCEPT ![t] = "failed"]
        ts    == IF retry THEN [task EXCEPT ![t] = "queued"]
                 ELSE EvaluateDependents(ended, t)
    IN /\ Stale(t)
       /\ IF run = "cancelling" \/ task[t] = "cancelling"
          THEN Discard(live)
          ELSE /\ EndAttempt(live, "failed")
               /\ QueueDispatches(ts)
               /\ Commit(run, ts, budget)
       /\ UNCHANGED <<queueVars, fixedVars>>

\* repair_unfinished_runs: a queued task without a dispatch row gets one, and
\* the run is finalised.
RepairRun ==
    /\ run \in {"queued", "running", "cancelling"}
    /\ dispatch' = IF run = "cancelling" THEN dispatch
                   ELSE [t \in Tasks |-> IF task[t] = "queued"
                                         THEN WithDispatch(dispatch[t], Current(t))
                                         ELSE dispatch[t]]
    /\ Commit(run, task, budget)
    /\ UNCHANGED <<attempts, queueVars, fixedVars>>

ExpiredStatus_BlockedSlip(s) ==
    CASE s = "waiting_for_input" -> "failed"
      [] s = "queued"            -> "cancelled"
      [] OTHER                   -> s

\* expire_pending: statuses of the tasks of a run whose question expired.
ExpiredStatus(s) ==
    CASE s = "waiting_for_input" -> "failed"
      [] s = "blocked"           -> "skipped"
      [] s = "queued"            -> "cancelled"
      [] OTHER                   -> s

\* Found by the repair, or by an answer that comes too late.
ExpireClarification ==
    /\ run = "waiting_for_input"
    /\ clar = "pending"
    /\ clar' = "expired"
    /\ task' = [t \in Tasks |-> ExpiredStatus(task[t])]
    /\ run' = "failed"
    /\ budget' = ClosedBudget(budget)
    /\ UNCHANGED <<maxAttempts, attempts, dispatch, report, runLate, retries, queueVars>>

-----------------------------------------------------------------------------
(* Users and administrators *)

\* answer_product: the gate succeeds and its dependents are evaluated.
AnswerProduct ==
    \E g \in Gate :
        LET ts == EvaluateDependents([task EXCEPT ![g] = "succeeded"], g)
        IN /\ run = "waiting_for_input"
           /\ clar = "pending"
           /\ task[g] = "waiting_for_input"
           /\ ~runLate
           /\ clar' = "answered"
           /\ run' = "running"
           /\ task' = ts
           /\ QueueDispatches(ts)
           /\ UNCHANGED <<maxAttempts, attempts, budget, report, runLate, retries,
                          queueVars>>


\* request_cancellation: the status each task is left in.
CancelledStatus(s) ==
    CASE s \in {"blocked", "queued", "waiting_for_input"} -> "cancelled"
      [] s = "running"                                    -> "cancelling"
      [] OTHER                                            -> s

RequestCancellation ==
    /\ run \notin RunTerminal
    /\ clar' = IF clar = "pending" THEN "cancelled" ELSE clar
    /\ revokes' = revokes \cup {<<t, Current(t)>> : t \in {u \in Tasks : task[u] = "running"}}
    /\ Commit("cancelling", [t \in Tasks |-> CancelledStatus(task[t])], budget)
    /\ UNCHANGED <<maxAttempts, attempts, dispatch, report, runLate, retries,
                   relaying, broker, exec>>

\* retry_task: a dispatch published before the attempt was created is armed
\* again.
Rearmed(rows, n) ==
    IF Len(rows) = n THEN Append(rows, "pending")
    ELSE [rows EXCEPT ![n + 1] = IF @ = "published" THEN "pending" ELSE @]

MayRetry_Slip(t) == task[t] \in {"failed", "timed_out"}

MayRetry(t) ==
    /\ run \notin {"cancelling", "cancelled"}
    /\ task[t] \in {"failed", "timed_out"}

MayReopen_Slip == TRUE

\* An ended run is set running again: the table allows it for a failed one.
MayReopen == run \in RunTerminal => LegalRunMove(run, "running")

RetryTask(t) ==
    /\ retries < MaxRetries
    /\ MayRetry(t)
    /\ ~runLate
    /\ MayReopen
    /\ maxAttempts' = [maxAttempts EXCEPT
                          ![t] = IF @ > Current(t) THEN @ ELSE Current(t) + 1]
    /\ task' = ResetSkipped([task EXCEPT ![t] = "queued"], t)
    /\ run' = IF run \in RunTerminal THEN "running" ELSE run
    /\ budget' = IF run \in RunTerminal THEN "active" ELSE budget
    /\ dispatch' = [dispatch EXCEPT ![t] = Rearmed(@, Current(t))]
    /\ retries' = retries + 1
    /\ UNCHANGED <<attempts, clar, report, runLate, queueVars>>

RunDeadline ==
    /\ "deadline" \in Faults
    /\ ~runLate
    /\ runLate' = TRUE
    /\ UNCHANGED <<run, task, maxAttempts, attempts, dispatch, clar, budget, report,
                   retries, queueVars>>

-----------------------------------------------------------------------------
Relay ==
    \/ \E t \in Tasks : \E n \in DOMAIN dispatch[t] : RelayClaim(t, n)
    \/ \E r \in relaying : \/ RelayCheck(r) \/ RelaySend(r) \/ RelayMark(r)
                           \/ RelayFail(r)  \/ RelayCrash(r)
    \/ \E m \in revokes : RelayRevoke(m)

Receive(m) ==
    \/ IgnoreDelivery(m) \/ DeliverToCancelled(m)
    \/ RejectForBudget(m) \/ RejectLate(m) \/ ClaimTask(m)
    \/ AbortClaim(m)

Finish(m) ==
    \/ FinishSuccess(m) \/ PauseForProduct(m) \/ PauseRefused(m)
    \/ \E timeout, transient \in BOOLEAN : \E late \in LateChoices :
            FinishFailure(m, timeout, transient, late)
    \/ FinishCancelled(m) \/ LateResult(m) \/ AbortCompletion(m)
    \/ \E late \in LateChoices : SoftLimit(m, late)

Worker ==
    \/ \E m \in broker : Receive(m)
    \/ \E m \in exec : \/ PublishReport(m) \/ Finish(m) \/ Redeliver(m)
                       \/ \E requeued \in BOOLEAN : Crash(m, requeued)

Recovery ==
    \/ \E t \in Tasks : \E late \in LateChoices : RecoverStale(t, late)
    \/ RepairRun
    \/ ExpireClarification

Operator ==
    \/ AnswerProduct
    \/ RequestCancellation
    \/ \E t \in Tasks : RetryTask(t)

Next == Relay \/ Worker \/ Recovery \/ Operator \/ RunDeadline

Spec == Init /\ [][Next]_vars

\* The scheduler starts a relay pass every two seconds and a recovery pass at
\* a fixed interval; rows are claimed in the order of their next attempt, so
\* none is passed over for ever, and a relay does not fail at the same row for
\* ever.  Handlers are bounded by the soft and hard time limits.
Fairness ==
    /\ \A t \in Tasks :
        /\ \A n \in 1..(MaxAttempts[t] + MaxRetries) :
            /\ SF_vars(RelayClaim(t, n))
            /\ SF_vars(\E r \in relaying : r.msg = <<t, n>> /\ RelayCheck(r))
            /\ SF_vars(\E r \in relaying : r.msg = <<t, n>> /\ RelaySend(r))
        /\ WF_vars(\E m \in broker : m[1] = t /\ Receive(m))
        /\ WF_vars(\E m \in exec : m[1] = t /\ Finish(m))
        /\ WF_vars(\E late \in LateChoices : RecoverStale(t, late))
    /\ WF_vars(\E r \in relaying : RelayMark(r))
    /\ WF_vars(RepairRun)
    /\ WF_vars(ExpireClarification)

FairSpec == Spec /\ Fairness

-----------------------------------------------------------------------------
(* Safety *)

\* An attempt runs exactly when its task is running or being cancelled, it is
\* the latest one, and every earlier attempt has ended: two workers never both
\* hold the task, whatever the recovery and redeliveries did.
OneLiveAttempt ==
    \A t \in Tasks :
        /\ task[t] \in {"running", "cancelling"} <=> HasRunning(t)
        /\ \A n \in 1..(Current(t) - 1) : attempts[t][n] # "running"

\* Of the attempts of a task only the latest is ever successful, and then the
\* task has succeeded: no result is accepted twice and none is lost.  (The gate may
\* succeed, wait for an answer, expire and be retried.)
OneAcceptedResult ==
    \A t \in Tasks \ Gate : \A n \in DOMAIN attempts[t] :
        attempts[t][n] = "succeeded" => n = Current(t) /\ task[t] = "succeeded"

\* Whatever was retried, skipped or evaluated late, a task that got past
\* `blocked' has the successful upstreams its dependency mode asks for.
DependenciesHold ==
    \A t \in Tasks :
        Deps[t] # {} /\ task[t] \notin {"blocked", "skipped", "cancelled"} =>
            Satisfied(task, t)

\* A report exists only under a re-audit that succeeded and still counts;
\* and once a run has ended nothing of it is left to run, to ask or to spend
\* (_finalize_run, expire_pending, request_cancellation).
EndsInOrder ==
    /\ report # "none" => \A a \in Auditor : task[a] = "succeeded"
    /\ run \in RunTerminal =>
           /\ Unfinished(task) = {}
           /\ clar # "pending"
           /\ budget # "active"

\* A committed report is never stranded in a run that failed.
FailedRunHasNoReport == run = "failed" => report = "none"

\* Every delivery and execution names an existing row, and a task never has
\* more than one dispatch ahead of its attempts: the idempotency keys collide
\* whenever recovery, repair and retry queue the same attempt.
Numbering ==
    /\ \A t \in Tasks : Len(dispatch[t]) \in {Current(t), Current(t) + 1}
    /\ \A r \in relaying : r.msg[2] <= Len(dispatch[r.msg[1]])
    /\ \A m \in broker : m[2] <= Len(dispatch[m[1]])
    /\ \A m \in exec \cup revokes : m[2] <= Current(m[1])

\* Every queued task of a live run has a delivery on its way: a row the relay
\* will still send, or a message in the broker.
NoLostDispatch ==
    \A t \in Tasks :
        LET next == <<t, Current(t) + 1>>
        IN run \in {"queued", "running"} /\ task[t] = "queued" =>
            \/ next \in broker
            \/ /\ next[2] \in DOMAIN dispatch[t]
               /\ dispatch[t][next[2]] \in {"pending", "processing"}

\* A blocked task of a live run waits for something that can still end: the
\* evaluation that decides about it has not been missed.
NoOrphanBlocked ==
    run \in {"queued", "running"} =>
        \A t \in Tasks : task[t] = "blocked" =>
            \E u \in Deps[t] : task[u] \notin TaskTerminal

\* A live run has a task that is queued, executing or waiting for an answer:
\* it never rests on blocked tasks that nothing will evaluate again, nor on a
\* finalisation that nobody will perform.
LiveRunHasWork ==
    run \in {"queued", "running"} =>
        \E t \in Tasks : task[t] \notin TaskTerminal \cup {"blocked"}

\* It does until somebody retries a task: the run partial_retry shows why not
\* after it (_evaluate_dependents, _finalize_run, retry_task).
HasWorkUntilRetried == retries = 0 => LiveRunHasWork

-----------------------------------------------------------------------------
(* Graphs: what the code does not demand of a definition, and the shipped   *)
(* one has                                                                  *)

\* What has to succeed, directly or not, before u can.
Ancestors(u) ==
    {d \in Tasks : \A S \in SUBSET Tasks :
        Deps[u] \subseteq S /\ (\A t \in S : Deps[t] \subseteq S) => d \in S}

Later(g) == Tasks \ (Ancestors(g) \cup {g})

\* The gate is asked alone: what precedes it must have succeeded, and nothing
\* else, the publisher included, can start before the gate has succeeded.
GateSeparates ==
    \A g \in Gate :
        /\ (Ancestors(g) \cup {g}) \cap FanIn = {}
        /\ Later(g) # {} /\ Publisher \subseteq Later(g)
        /\ \A t \in Later(g) :
              /\ Deps[t] \cap (Later(g) \cup {g}) # {}
              /\ t \in FanIn => Deps[t] \subseteq Later(g) \cup {g}

\* A fan-in asks for no more successes than it has upstreams.
Attainable ==
    \A t \in FanIn : Deps[t] # {} => MinSuccess[t] <= Cardinality(Deps[t])

-----------------------------------------------------------------------------
(* What a step may never do *)

AttemptsKept ==
    \A t \in Tasks :
        /\ Len(attempts'[t]) \in {Current(t), Current(t) + 1}
        /\ \A n \in DOMAIN attempts[t] :
              attempts[t][n] # "running" => attempts'[t][n] = attempts[t][n]

\* Attempts are append-only and an ended attempt is never rewritten, although
\* workers, the recovery and the soft time limit all complete attempts.
AttemptsImmutable == [][AttemptsKept]_vars

NothingStarts ==
    run \in {"cancelling", "cancelled"} =>
        /\ run' \in {"cancelled", run}
        /\ \A t \in Tasks : /\ Len(attempts'[t]) = Current(t)
                            /\ Len(dispatch'[t]) = Len(dispatch[t])

\* From the moment a cancellation is committed no attempt starts, no dispatch
\* is queued, and the run can only become cancelled.
CancelIsFinal == [][NothingStarts]_vars

LegalStep ==
    /\ \A t \in Tasks : LegalTaskMove(task[t], task'[t])
    /\ \/ LegalRunMove(run, run')
       \/ run' = "cancelled" /\ LegalRunMove(run, "cancelling")

\* Every status a transaction assigns is one the transition tables allow, so
\* require_task_transition and require_run_transition never refuse one.
LegalTransitions == [][LegalStep]_vars

SuccessKept == \A t \in Tasks : task[t] = "succeeded" => task'[t] = "succeeded"

\* A result stays accepted: nothing moves a task out of succeeded.
SuccessIsFinal == [][SuccessKept]_vars

-----------------------------------------------------------------------------
(* What must happen, under FairSpec *)

\* Whatever crashes, deadlines and questions without an answer, the run ends.
RunEnds == <>[](run \in RunTerminal)

\* A cancellation is carried out, also while attempts are executing.
CancelEnds == run = "cancelling" ~> run = "cancelled"

\* A committed report ends in a published run, unless the run is cancelled.
ReportSurfaces ==
    report # "none" ~> run \in {"complete", "partial", "cancelled"}

-----------------------------------------------------------------------------
(* The run as its initiator sees it *)

Accepted(ts) == {t \in Tasks : ts[t] = "succeeded"}

Promise == INSTANCE RunPromise WITH
    phase     <- IF run \in {"queued", "running", "waiting_for_input"}
                 THEN "open" ELSE run,
    accepted  <- Accepted(task),
    published <- report

\* Attempts, redeliveries, recoveries and retries implement that promise.
KeepsPromise == Promise!Spec
=============================================================================
