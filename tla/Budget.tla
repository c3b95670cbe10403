------------------------------- MODULE Budget -------------------------------
(***************************************************************************)
(* Accounting of paid model calls: the reservations a gateway makes before *)
(* each request, their settlement by the answer, by the reconciliation job *)
(* or by age, and the run, task, agent, evaluation and public daily        *)
(* ledgers they move.  Every function of llmops/accounting.py is one       *)
(* transaction under the row lock of the run's budget, hence one action;   *)
(* the gateway and the scheduler interleave between them.                  *)
(*                                                                         *)
(* A reservation is named <<call, retry_number>>.  Operators named _Slip:  *)
(* see module Runtime.                                                     *)
(***************************************************************************)
EXTENDS Integers, FiniteSets, FiniteSetsExt

CONSTANTS
    Runs,         \* analysis runs
    PublicRuns,   \* runs whose initiator_type is "public"
    EvalRuns,     \* runs whose initiator_type is "admin_evaluation"
    Calls,        \* paid calls: one invocation of the gateway by one attempt
    RunOf,        \* the run of each call
    Caps,         \* the task and agent caps of the budget policies
    CapOf,        \* the caps each call counts against
    Resources,    \* {tokens, cost}, or one of them
    Cost,         \* the resource the daily ledger counts
    Estimate,     \* estimated usage of each call
    Usages,       \* the usages a provider may report
    RunMax,       \* max_tokens and max_cost_microusd of each run
    CapMax,       \* the limit of each task and agent cap
    EvalMax,      \* token_limit and cost_limit_microusd of the evaluations
    DailyCap,     \* public_daily_cost_cap_usd in the policy of each run
    MaxAttempts,  \* openrouter_max_attempts
    Days,         \* bound: 1..Days
    ManagementKey, \* openrouter_management_key is configured
    Faults        \* what may go wrong

BudgetFaults == {"crash",      \* a worker dies between two transactions
                 "slow",       \* a reservation comes of age under a live call
                 "midnight"}   \* the day changes between `now' and the transaction

ASSUME BudgetAssumption ==
    /\ IsFiniteSet(Calls) /\ IsFiniteSet(PublicRuns)
    /\ PublicRuns \cup EvalRuns \subseteq Runs
    /\ PublicRuns \cap EvalRuns = {}
    /\ RunOf \in [Calls -> Runs]
    /\ CapOf \in [Calls -> SUBSET Caps]
    /\ Cost \in Resources
    /\ Estimate \in [Calls -> [Resources -> Nat]]
    /\ Usages \subseteq [Resources -> Nat]
    /\ RunMax \in [Runs -> [Resources -> Nat]]
    /\ CapMax \in [Caps -> [Resources -> Nat]]
    /\ EvalMax \in [Resources -> Nat]
    /\ DailyCap \in [PublicRuns -> Nat]
    /\ MaxAttempts \in Nat \ {0}
    /\ Days \in Nat \ {0}
    /\ ManagementKey \in BOOLEAN
    /\ Faults \subseteq BudgetFaults

Id == Calls \X (1..MaxAttempts)
RunOfId(i) == RunOf[i[1]]
EstimateOf(i) == Estimate[i[1]]

Nothing == [r \in Resources |-> 0]
Plus(a, b) == [r \in Resources |-> a[r] + b[r]]
AtLeastZero(n) == IF n < 0 THEN 0 ELSE n
Less(a, b) == [r \in Resources |-> AtLeastZero(a[r] - b[r])]

VARIABLES
    gateway,      \* what the gateway does with each call, and its retry_number
    reservation,  \* BudgetReservation: status, actual usage, booked and created day
    usage,        \* UsageEvent: usage_status, and whether generation_id is known
    runBudget,    \* RunBudgetState: status, reserved and consumed amounts
    evaluation,   \* EvaluationBudgetState: reserved and consumed amounts
    daily,        \* DailyBudgetState of each day: max, reserved, consumed cost
    account,      \* OpenRouterAccountState.status
    today,        \* the date
    sweep,        \* overdue reservations the scheduler has read
    fetching,     \* pending generations the scheduler is asking about
    reopened      \* runs a manual retry has reopened

vars == <<gateway, reservation, usage, runBudget, evaluation, daily, account,
          today, sweep, fetching, reopened>>

ledgers == <<runBudget, evaluation, daily>>
books == <<reservation, usage, ledgers>>

Stage == {"ready", "calling", "succeeded", "failed", "done"}
Amount == [Resources -> Nat]
Ledger == [reserved : Amount, consumed : Amount]
ReservationStatus == {"none", "reserved", "reconciled", "released"}

TypeOK ==
    /\ gateway \in [Calls -> [stage : Stage, retry : 1..MaxAttempts,
                              category : {"none", "blocking", "fatal", "retryable"}]]
    /\ reservation \in [Id -> [status : ReservationStatus, actual : Amount,
                               booked : 0..Days, created : 0..Days]]
    /\ usage \in [Id -> [status : {"none", "pending", "complete", "reconciled",
                                   "unreconcilable"}, generation : BOOLEAN]]
    /\ runBudget \in [Runs -> [status : {"active", "exhausted", "closed"},
                               reserved : Amount, consumed : Amount]]
    /\ evaluation \in Ledger
    /\ daily \in [1..Days -> [max : Nat \cup {-1}, reserved : Nat, consumed : Nat]]
    /\ account \in {"unknown", "healthy", "blocked", "unavailable"}
    /\ today \in 1..Days
    /\ sweep \subseteq Id
    /\ fetching \subseteq Id
    /\ reopened \subseteq Runs

NoReservation == [status |-> "none", actual |-> Nothing, booked |-> 0, created |-> 0]

\* There is no row for a day until its first reservation: max is -1.
Init ==
    /\ gateway = [c \in Calls |-> [stage |-> "ready", retry |-> 1, category |-> "none"]]
    /\ reservation = [i \in Id |-> NoReservation]
    /\ usage = [i \in Id |-> [status |-> "none", generation |-> FALSE]]
    /\ runBudget = [r \in Runs |-> [status |-> "active", reserved |-> Nothing,
                                    consumed |-> Nothing]]
    /\ evaluation = [reserved |-> Nothing, consumed |-> Nothing]
    /\ daily = [d \in 1..Days |-> [max |-> -1, reserved |-> 0, consumed |-> 0]]
    /\ account = "unknown"
    /\ today = 1
    /\ sweep = {}
    /\ fetching = {}
    /\ reopened = {}

-----------------------------------------------------------------------------
(* reserve_request *)

Total(f, S) == SumFunctionOnSet(f, S)

Fits(ledger, amount, max) ==
    \A r \in Resources : ledger.reserved[r] + ledger.consumed[r] + amount[r] <= max[r]

WithStatus(status) == {i \in Id : reservation[i].status = status}

EffectiveUse_Slip(S, r) ==
    LET spent == [i \in Id |-> reservation[i].actual[r]] IN Total(spent, S)

\* _effective_sum: the estimate while reserved, the actual usage afterwards.
EffectiveUse(S, r) ==
    LET use == [i \in Id |-> IF reservation[i].status = "reserved"
                             THEN EstimateOf(i)[r] ELSE reservation[i].actual[r]]
    IN Total(use, S)

CountedIn(cap) == {i \in Id : cap \in CapOf[i[1]]}

CapsAllow(c) ==
    \A cap \in CapOf[c], r \in Resources :
        EffectiveUse(CountedIn(cap), r) + Estimate[c][r] <= CapMax[cap][r]

Smaller(a, b) == IF a < b THEN a ELSE b

\* The row of day d as a public run finds or creates it.
DailyRow(run, d) ==
    [daily[d] EXCEPT !.max = IF @ = -1 THEN DailyCap[run] ELSE Smaller(@, DailyCap[run])]

DailyAllows(run, d, cost) ==
    LET day == DailyRow(run, d) IN day.reserved + day.consumed + cost <= day.max

Hold(ledger, amount) == [ledger EXCEPT !.reserved = Plus(@, amount)]

\* `now' is read before the transaction that stamps created_at.
BookingDays == {today} \cup IF "midnight" \in Faults THEN {today - 1} \ {0} ELSE {}

\* The checks that depend on nothing kept here (kill switch, attribution, a
\* running attempt, the deadline, the known credit) may each refuse: Refuse.
Reserve(c) ==
    LET i   == <<c, gateway[c].retry>>
        run == RunOf[c]
        e   == Estimate[c]
    IN \E d \in BookingDays :
        /\ gateway[c].stage = "ready"
        /\ account # "blocked"
        /\ runBudget[run].status = "active"
        /\ Fits(runBudget[run], e, RunMax[run])
        /\ run \in EvalRuns => Fits(evaluation, e, EvalMax)
        /\ CapsAllow(c)
        /\ run \in PublicRuns => DailyAllows(run, d, e[Cost])
        /\ reservation' = [reservation EXCEPT ![i] =
               [status |-> "reserved", actual |-> Nothing, booked |-> d, created |-> today]]
        /\ usage' = [usage EXCEPT ![i].status = "pending"]
        /\ runBudget' = [runBudget EXCEPT ![run] = Hold(@, e)]
        /\ evaluation' = IF run \in EvalRuns THEN Hold(evaluation, e) ELSE evaluation
        /\ daily' = IF run \in PublicRuns
                    THEN [daily EXCEPT ![d] = [DailyRow(run, d) EXCEPT !.reserved = @ + e[Cost]]]
                    ELSE daily
        /\ gateway' = [gateway EXCEPT ![c].stage = "calling"]
        /\ UNCHANGED <<account, today, sweep, fetching, reopened>>

\* BudgetRejected, or the deadline of the call: the transaction rolls back,
\* with the `exhausted' it may have written, and the call is over.
Refuse(c) ==
    /\ gateway[c].stage = "ready"
    /\ gateway' = [gateway EXCEPT ![c].stage = "done"]
    /\ UNCHANGED <<books, account, today, sweep, fetching, reopened>>

-----------------------------------------------------------------------------
(* Settlement *)

Move(ledger, e, actual) ==
    [ledger EXCEPT !.reserved = Less(@, e), !.consumed = Plus(@, actual)]

MoveRun_Slip(b, run, e, actual, status) ==
    LET moved == [b EXCEPT !.consumed = Plus(@, actual)] IN
    IF status = "reconciled" /\ \E r \in Resources : moved.consumed[r] >= RunMax[run][r]
    THEN [moved EXCEPT !.status = "exhausted"]
    ELSE [moved EXCEPT !.reserved = Less(@, e)]

\* Actual usage that reaches a limit exhausts the run; a release does not look.
MoveRun(b, run, e, actual, status) ==
    LET moved == Move(b, e, actual) IN
    IF status = "reconciled" /\ \E r \in Resources : moved.consumed[r] >= RunMax[run][r]
    THEN [moved EXCEPT !.status = "exhausted"]
    ELSE moved

MoveDay_Slip(i, actual) == [daily EXCEPT ![today].reserved = AtLeastZero(@ - EstimateOf(i)[Cost]),
                                         ![today].consumed = @ + actual[Cost]]

\* The daily row of the date of created_at, if there is one.
MoveDay(i, actual) ==
    LET d == reservation[i].created IN
    IF daily[d].max = -1 THEN daily
    ELSE [daily EXCEPT ![d].reserved = AtLeastZero(@ - EstimateOf(i)[Cost]),
                       ![d].consumed = @ + actual[Cost]]

\* A reservation is settled as `status' with the actual usage.
Settle(i, status, actual) ==
    LET run == RunOfId(i)
        e   == EstimateOf(i)
    IN  /\ reservation' = [reservation EXCEPT ![i].status = status, ![i].actual = actual]
        /\ runBudget' = [runBudget EXCEPT ![run] = MoveRun(@, run, e, actual, status)]
        /\ evaluation' = IF run \in EvalRuns THEN Move(evaluation, e, actual) ELSE evaluation
        /\ daily' = IF run \in PublicRuns THEN MoveDay(i, actual) ELSE daily

UsageIs(i, status) == usage' = [usage EXCEPT ![i].status = status]

\* Every function that settles returns early unless the row is still reserved.
Open(i) == reservation[i].status = "reserved"

\* finalize_failed_request
Release(i) ==
    \/ Open(i) /\ Settle(i, "released", Nothing) /\ UsageIs(i, "complete")
    \/ ~Open(i) /\ UNCHANGED books

\* finalize_successful_request with the usage u of the answer
SettleActual(i, u, status) ==
    \/ Open(i) /\ Settle(i, "reconciled", u) /\ UsageIs(i, status)
    \/ ~Open(i) /\ UNCHANGED books

\* finalize_unreconcilable_request, and an answer without usage or generation
SettleEstimate(i) ==
    \/ Open(i) /\ Settle(i, "reconciled", EstimateOf(i)) /\ UsageIs(i, "unreconcilable")
    \/ ~Open(i) /\ UNCHANGED books

\* An answer without usage: the generation will be asked about later.
KeepGeneration(i) ==
    /\ \/ Open(i) /\ usage' = [usage EXCEPT ![i].generation = TRUE]
       \/ ~Open(i) /\ UNCHANGED usage
    /\ UNCHANGED <<reservation, ledgers>>

-----------------------------------------------------------------------------
(* The gateway *)

GatewayRest == <<today, sweep, fetching, reopened>>

IdOf(c) == <<c, gateway[c].retry>>

\* The provider answered; a malformed paid answer is charged and then failed.
Answered(c) ==
    /\ gateway[c].stage = "calling"
    /\ \/ \E u \in Usages : SettleActual(IdOf(c), u, "complete")
       \/ KeepGeneration(IdOf(c))
       \/ SettleEstimate(IdOf(c))
    /\ gateway' \in {[gateway EXCEPT ![c].stage = "succeeded"],
                     [gateway EXCEPT ![c].stage = "failed", ![c].category = "fatal"]}
    /\ UNCHANGED <<account, GatewayRest>>

\* The request failed, perhaps after the provider had charged for it.
Errored(c) ==
    /\ gateway[c].stage = "calling"
    /\ Release(IdOf(c))
    /\ \E category \in {"blocking", "fatal", "retryable"} :
        gateway' = [gateway EXCEPT ![c].stage = "failed", ![c].category = category]
    /\ UNCHANGED <<account, GatewayRest>>

\* update_account_state after an answer: a transaction of its own.
ReportSuccess(c) ==
    /\ gateway[c].stage = "succeeded"
    /\ account' = "healthy"
    /\ gateway' = [gateway EXCEPT ![c].stage = "done"]
    /\ UNCHANGED <<books, GatewayRest>>

MayRetry_Slip(c) == gateway[c].category = "retryable" /\ gateway[c].retry <= MaxAttempts

MayRetry(c) == gateway[c].category = "retryable" /\ gateway[c].retry < MaxAttempts

\* ... and after a failure, which may be followed by another request.
ReportFailure(c) ==
    /\ gateway[c].stage = "failed"
    /\ account' = IF gateway[c].category = "blocking" THEN "blocked" ELSE "unavailable"
    /\ \/ gateway' = [gateway EXCEPT ![c].stage = "done"]
       \/ /\ MayRetry(c)
          /\ gateway' = [gateway EXCEPT ![c] =
                 [stage |-> "ready", retry |-> @.retry + 1, category |-> "none"]]
    /\ UNCHANGED <<books, GatewayRest>>

WorkerDies(c) ==
    /\ "crash" \in Faults
    /\ gateway[c].stage \in {"calling", "succeeded", "failed"}
    /\ gateway' = [gateway EXCEPT ![c].stage = "done"]
    /\ UNCHANGED <<books, account, GatewayRest>>

-----------------------------------------------------------------------------
(* The scheduler *)

Calling(i) == gateway[i[1]].stage = "calling" /\ IdOf(i[1]) = i

\* Older than openrouter_reconciliation_max_age_minutes, which outlasts a call.
OfAge(i) == Calling(i) => "slow" \in Faults

\* _finalize_overdue_without_generation reads the rows in one transaction ...
ReadOverdue(i) ==
    /\ i \notin sweep
    /\ usage[i].status = "pending" /\ ~usage[i].generation
    /\ OfAge(i)
    /\ sweep' = sweep \cup {i}
    /\ UNCHANGED <<books, gateway, account, today, fetching, reopened>>

\* ... and settles each in another.
SettleOverdue(i) ==
    /\ i \in sweep
    /\ SettleEstimate(i)
    /\ sweep' = sweep \ {i}
    /\ UNCHANGED <<gateway, account, today, fetching, reopened>>

\* _claim_pending
ClaimPending(i) ==
    /\ i \notin fetching
    /\ usage[i].status = "pending" /\ usage[i].generation
    /\ fetching' = fetching \cup {i}
    /\ UNCHANGED <<books, gateway, account, today, sweep, reopened>>

FetchEnds(i) ==
    /\ i \in fetching
    /\ fetching' = fetching \ {i}
    /\ UNCHANGED <<gateway, account, today, sweep, reopened>>

\* The provider tells the usage of the generation.
Reconcile(i) == FetchEnds(i) /\ \E u \in Usages : SettleActual(i, u, "reconciled")

\* It does not: the claim has already moved next_reconciliation_at.
FetchFails(i) == FetchEnds(i) /\ UNCHANGED books

GiveUp_Slip(i) == FetchFails(i)

\* _mark_reconciliation_failure of an event that is too old
GiveUp(i) ==
    /\ FetchEnds(i)
    /\ \/ usage[i].status = "pending" /\ SettleEstimate(i)
       \/ usage[i].status # "pending" /\ UNCHANGED books

-----------------------------------------------------------------------------
(* The runtime, the operator and the clock *)

\* _close_budget when the run ends
CloseRun(run) ==
    /\ runBudget[run].status = "active"
    /\ runBudget' = [runBudget EXCEPT ![run].status = "closed"]
    /\ UNCHANGED <<gateway, reservation, usage, evaluation, daily, account, GatewayRest>>

\* retry_task on a finished run
ReopenRun(run) ==
    /\ run \notin reopened
    /\ runBudget[run].status # "active"
    /\ runBudget' = [runBudget EXCEPT ![run].status = "active"]
    /\ reopened' = reopened \cup {run}
    /\ UNCHANGED <<gateway, reservation, usage, evaluation, daily, account, today,
                   sweep, fetching>>

\* An operator unblocks the account; with the management key the credit
\* balance is asked for and reported like a paid call.
SyncAccount == IF ManagementKey THEN {"healthy", "blocked", "unavailable"} ELSE {}
ResetAccount ==
    /\ account' \in {"unknown"} \cup SyncAccount
    /\ UNCHANGED <<books, gateway, GatewayRest>>

NextDay ==
    /\ today < Days
    /\ today' = today + 1
    /\ UNCHANGED <<books, gateway, account, sweep, fetching, reopened>>

-----------------------------------------------------------------------------

Gateway(c) ==
    \/ Reserve(c)
    \/ Refuse(c)
    \/ Answered(c)
    \/ Errored(c)
    \/ ReportSuccess(c)
    \/ ReportFailure(c)

Scheduler(i) ==
    \/ ReadOverdue(i)
    \/ SettleOverdue(i)
    \/ ClaimPending(i)
    \/ Reconcile(i)
    \/ FetchFails(i)
    \/ GiveUp(i)

Next ==
    \/ \E c \in Calls : Gateway(c) \/ WorkerDies(c)
    \/ \E i \in Id : Scheduler(i)
    \/ \E run \in Runs : CloseRun(run) \/ ReopenRun(run)
    \/ ResetAccount
    \/ NextDay

Spec == Init /\ [][Next]_vars

\* A request ends, if only by its timeout; the scheduler runs every minute, and
\* a generation that is asked about again and again comes of age.
FairSpec ==
    /\ Spec
    /\ \A c \in Calls : WF_vars(Gateway(c))
    /\ \A i \in Id : /\ WF_vars(ReadOverdue(i))
                     /\ WF_vars(SettleOverdue(i))
                     /\ WF_vars(ClaimPending(i))
                     /\ SF_vars(GiveUp(i))

-----------------------------------------------------------------------------
(* Properties *)

Reserved(S, r) == LET e == [i \in Id |-> EstimateOf(i)[r]] IN Total(e, S)
Spent(S, r) == LET a == [i \in Id |-> reservation[i].actual[r]] IN Total(a, S)
Overage(S, r) ==
    LET over == [i \in Id |-> AtLeastZero(reservation[i].actual[r] - EstimateOf(i)[r])]
    IN Total(over, S)

Outstanding == WithStatus("reserved")
Charged == WithStatus("reconciled")
InAny(S, runs) == {i \in S : RunOfId(i) \in runs}

IsLedgerOf(row, runs) ==
    \A r \in Resources : /\ row.reserved[r] = Reserved(InAny(Outstanding, runs), r)
                          /\ row.consumed[r] = Spent(InAny(Charged, runs), r)

\* The ledgers, of each run and the one that evaluation runs share, are the sums
\* of the reservations they stand for, whatever order answers, crashes, sweeps
\* and reconciliations settle them in: no estimate is released twice, none
\* stays behind, and max(0, ...) never hides a difference.
LedgersAgree ==
    /\ \A run \in Runs : IsLedgerOf(runBudget[run], {run})
    /\ IsLedgerOf(evaluation, EvalRuns)

IsWithin(row, max, runs) ==
    \A r \in Resources :
        row.reserved[r] + row.consumed[r] <= max[r] + Overage(InAny(Charged, runs), r)

\* Concurrent reservations never commit more than the limit of their run, or of
\* the evaluation across its runs: beyond it there is only what answers used in
\* excess of their own estimate.
WithinLimits ==
    /\ \A run \in Runs : IsWithin(runBudget[run], RunMax[run], {run})
    /\ IsWithin(evaluation, EvalMax, EvalRuns)

\* Nor more than a task or agent cap, although no row keeps their total.
CapsHold ==
    \A cap \in Caps, r \in Resources :
        Reserved(Outstanding \cap CountedIn(cap), r) + Spent(Charged \cap CountedIn(cap), r)
            <= CapMax[cap][r] + Overage(Charged \cap CountedIn(cap), r)

Public(S, d) == {i \in S : RunOfId(i) \in PublicRuns /\ reservation[i].created = d}

\* Booked on the day before created_at: the settlement moves the wrong row.
Misbooked(S) == {i \in S : reservation[i].booked # reservation[i].created}

LargestCap == Max({0} \cup {DailyCap[run] : run \in PublicRuns})

\* What a day owes and has paid stays within the largest daily cap, except for
\* usage in excess of an estimate and for reservations booked just before
\* midnight, whose settlement releases the estimate of somebody else.
DayWithinCap ==
    \A d \in 1..Days :
        LET own     == {i \in InAny(Outstanding, PublicRuns) : reservation[i].booked = d}
            settled == Public(Charged \cup WithStatus("released"), d)
        IN Reserved(own, Cost) + daily[d].consumed
               <= LargestCap + Overage(Public(Charged, d), Cost)
                             + Reserved(Misbooked(settled), Cost)

\* Every reservation is settled in the end, also when the worker died with the
\* request in flight or the provider never tells the usage.
EverySettled == \A i \in Id : reservation[i].status = "reserved" ~> ~Open(i)
=============================================================================
