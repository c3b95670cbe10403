---------------------------- MODULE BudgetProofs ----------------------------
(***************************************************************************)
(* The ledgers of paid calls are the sums of the reservations they stand   *)
(* for, and stay within their limits.                                      *)
(*                                                                         *)
(* Every step books nothing, makes one reservation or settles one          *)
(* (StepKinds), so each sum moves by one summand (Makes, Closes): a ledger *)
(* that agrees with its sums can release the estimate of the reservation   *)
(* it settles, hence max(0, ...) hides nothing; the check that precedes a  *)
(* reservation bounds the sums, and a settlement puts actual usage in the  *)
(* place of an estimate that was counted.  The row of a day is not a sum:  *)
(* a reservation booked before midnight and created after it is settled on *)
(* the other row, and the invariant says what that can release of others.  *)
(***************************************************************************)
EXTENDS Budget, Sums, RowRules

-----------------------------------------------------------------------------
(* Amounts *)

LEMMA AmountTypes ==
    /\ Nothing \in Amount
    /\ \A a, b \in Amount : Plus(a, b) \in Amount /\ Less(a, b) \in Amount
    /\ \A i \in Id : /\ i[1] \in Calls /\ i[2] \in 1..MaxAttempts
                     /\ EstimateOf(i) \in Amount /\ RunOfId(i) \in Runs
    /\ Usages \subseteq Amount
<1>1. Nothing \in Amount
    BY DEF Nothing, Amount
<1>2. ASSUME NEW a \in Amount, NEW b \in Amount
      PROVE  Plus(a, b) \in Amount /\ Less(a, b) \in Amount
    <2>1. \A r \in Resources : a[r] \in Nat /\ b[r] \in Nat
        BY DEF Amount
    <2>2. \A r \in Resources : a[r] + b[r] \in Nat /\ AtLeastZero(a[r] - b[r]) \in Nat
        BY <2>1 DEF AtLeastZero
    <2> QED BY <2>2 DEF Plus, Less, Amount
<1>3. ASSUME NEW i \in Id
      PROVE  /\ i[1] \in Calls /\ i[2] \in 1..MaxAttempts
             /\ EstimateOf(i) \in Amount /\ RunOfId(i) \in Runs
    BY BudgetAssumption DEF Id, EstimateOf, RunOfId, Amount
<1>4. Usages \subseteq Amount
    BY BudgetAssumption DEF Amount
<1> QED
    BY <1>1, <1>2, <1>3, <1>4

Row == [status : ReservationStatus, actual : Amount, booked : 0..Days, created : 0..Days]
UsageRow == [status : {"none", "pending", "complete", "reconciled", "unreconcilable"},
             generation : BOOLEAN]
RunRow == [status : {"active", "exhausted", "closed"}, reserved : Amount, consumed : Amount]
DayRow == [max : Nat \cup {-1}, reserved : Nat, consumed : Nat]
GatewayRow == [stage : Stage, retry : 1..MaxAttempts,
               category : {"none", "blocking", "fatal", "retryable"}]

BooksOK ==
    /\ reservation \in [Id -> Row]
    /\ usage \in [Id -> UsageRow]
    /\ runBudget \in [Runs -> RunRow]
    /\ evaluation \in Ledger
    /\ daily \in [1..Days -> DayRow]

RestOK ==
    /\ gateway \in [Calls -> GatewayRow]
    /\ account \in {"unknown", "healthy", "blocked", "unavailable"}
    /\ today \in 1..Days
    /\ sweep \subseteq Id /\ fetching \subseteq Id
    /\ reopened \subseteq Runs

LEMMA TypeParts == TypeOK <=> BooksOK /\ RestOK
BY DEF TypeOK, BooksOK, RestOK, Row, UsageRow, RunRow, DayRow, GatewayRow

\* A reservation has a day, and only one that was answered has used anything.
Filled ==
    \A i \in Id :
        /\ reservation[i].status # "none" =>
               reservation[i].booked \in 1..Days /\ reservation[i].created \in 1..Days
        /\ reservation[i].status \in {"none", "released"} => reservation[i].actual = Nothing

\* The row of the request a call makes next is not there yet.
Unused ==
    \A c \in Calls, k \in 1..MaxAttempts :
        reservation[<<c, k>>].status # "none" =>
            \/ k < gateway[c].retry
            \/ k = gateway[c].retry /\ gateway[c].stage # "ready"

-----------------------------------------------------------------------------
(* Kinds of steps *)

SameRows == \A run \in Runs : /\ runBudget'[run].reserved = runBudget[run].reserved
                              /\ runBudget'[run].consumed = runBudget[run].consumed

\* A step that books nothing.
Quiet == /\ UNCHANGED <<reservation, evaluation, daily>>
         /\ SameRows
         /\ runBudget' \in [Runs -> RunRow]

\* A step that settles a reservation.
Settles(i, status, actual) ==
    /\ status \in {"released", "reconciled"}
    /\ actual \in Amount
    /\ status = "released" => actual = Nothing
    /\ Open(i)
    /\ Settle(i, status, actual)

LEMMA InitTypes == Init => BooksOK /\ RestOK /\ Filled /\ Unused
<1> SUFFICES ASSUME Init PROVE BooksOK /\ RestOK /\ Filled /\ Unused
    OBVIOUS
<1>1. Nothing \in Amount /\ Days \in Nat \ {0} /\ MaxAttempts \in Nat \ {0}
    BY AmountTypes, BudgetAssumption
<1>2. NoReservation \in Row
    BY <1>1 DEF NoReservation, Row, ReservationStatus
<1>3. BooksOK
    <2>1. reservation \in [Id -> Row]
        BY <1>2 DEF Init
    <2>2. usage \in [Id -> UsageRow]
        BY DEF Init, UsageRow
    <2>3. runBudget \in [Runs -> RunRow] /\ evaluation \in Ledger
        BY <1>1 DEF Init, RunRow, Ledger
    <2>4. daily \in [1..Days -> DayRow]
        BY DEF Init, DayRow
    <2> QED BY <2>1, <2>2, <2>3, <2>4 DEF BooksOK
<1>4. RestOK
    BY <1>1 DEF Init, RestOK, GatewayRow, Stage
<1>5. Filled /\ Unused
    BY DEF Init, Filled, Unused, NoReservation, Id
<1> QED
    BY <1>3, <1>4, <1>5

\* Settling a reservation keeps the types.
LEMMA SettleTypes ==
    ASSUME BooksOK, Filled, NEW i \in Id, NEW status, NEW actual, Settles(i, status, actual)
    PROVE  /\ reservation' \in [Id -> Row] /\ runBudget' \in [Runs -> RunRow]
           /\ evaluation' \in Ledger /\ daily' \in [1..Days -> DayRow]
<1> DEFINE e == EstimateOf(i)
           run == RunOfId(i)
<1>0. /\ e \in Amount /\ run \in Runs /\ actual \in Amount
      /\ \A a, b \in Amount : Plus(a, b) \in Amount /\ Less(a, b) \in Amount
    BY AmountTypes DEF Settles
<1>s. /\ status \in {"released", "reconciled"} /\ Open(i)
      /\ reservation' = [reservation EXCEPT ![i].status = status, ![i].actual = actual]
      /\ runBudget' = [runBudget EXCEPT ![run] = MoveRun(@, run, e, actual, status)]
      /\ evaluation' = IF run \in EvalRuns THEN Move(evaluation, e, actual) ELSE evaluation
      /\ daily' = IF run \in PublicRuns THEN MoveDay(i, actual) ELSE daily
    BY DEF Settles, Settle
<1> HIDE DEF e, run
<1>1. reservation' \in [Id -> Row]
    BY <1>0, <1>s DEF BooksOK, Row, ReservationStatus
<1>2. runBudget' \in [Runs -> RunRow]
    <2> DEFINE b == runBudget[run]
               m == MoveRun(b, run, e, actual, status)
    <2>1. b \in RunRow
        BY <1>0 DEF BooksOK
    <2> HIDE DEF b
    <2>2. Move(b, e, actual) \in RunRow
        BY <1>0, <2>1 DEF Move, RunRow
    <2>3. [Move(b, e, actual) EXCEPT !.status = "exhausted"] \in RunRow
        BY <2>2 DEF RunRow
    <2>4. m \in RunRow
        BY <2>2, <2>3 DEF MoveRun
    <2>5. runBudget' = [runBudget EXCEPT ![run] = m]
        BY <1>s DEF b
    <2> HIDE DEF m
    <2> QED BY <2>4, <2>5 DEF BooksOK
<1>3. evaluation' \in Ledger
    BY <1>0, <1>s DEF BooksOK, Move, Ledger
<1>4. daily' \in [1..Days -> DayRow]
    <2> DEFINE d == reservation[i].created
               n == AtLeastZero(daily[d].reserved - e[Cost])
               m == daily[d].consumed + actual[Cost]
    <2>1. d \in 1..Days /\ daily[d] \in DayRow
        BY <1>s DEF BooksOK, Filled, Open
    <2>2. n \in Nat /\ m \in Nat
        BY <1>0, <2>1, BudgetAssumption DEF DayRow, Amount, AtLeastZero
    <2>3. daily' = daily \/ daily' = [daily EXCEPT ![d].reserved = n, ![d].consumed = m]
        BY <1>s DEF MoveDay, e
    <2> HIDE DEF d, n, m
    <2> QED BY <2>1, <2>2, <2>3 DEF BooksOK, DayRow
<1> QED
    BY <1>1, <1>2, <1>3, <1>4

\* A call goes on: a request that was made is not made again.
Onward ==
    \A c \in Calls :
        \/ gateway'[c].retry > gateway[c].retry
        \/ /\ gateway'[c].retry = gateway[c].retry
           /\ gateway'[c].stage = "ready" => gateway[c].stage = "ready"

SettlesOne == \E i \in Id, status \in {"released", "reconciled"}, actual \in Amount :
                  Settles(i, status, actual)

UsageOK == usage \in [Id -> UsageRow]

LEMMA SettlementKinds ==
    ASSUME BooksOK, NEW i \in Id
    PROVE  /\ UNCHANGED books => Quiet /\ UsageOK'
           /\ Release(i) => (Quiet \/ SettlesOne) /\ UsageOK'
           /\ \A u \in Usages, status \in {"complete", "reconciled"} :
                  SettleActual(i, u, status) => (Quiet \/ SettlesOne) /\ UsageOK'
           /\ SettleEstimate(i) => (Quiet \/ SettlesOne) /\ UsageOK'
           /\ KeepGeneration(i) => Quiet /\ UsageOK'
<1>0. /\ Nothing \in Amount /\ EstimateOf(i) \in Amount
      /\ \A u \in Usages : u \in Amount
    BY AmountTypes
<1>1. UNCHANGED books => Quiet /\ UsageOK'
    BY DEF books, ledgers, Quiet, SameRows, UsageOK, BooksOK
<1>2. \A status \in {"complete", "reconciled", "unreconcilable"} :
          UsageIs(i, status) => UsageOK'
    BY DEF UsageIs, UsageOK, BooksOK, UsageRow
<1>3. Release(i) => (Quiet \/ SettlesOne) /\ UsageOK'
    BY <1>0, <1>1, <1>2 DEF Release, SettlesOne, Settles
<1>4. ASSUME NEW u \in Usages, NEW status \in {"complete", "reconciled"},
             SettleActual(i, u, status)
      PROVE  (Quiet \/ SettlesOne) /\ UsageOK'
    BY <1>0, <1>1, <1>2, <1>4 DEF SettleActual, SettlesOne, Settles
<1>5. SettleEstimate(i) => (Quiet \/ SettlesOne) /\ UsageOK'
    BY <1>0, <1>1, <1>2 DEF SettleEstimate, SettlesOne, Settles
<1>6. KeepGeneration(i) => Quiet /\ UsageOK'
    BY DEF KeepGeneration, ledgers, Quiet, SameRows, UsageOK, BooksOK, UsageRow
<1> QED
    BY <1>1, <1>3, <1>4, <1>5, <1>6

Kinds == Quiet \/ SettlesOne \/ \E c \in Calls : Reserve(c)

LEMMA StepKinds ==
    ASSUME BooksOK, RestOK, [Next]_vars
    PROVE  UsageOK' /\ RestOK' /\ Onward /\ Kinds
<1> DEFINE Goal == UsageOK' /\ RestOK' /\ Onward /\ Kinds
<1>i. \A c \in Calls : gateway[c] \in GatewayRow /\ IdOf(c) \in Id
    BY DEF RestOK, GatewayRow, IdOf, Id
<1>q. UNCHANGED books => Quiet /\ UsageOK'
    BY DEF books, ledgers, Quiet, SameRows, UsageOK, BooksOK
<1>g. UNCHANGED gateway => Onward
    BY DEF Onward
<1>r. ASSUME NEW c \in Calls, NEW row \in GatewayRow, gateway' = [gateway EXCEPT ![c] = row],
             \/ row.retry > gateway[c].retry
             \/ row.retry = gateway[c].retry /\ row.stage # "ready"
      PROVE  gateway' \in [Calls -> GatewayRow] /\ Onward
    BY <1>i, <1>r DEF RestOK, Onward
<1>1. ASSUME NEW c \in Calls, Reserve(c) PROVE Goal
    <2>1. /\ gateway' = [gateway EXCEPT ![c].stage = "calling"]
          /\ usage' = [usage EXCEPT ![<<c, gateway[c].retry>>].status = "pending"]
          /\ UNCHANGED <<account, today, sweep, fetching, reopened>>
        BY <1>1 DEF Reserve
    <2>2. gateway' \in [Calls -> GatewayRow] /\ Onward
        BY <1>i, <2>1, <1>r DEF RestOK, GatewayRow, Stage, Onward
    <2>3. UsageOK'
        BY <2>1 DEF UsageOK, BooksOK, UsageRow
    <2> QED BY <1>1, <2>1, <2>2, <2>3 DEF RestOK, Kinds
<1>2. ASSUME NEW c \in Calls, Refuse(c) PROVE Goal
    <2>1. gateway' \in [Calls -> GatewayRow] /\ Onward
        BY <1>i, <1>2 DEF Refuse, RestOK, GatewayRow, Stage, Onward
    <2> QED BY <1>2, <2>1, <1>q DEF Refuse, RestOK, Kinds
<1>3. ASSUME NEW c \in Calls, Answered(c) PROVE Goal
    <2>1. gateway' \in [Calls -> GatewayRow] /\ Onward
        BY <1>i, <1>3 DEF Answered, RestOK, GatewayRow, Stage, Onward
    <2>2. (Quiet \/ SettlesOne) /\ UsageOK'
        BY <1>i, <1>3, SettlementKinds DEF Answered
    <2> QED BY <1>3, <2>1, <2>2 DEF Answered, GatewayRest, RestOK, Kinds
<1>4. ASSUME NEW c \in Calls, Errored(c) PROVE Goal
    <2>1. gateway' \in [Calls -> GatewayRow] /\ Onward
        <3>1. PICK category \in {"blocking", "fatal", "retryable"} :
                 gateway' = [gateway EXCEPT ![c].stage = "failed", ![c].category = category]
            BY <1>4 DEF Errored
        <3> DEFINE row == [gateway[c] EXCEPT !.stage = "failed", !.category = category]
        <3>2. row \in GatewayRow /\ row.retry = gateway[c].retry /\ row.stage # "ready"
            BY <1>i DEF GatewayRow, Stage
        <3>3. gateway' = [gateway EXCEPT ![c] = row]
            BY <3>1
        <3> HIDE DEF row
        <3> QED BY <1>r, <3>2, <3>3
    <2>2. (Quiet \/ SettlesOne) /\ UsageOK'
        BY <1>i, <1>4, SettlementKinds DEF Errored
    <2> QED BY <1>4, <2>1, <2>2 DEF Errored, GatewayRest, RestOK, Kinds
<1>5. ASSUME NEW c \in Calls, ReportSuccess(c) PROVE Goal
    <2>1. gateway' \in [Calls -> GatewayRow] /\ Onward
        BY <1>i, <1>5 DEF ReportSuccess, RestOK, GatewayRow, Stage, Onward
    <2> QED BY <1>5, <2>1, <1>q DEF ReportSuccess, GatewayRest, RestOK, Kinds
<1>6. ASSUME NEW c \in Calls, ReportFailure(c) PROVE Goal
    <2>1. gateway' \in [Calls -> GatewayRow] /\ Onward
        <3>1. CASE gateway' = [gateway EXCEPT ![c].stage = "done"]
            BY <1>i, <1>6, <3>1 DEF ReportFailure, RestOK, GatewayRow, Stage, Onward
        <3>2. CASE /\ MayRetry(c)
                   /\ gateway' = [gateway EXCEPT ![c] =
                         [stage |-> "ready", retry |-> @.retry + 1, category |-> "none"]]
            <4> DEFINE row == [stage |-> "ready", retry |-> gateway[c].retry + 1,
                               category |-> "none"]
            <4>1. gateway[c].retry + 1 \in 1..MaxAttempts /\ row.retry > gateway[c].retry
                BY <1>i, <3>2, BudgetAssumption DEF MayRetry, GatewayRow
            <4>2. row \in GatewayRow
                BY <4>1 DEF GatewayRow, Stage
            <4>3. gateway' = [gateway EXCEPT ![c] = row]
                BY <3>2
            <4> HIDE DEF row
            <4> QED BY <1>r, <4>1, <4>2, <4>3
        <3> QED BY <1>6, <3>1, <3>2 DEF ReportFailure
    <2>2. account' \in {"blocked", "unavailable"}
        BY <1>6 DEF ReportFailure
    <2> QED BY <1>6, <2>1, <2>2, <1>q DEF ReportFailure, GatewayRest, RestOK, Kinds
<1>7. ASSUME NEW c \in Calls, WorkerDies(c) PROVE Goal
    <2>1. gateway' \in [Calls -> GatewayRow] /\ Onward
        BY <1>i, <1>7 DEF WorkerDies, RestOK, GatewayRow, Stage, Onward
    <2> QED BY <1>7, <2>1, <1>q DEF WorkerDies, GatewayRest, RestOK, Kinds
<1>8. ASSUME NEW i \in Id, Scheduler(i) PROVE Goal
    <2>1. /\ UNCHANGED <<gateway, account, today, reopened>>
          /\ sweep' \subseteq Id /\ fetching' \subseteq Id
        BY <1>8 DEF Scheduler, ReadOverdue, SettleOverdue, ClaimPending, Reconcile,
                    FetchFails, GiveUp, FetchEnds, RestOK
    <2>2. (Quiet \/ SettlesOne) /\ UsageOK'
        <3>1. CASE ReadOverdue(i) \/ ClaimPending(i) \/ FetchFails(i)
            BY <3>1, <1>q DEF ReadOverdue, ClaimPending, FetchFails
        <3>2. CASE SettleOverdue(i)
            BY <3>2, SettlementKinds DEF SettleOverdue
        <3>3. CASE Reconcile(i)
            BY <3>3, SettlementKinds DEF Reconcile
        <3>4. CASE GiveUp(i)
            BY <3>4, SettlementKinds, <1>q DEF GiveUp
        <3> QED BY <1>8, <3>1, <3>2, <3>3, <3>4 DEF Scheduler
    <2> QED BY <2>1, <2>2, <1>g DEF RestOK, Kinds
<1>9. ASSUME NEW run \in Runs, CloseRun(run) \/ ReopenRun(run) PROVE Goal
    <2>1. /\ UNCHANGED <<gateway, reservation, usage, evaluation, daily, account, today,
                         sweep, fetching>>
          /\ reopened' \subseteq Runs
          /\ \E status \in {"active", "closed"} :
                 runBudget' = [runBudget EXCEPT ![run].status = status]
        BY <1>9 DEF CloseRun, ReopenRun, GatewayRest, RestOK
    <2>2. SameRows /\ runBudget' \in [Runs -> RunRow]
        BY <2>1 DEF SameRows, BooksOK, RunRow
    <2> QED BY <2>1, <2>2, <1>g DEF RestOK, Kinds, Quiet, UsageOK, BooksOK
<1>10. ASSUME ResetAccount PROVE Goal
    BY <1>10, <1>q, <1>g DEF ResetAccount, SyncAccount, GatewayRest, RestOK, Kinds
<1>11. ASSUME NextDay PROVE Goal
    <2>1. today' \in 1..Days
        BY <1>11, BudgetAssumption DEF NextDay, RestOK
    <2> QED BY <1>11, <2>1, <1>q, <1>g DEF NextDay, RestOK, Kinds
<1>12. CASE UNCHANGED vars
    BY <1>12, <1>q, <1>g DEF vars, RestOK, Kinds, books, ledgers
<1> QED
    BY <1>1, <1>2, <1>3, <1>4, <1>5, <1>6, <1>7, <1>8, <1>9, <1>10, <1>11, <1>12
    DEF Next, Gateway

-----------------------------------------------------------------------------
(* Type correctness *)

TypeInv == BooksOK /\ RestOK /\ Filled /\ Unused

LEMMA ReserveTypes ==
    ASSUME BooksOK, RestOK, NEW c \in Calls, Reserve(c)
    PROVE  /\ reservation' \in [Id -> Row] /\ runBudget' \in [Runs -> RunRow]
           /\ evaluation' \in Ledger /\ daily' \in [1..Days -> DayRow]
<1> DEFINE i == <<c, gateway[c].retry>>
           run == RunOf[c]
           e == Estimate[c]
<1>1. PICK d \in BookingDays :
        /\ reservation' = [reservation EXCEPT ![i] =
               [status |-> "reserved", actual |-> Nothing, booked |-> d, created |-> today]]
        /\ runBudget' = [runBudget EXCEPT ![run] = Hold(@, e)]
        /\ evaluation' = IF run \in EvalRuns THEN Hold(evaluation, e) ELSE evaluation
        /\ daily' = IF run \in PublicRuns
                    THEN [daily EXCEPT ![d] = [DailyRow(run, d) EXCEPT !.reserved = @ + e[Cost]]]
                    ELSE daily
    BY DEF Reserve
<1>2. /\ e \in Amount /\ run \in Runs /\ Nothing \in Amount /\ e[Cost] \in Nat
      /\ \A a, b \in Amount : Plus(a, b) \in Amount
    <2>1. e \in Amount /\ run \in Runs /\ e[Cost] \in Nat
        BY BudgetAssumption DEF Amount
    <2> QED BY <2>1, AmountTypes
<1>3. i \in Id
    BY DEF RestOK, GatewayRow, Id
<1>4. d \in 1..Days /\ today \in 1..Days
    BY BudgetAssumption DEF BookingDays, RestOK
<1>a. run \in PublicRuns => DailyCap[run] \in Nat
    BY BudgetAssumption
<1> HIDE DEF i, run, e
<1>5. reservation' \in [Id -> Row]
    <2> DEFINE row == [status |-> "reserved", actual |-> Nothing, booked |-> d, created |-> today]
    <2>1. row \in Row
        BY <1>2, <1>4 DEF Row, ReservationStatus
    <2>2. reservation' = [reservation EXCEPT ![i] = row]
        BY <1>1
    <2> HIDE DEF row
    <2> QED BY <2>1, <2>2, <1>3 DEF BooksOK
<1>6. runBudget' \in [Runs -> RunRow]
    BY <1>1, <1>2 DEF BooksOK, RunRow, Hold
<1>7. evaluation' \in Ledger
    BY <1>1, <1>2 DEF BooksOK, Ledger, Hold
<1>8. daily' \in [1..Days -> DayRow]
    <2>1. CASE run \notin PublicRuns
        BY <2>1, <1>1 DEF BooksOK
    <2>2. CASE run \in PublicRuns
        <3> DEFINE row == [DailyRow(run, d) EXCEPT !.reserved = @ + e[Cost]]
        <3>1. DailyRow(run, d) \in DayRow
            BY <2>2, <1>a, <1>4 DEF BooksOK, DailyRow, DayRow, Smaller
        <3>2. row \in DayRow
            BY <3>1, <1>2 DEF DayRow
        <3>3. daily' = [daily EXCEPT ![d] = row]
            BY <1>1, <2>2
        <3> HIDE DEF row
        <3> QED BY <3>2, <3>3, <1>4 DEF BooksOK
    <2> QED BY <2>1, <2>2
<1> QED
    BY <1>5, <1>6, <1>7, <1>8

LEMMA TypeStep ==
    ASSUME TypeInv, [Next]_vars
    PROVE  TypeInv'
<1>1. BooksOK /\ RestOK /\ Filled /\ Unused
    BY DEF TypeInv
<1>2. UsageOK' /\ RestOK' /\ Onward /\ Kinds
    BY <1>1, StepKinds
<1>g. \A c \in Calls : gateway[c].retry \in 1..MaxAttempts /\ gateway'[c].retry \in 1..MaxAttempts
    BY <1>1, <1>2 DEF RestOK, GatewayRow
<1>m. 1..MaxAttempts \subseteq Nat
    BY BudgetAssumption
<1>3. CASE Quiet
    <2>1. Unused'
        BY <1>1, <1>2, <1>g, <1>m, <1>3 DEF Unused, Onward, Quiet
    <2> QED BY <1>1, <1>2, <1>3, <2>1 DEF Quiet, TypeInv, BooksOK, Filled, UsageOK
<1>4. CASE SettlesOne
    <2>1. PICK i \in Id, status \in {"released", "reconciled"}, actual \in Amount :
              Settles(i, status, actual)
        BY <1>4 DEF SettlesOne
    <2>2. BooksOK'
        BY <1>1, <1>2, <2>1, SettleTypes DEF BooksOK, UsageOK
    <2>3. /\ reservation' = [reservation EXCEPT ![i].status = status, ![i].actual = actual]
          /\ status = "released" => actual = Nothing
          /\ reservation[i].status = "reserved"
        BY <2>1 DEF Settles, Settle, Open
    <2>4. \A j \in Id : /\ reservation'[j].booked = reservation[j].booked
                        /\ reservation'[j].created = reservation[j].created
                        /\ reservation'[j].status # "none" => reservation[j].status # "none"
                        /\ reservation'[j].status \in {"none", "released"} =>
                               \/ reservation'[j] = reservation[j]
                               \/ reservation'[j].actual = Nothing
        BY <1>1, <2>3 DEF BooksOK, Row
    <2>5. Filled'
        BY <1>1, <2>4 DEF Filled
    <2>6. \A c \in Calls, k \in 1..MaxAttempts : <<c, k>> \in Id
        BY DEF Id
    <2>7. Unused'
        BY <1>1, <1>2, <1>g, <1>m, <2>4, <2>6 DEF Unused, Onward
    <2> QED BY <1>2, <2>2, <2>5, <2>7 DEF TypeInv
<1>5. ASSUME NEW c \in Calls, Reserve(c) PROVE TypeInv'
    <2> DEFINE k == gateway[c].retry
               i == <<c, k>>
    <2>1. BooksOK'
        BY <1>1, <1>2, <1>5, ReserveTypes DEF BooksOK, UsageOK
    <2>2. PICK d \in BookingDays :
              reservation' = [reservation EXCEPT ![i] =
                 [status |-> "reserved", actual |-> Nothing, booked |-> d, created |-> today]]
        BY <1>5 DEF Reserve
    <2>3. d \in 1..Days /\ today \in 1..Days /\ i \in Id
        BY <1>1, BudgetAssumption DEF BookingDays, RestOK, GatewayRow, Id
    <2>4. Filled'
        BY <1>1, <2>2, <2>3 DEF Filled, BooksOK
    <2>5. gateway'[c].stage = "calling" /\ gateway'[c].retry = k
        BY <1>1, <1>5 DEF Reserve, RestOK, GatewayRow
    <2>6. ASSUME NEW b \in Calls, NEW n \in 1..MaxAttempts, reservation'[<<b, n>>].status # "none"
          PROVE  \/ n < gateway'[b].retry
                 \/ n = gateway'[b].retry /\ gateway'[b].stage # "ready"
        <3>1. CASE <<b, n>> = i
            BY <3>1, <2>5
        <3>2. CASE <<b, n>> # i
            <4>1. <<b, n>> \in Id
                BY DEF Id
            <4>2. reservation'[<<b, n>>] = reservation[<<b, n>>]
                BY <1>1, <2>2, <3>2, <4>1 DEF BooksOK
            <4> QED BY <1>1, <1>2, <1>g, <1>m, <2>6, <4>2 DEF Unused, Onward
        <3> QED BY <3>1, <3>2
    <2>7. Unused'
        BY <2>6 DEF Unused
    <2> QED BY <1>2, <2>1, <2>4, <2>7 DEF TypeInv
<1> QED
    BY <1>2, <1>3, <1>4, <1>5 DEF Kinds

LEMMA TypeInvHolds == Spec => []TypeInv
<1>1. Init => TypeInv
    BY InitTypes DEF TypeInv
<1>2. TypeInv /\ [Next]_vars => TypeInv'
    BY TypeStep
<1> QED
    BY <1>1, <1>2, PTL DEF Spec

\* The books, the calls and the clock hold what their types say.
THEOREM BooksTypes == Spec => []TypeOK
<1>1. TypeInv => TypeOK
    BY TypeParts DEF TypeInv
<1> QED
    BY <1>1, TypeInvHolds, PTL

-----------------------------------------------------------------------------
(* Totals of reservations *)

LEMMA IdFinite == IsFiniteSet(Id)
<1>1. IsFiniteSet(1..MaxAttempts)
    BY BudgetAssumption, FS_Interval
<1> QED
    BY <1>1, BudgetAssumption, FS_Product DEF Id

Sum(f) == SumFunctionOnSet(f, Id)

LEMMA SumNumber ==
    ASSUME NEW f \in [Id -> Nat]
    PROVE  Sum(f) \in Nat
BY IdFinite, SumNat DEF Sum

LEMMA SumOfZeros == Sum([i \in Id |-> 0]) = 0
<1> DEFINE zero == [i \in Id |-> 0]
<1>1. /\ \A i \in {} : zero[i] \in Int
      /\ \A i \in Id : zero[i] = IF i \in {} THEN zero[i] ELSE 0
      /\ {} \in SUBSET Id
    OBVIOUS
<1> HIDE DEF zero
<1>2. SumFunctionOnSet(zero, {}) = SumFunctionOnSet(zero, Id)
    BY <1>1, IdFinite, SumOfPart
<1>3. Sum(zero) = 0
    BY <1>2, SumOfNone DEF Sum
<1> QED
    BY <1>3 DEF zero

LEMMA ChangeAt ==
    ASSUME NEW f \in [Id -> Nat], NEW g \in [Id -> Nat], NEW i \in Id,
           \A j \in Id \ {i} : g[j] = f[j]
    PROVE  /\ Sum(g) = Sum(f) - f[i] + g[i]
           /\ Sum(f) \in Nat /\ Sum(g) \in Nat
           /\ f[i] \in Nat /\ g[i] \in Nat
           /\ f[i] <= Sum(f)
<1>1. \A j \in Id : f[j] \in Nat /\ g[j] \in Nat
    OBVIOUS
<1>2. \A j \in Id : f[j] \in Int /\ g[j] \in Int
    BY <1>1
<1>3. SumFunctionOnSet(g, Id) = SumFunctionOnSet(f, Id) - f[i] + g[i]
    BY <1>2, IdFinite, SumChange
<1>4. f[i] <= SumFunctionOnSet(f, Id)
    BY <1>1, IdFinite, SumCovers
<1> QED
    BY <1>1, <1>3, <1>4, SumNumber DEF Sum

\* What the reservations of A hold, have paid, and used beyond their estimates.
HeldOf(res, A, r) ==
    [i \in Id |-> IF i \in A /\ res[i].status = "reserved" THEN EstimateOf(i)[r] ELSE 0]
PaidOf(res, A, r) ==
    [i \in Id |-> IF i \in A /\ res[i].status = "reconciled" THEN res[i].actual[r] ELSE 0]
OverOf(res, A, r) ==
    [i \in Id |-> IF i \in A /\ res[i].status = "reconciled"
                  THEN AtLeastZero(res[i].actual[r] - EstimateOf(i)[r]) ELSE 0]

Held(res, A, r) == Sum(HeldOf(res, A, r))
Paid(res, A, r) == Sum(PaidOf(res, A, r))
Over(res, A, r) == Sum(OverOf(res, A, r))

LEMMA PartTypes ==
    ASSUME NEW res \in [Id -> Row], NEW A, NEW r \in Resources
    PROVE  /\ HeldOf(res, A, r) \in [Id -> Nat]
           /\ PaidOf(res, A, r) \in [Id -> Nat]
           /\ OverOf(res, A, r) \in [Id -> Nat]
           /\ Held(res, A, r) \in Nat /\ Paid(res, A, r) \in Nat /\ Over(res, A, r) \in Nat
           /\ \A i \in Id : EstimateOf(i)[r] \in Nat /\ res[i].actual[r] \in Nat
<1>1. \A i \in Id : EstimateOf(i) \in Amount /\ res[i].actual \in Amount
    BY AmountTypes DEF Row
<1>2. \A i \in Id : EstimateOf(i)[r] \in Nat /\ res[i].actual[r] \in Nat
    BY <1>1 DEF Amount
<1>3. \A i \in Id : AtLeastZero(res[i].actual[r] - EstimateOf(i)[r]) \in Nat
    BY <1>2 DEF AtLeastZero
<1>4. /\ HeldOf(res, A, r) \in [Id -> Nat]
      /\ PaidOf(res, A, r) \in [Id -> Nat]
      /\ OverOf(res, A, r) \in [Id -> Nat]
    BY <1>2, <1>3 DEF HeldOf, PaidOf, OverOf
<1> QED
    BY <1>2, <1>4, SumNumber DEF Held, Paid, Over

\* One reservation is made, or settled.
Makes(res, now, i) ==
    /\ res[i].status = "none"
    /\ now[i].status = "reserved"
    /\ \A j \in Id \ {i} : now[j] = res[j]

Closes(res, now, i, actual) ==
    /\ res[i].status = "reserved"
    /\ now[i].status \in {"released", "reconciled"}
    /\ now[i].status = "released" => actual = Nothing
    /\ now[i].actual = actual
    /\ \A j \in Id \ {i} : now[j] = res[j]

Part(i, A, n) == IF i \in A THEN n ELSE 0

LEMMA MakeMoves ==
    ASSUME NEW res \in [Id -> Row], NEW now \in [Id -> Row], NEW i \in Id,
           Makes(res, now, i), NEW A, NEW r \in Resources
    PROVE  /\ Held(now, A, r) = Held(res, A, r) + Part(i, A, EstimateOf(i)[r])
           /\ Paid(now, A, r) = Paid(res, A, r)
           /\ Over(now, A, r) = Over(res, A, r)
<1>0. EstimateOf(i)[r] \in Nat
    BY PartTypes
<1>1. Held(now, A, r) = Held(res, A, r) + Part(i, A, EstimateOf(i)[r])
    <2> DEFINE f == HeldOf(res, A, r)
               g == HeldOf(now, A, r)
    <2>1. f \in [Id -> Nat] /\ g \in [Id -> Nat]
        BY PartTypes
    <2>2. /\ \A j \in Id \ {i} : g[j] = f[j]
          /\ f[i] = 0 /\ g[i] = Part(i, A, EstimateOf(i)[r])
        BY DEF HeldOf, Makes, Part
    <2> HIDE DEF f, g
    <2>3. Sum(g) = Sum(f) - f[i] + g[i] /\ Sum(f) \in Nat /\ Sum(g) \in Nat /\ g[i] \in Nat
        BY <2>1, <2>2, ChangeAt
    <2>4. Sum(g) = Sum(f) + Part(i, A, EstimateOf(i)[r])
        BY <2>2, <2>3
    <2> QED BY <2>4 DEF Held, f, g
<1>2. PaidOf(now, A, r) = PaidOf(res, A, r)
    BY DEF PaidOf, Makes
<1>3. OverOf(now, A, r) = OverOf(res, A, r)
    BY DEF OverOf, Makes
<1> QED
    BY <1>1, <1>2, <1>3 DEF Paid, Over

LEMMA CloseMoves ==
    ASSUME NEW res \in [Id -> Row], NEW now \in [Id -> Row], NEW i \in Id, NEW actual \in Amount,
           Closes(res, now, i, actual), NEW A, NEW r \in Resources
    PROVE  /\ Part(i, A, EstimateOf(i)[r]) <= Held(res, A, r)
           /\ Held(now, A, r) = Held(res, A, r) - Part(i, A, EstimateOf(i)[r])
           /\ Paid(now, A, r) = Paid(res, A, r) + Part(i, A, actual[r])
           /\ Over(now, A, r) = Over(res, A, r)
                                 + Part(i, A, AtLeastZero(actual[r] - EstimateOf(i)[r]))
<1>0. EstimateOf(i)[r] \in Nat /\ actual[r] \in Nat /\ (actual = Nothing => actual[r] = 0)
    BY PartTypes DEF Amount, Nothing
<1>s. now[i].status = "released" => actual[r] = 0
    BY <1>0 DEF Closes
<1>z. AtLeastZero(actual[r] - EstimateOf(i)[r]) \in Nat
      /\ (actual[r] = 0 => AtLeastZero(actual[r] - EstimateOf(i)[r]) = 0)
    BY <1>0 DEF AtLeastZero
<1>1. /\ Part(i, A, EstimateOf(i)[r]) <= Held(res, A, r)
      /\ Held(now, A, r) = Held(res, A, r) - Part(i, A, EstimateOf(i)[r])
    <2> DEFINE f == HeldOf(res, A, r)
               g == HeldOf(now, A, r)
    <2>1. f \in [Id -> Nat] /\ g \in [Id -> Nat]
        BY PartTypes
    <2>2. /\ \A j \in Id \ {i} : g[j] = f[j]
          /\ f[i] = Part(i, A, EstimateOf(i)[r]) /\ g[i] = 0
        BY DEF HeldOf, Closes, Part
    <2> HIDE DEF f, g
    <2>3. /\ Sum(g) = Sum(f) - f[i] + g[i] /\ Sum(f) \in Nat /\ Sum(g) \in Nat
          /\ f[i] \in Nat /\ f[i] <= Sum(f)
        BY <2>1, <2>2, ChangeAt
    <2>4. /\ Part(i, A, EstimateOf(i)[r]) <= Sum(f)
          /\ Sum(g) = Sum(f) - Part(i, A, EstimateOf(i)[r])
        BY <2>2, <2>3
    <2> QED BY <2>4 DEF Held, f, g
<1>2. Paid(now, A, r) = Paid(res, A, r) + Part(i, A, actual[r])
    <2> DEFINE f == PaidOf(res, A, r)
               g == PaidOf(now, A, r)
    <2>1. f \in [Id -> Nat] /\ g \in [Id -> Nat]
        BY PartTypes
    <2>2. /\ \A j \in Id \ {i} : g[j] = f[j]
          /\ f[i] = 0 /\ g[i] = Part(i, A, actual[r])
        BY <1>s DEF PaidOf, Closes, Part
    <2> HIDE DEF f, g
    <2>3. Sum(g) = Sum(f) - f[i] + g[i] /\ Sum(f) \in Nat /\ Sum(g) \in Nat /\ g[i] \in Nat
        BY <2>1, <2>2, ChangeAt
    <2>4. Sum(g) = Sum(f) + Part(i, A, actual[r])
        BY <2>2, <2>3
    <2> QED BY <2>4 DEF Paid, f, g
<1>3. Over(now, A, r) = Over(res, A, r)
                          + Part(i, A, AtLeastZero(actual[r] - EstimateOf(i)[r]))
    <2> DEFINE f == OverOf(res, A, r)
               g == OverOf(now, A, r)
               n == AtLeastZero(actual[r] - EstimateOf(i)[r])
    <2>1. f \in [Id -> Nat] /\ g \in [Id -> Nat]
        BY PartTypes
    <2>2. /\ \A j \in Id \ {i} : g[j] = f[j]
          /\ f[i] = 0
        BY DEF OverOf, Closes
    <2>3. g[i] = Part(i, A, n)
        BY <1>s, <1>z DEF OverOf, Closes, Part
    <2> HIDE DEF f, g, n
    <2>4. Sum(g) = Sum(f) - f[i] + g[i] /\ Sum(f) \in Nat /\ Sum(g) \in Nat /\ g[i] \in Nat
        BY <2>1, <2>2, ChangeAt
    <2>5. Sum(g) = Sum(f) + Part(i, A, n)
        BY <2>2, <2>3, <2>4
    <2> QED BY <2>5 DEF Over, f, g, n
<1> QED
    BY <1>1, <1>2, <1>3

OfRuns(runs) == {i \in Id : RunOfId(i) \in runs}

\* The sums the model takes over sets of reservations are these totals.
LEMMA Totals ==
    ASSUME BooksOK, Filled, NEW A \in SUBSET Id, NEW r \in Resources
    PROVE  /\ Reserved(Outstanding \cap A, r) = Held(reservation, A, r)
           /\ Spent(Charged \cap A, r) = Paid(reservation, A, r)
           /\ Overage(Charged \cap A, r) = Over(reservation, A, r)
           /\ EffectiveUse(A, r) = Held(reservation, A, r) + Paid(reservation, A, r)
<1> DEFINE held == HeldOf(reservation, A, r)
           paid == PaidOf(reservation, A, r)
           over == OverOf(reservation, A, r)
<1>0. /\ reservation \in [Id -> Row]
      /\ \A i \in Id : EstimateOf(i)[r] \in Nat /\ reservation[i].actual[r] \in Nat
      /\ held \in [Id -> Nat] /\ paid \in [Id -> Nat] /\ over \in [Id -> Nat]
    BY PartTypes DEF BooksOK
<1>f. IsFiniteSet(Id)
    BY IdFinite
<1>1. Reserved(Outstanding \cap A, r) = Held(reservation, A, r)
    <2> DEFINE f == [i \in Id |-> EstimateOf(i)[r]]
               T == Outstanding \cap A
    <2>1. T \in SUBSET Id
        BY DEF Outstanding, WithStatus
    <2>2. \A i \in T : f[i] \in Int
        BY <1>0, <2>1
    <2>3. \A i \in Id : held[i] = IF i \in T THEN f[i] ELSE 0
        BY DEF HeldOf, Outstanding, WithStatus
    <2>4. Reserved(T, r) = SumFunctionOnSet(f, T)
        BY DEF Reserved, Total
    <2> HIDE DEF f, T, held
    <2>5. SumFunctionOnSet(f, T) = SumFunctionOnSet(held, Id)
        BY <1>f, <2>1, <2>2, <2>3, SumOfPart
    <2> QED BY <2>4, <2>5 DEF Held, Sum, held, T
<1>2. Spent(Charged \cap A, r) = Paid(reservation, A, r)
    <2> DEFINE f == [i \in Id |-> reservation[i].actual[r]]
               T == Charged \cap A
    <2>1. T \in SUBSET Id
        BY DEF Charged, WithStatus
    <2>2. \A i \in T : f[i] \in Int
        BY <1>0, <2>1
    <2>3. \A i \in Id : paid[i] = IF i \in T THEN f[i] ELSE 0
        BY DEF PaidOf, Charged, WithStatus
    <2>4. Spent(T, r) = SumFunctionOnSet(f, T)
        BY DEF Spent, Total
    <2> HIDE DEF f, T, paid
    <2>5. SumFunctionOnSet(f, T) = SumFunctionOnSet(paid, Id)
        BY <1>f, <2>1, <2>2, <2>3, SumOfPart
    <2> QED BY <2>4, <2>5 DEF Paid, Sum, paid, T
<1>3. Overage(Charged \cap A, r) = Over(reservation, A, r)
    <2> DEFINE f == [i \in Id |-> AtLeastZero(reservation[i].actual[r] - EstimateOf(i)[r])]
               T == Charged \cap A
    <2>1. T \in SUBSET Id
        BY DEF Charged, WithStatus
    <2>2. \A i \in T : f[i] \in Int
        BY <1>0, <2>1 DEF AtLeastZero
    <2>3. \A i \in Id : over[i] = IF i \in T THEN f[i] ELSE 0
        BY DEF OverOf, Charged, WithStatus
    <2>4. Overage(T, r) = SumFunctionOnSet(f, T)
        BY DEF Overage, Total
    <2> HIDE DEF f, T, over
    <2>5. SumFunctionOnSet(f, T) = SumFunctionOnSet(over, Id)
        BY <1>f, <2>1, <2>2, <2>3, SumOfPart
    <2> QED BY <2>4, <2>5 DEF Over, Sum, over, T
<1>4. EffectiveUse(A, r) = Held(reservation, A, r) + Paid(reservation, A, r)
    <2> DEFINE f == [i \in Id |-> IF reservation[i].status = "reserved"
                                  THEN EstimateOf(i)[r] ELSE reservation[i].actual[r]]
               both == [i \in Id |-> IF i \in A THEN f[i] ELSE 0]
    <2>1. \A i \in A : f[i] \in Int
        BY <1>0
    <2>2. \A i \in Id : both[i] = IF i \in A THEN f[i] ELSE 0
        OBVIOUS
    <2>3. \A i \in Id : /\ held[i] \in Int /\ paid[i] \in Int
                        /\ both[i] = held[i] + paid[i]
        <3> TAKE i \in Id
        <3>1. reservation[i].status \in {"none", "reserved", "reconciled", "released"}
            BY <1>0 DEF Row, ReservationStatus
        <3>2. reservation[i].status \in {"none", "released"} => reservation[i].actual[r] = 0
            BY DEF Filled, Nothing
        <3> QED BY <1>0, <3>1, <3>2 DEF HeldOf, PaidOf
    <2>4. EffectiveUse(A, r) = SumFunctionOnSet(f, A)
        BY DEF EffectiveUse, Total
    <2> HIDE DEF f, both, held, paid
    <2>5. SumFunctionOnSet(f, A) = SumFunctionOnSet(both, Id)
        BY <1>f, <2>1, <2>2, SumOfPart
    <2>6. SumFunctionOnSet(both, Id) = SumFunctionOnSet(held, Id) + SumFunctionOnSet(paid, Id)
        BY <1>f, <2>3, SumPlus
    <2> QED BY <2>4, <2>5, <2>6 DEF Held, Paid, Sum, held, paid
<1> QED
    BY <1>1, <1>2, <1>3, <1>4

-----------------------------------------------------------------------------
(* Ledgers *)

\* A row is the totals of the reservations A it stands for, and within its limit.
Kept(row, A, max, res) ==
    \A r \in Resources :
        /\ row.reserved[r] = Held(res, A, r)
        /\ row.consumed[r] = Paid(res, A, r)
        /\ row.reserved[r] + row.consumed[r] <= max[r] + Over(res, A, r)

SameRow(row, new) == new.reserved = row.reserved /\ new.consumed = row.consumed

LEMMA KeptWhenMade ==
    ASSUME NEW res \in [Id -> Row], NEW now \in [Id -> Row], NEW i \in Id,
           Makes(res, now, i), NEW A, NEW max \in Amount,
           NEW row, row.reserved \in Amount, row.consumed \in Amount, NEW new,
           Kept(row, A, max, res),
           \/ i \notin A /\ SameRow(row, new)
           \/ /\ i \in A /\ Fits(row, EstimateOf(i), max)
              /\ new.reserved = Plus(row.reserved, EstimateOf(i))
              /\ new.consumed = row.consumed
    PROVE  Kept(new, A, max, now)
<1> SUFFICES ASSUME NEW r \in Resources
             PROVE  /\ new.reserved[r] = Held(now, A, r)
                    /\ new.consumed[r] = Paid(now, A, r)
                    /\ new.reserved[r] + new.consumed[r] <= max[r] + Over(now, A, r)
    BY DEF Kept
<1>1. /\ Held(now, A, r) = Held(res, A, r) + Part(i, A, EstimateOf(i)[r])
      /\ Paid(now, A, r) = Paid(res, A, r)
      /\ Over(now, A, r) = Over(res, A, r)
    BY MakeMoves
<1>2. /\ Held(res, A, r) \in Nat /\ Paid(res, A, r) \in Nat /\ Over(res, A, r) \in Nat
      /\ EstimateOf(i)[r] \in Nat
    BY PartTypes
<1>3. max[r] \in Nat /\ row.reserved[r] \in Nat /\ row.consumed[r] \in Nat
    BY DEF Amount
<1>4. /\ row.reserved[r] = Held(res, A, r)
      /\ row.consumed[r] = Paid(res, A, r)
      /\ row.reserved[r] + row.consumed[r] <= max[r] + Over(res, A, r)
    BY DEF Kept
<1>5. CASE i \notin A /\ SameRow(row, new)
    BY <1>1, <1>2, <1>3, <1>4, <1>5 DEF SameRow, Part
<1>6. CASE /\ i \in A /\ Fits(row, EstimateOf(i), max)
           /\ new.reserved = Plus(row.reserved, EstimateOf(i))
           /\ new.consumed = row.consumed
    <2>1. /\ row.reserved[r] + row.consumed[r] + EstimateOf(i)[r] <= max[r]
          /\ new.reserved[r] = row.reserved[r] + EstimateOf(i)[r]
          /\ new.consumed[r] = row.consumed[r]
          /\ Part(i, A, EstimateOf(i)[r]) = EstimateOf(i)[r]
        BY <1>6 DEF Fits, Plus, Part
    <2> QED BY <1>1, <1>2, <1>3, <1>4, <2>1
<1> QED
    BY <1>5, <1>6

LEMMA KeptWhenClosed ==
    ASSUME NEW res \in [Id -> Row], NEW now \in [Id -> Row], NEW i \in Id, NEW actual \in Amount,
           Closes(res, now, i, actual), NEW A, NEW max \in Amount,
           NEW row, row.reserved \in Amount, row.consumed \in Amount, NEW new,
           Kept(row, A, max, res),
           \/ i \notin A /\ SameRow(row, new)
           \/ /\ i \in A
              /\ new.reserved = Less(row.reserved, EstimateOf(i))
              /\ new.consumed = Plus(row.consumed, actual)
    PROVE  Kept(new, A, max, now)
<1> SUFFICES ASSUME NEW r \in Resources
             PROVE  /\ new.reserved[r] = Held(now, A, r)
                    /\ new.consumed[r] = Paid(now, A, r)
                    /\ new.reserved[r] + new.consumed[r] <= max[r] + Over(now, A, r)
    BY DEF Kept
<1> DEFINE beyond == AtLeastZero(actual[r] - EstimateOf(i)[r])
<1>1. /\ Part(i, A, EstimateOf(i)[r]) <= Held(res, A, r)
      /\ Held(now, A, r) = Held(res, A, r) - Part(i, A, EstimateOf(i)[r])
      /\ Paid(now, A, r) = Paid(res, A, r) + Part(i, A, actual[r])
      /\ Over(now, A, r) = Over(res, A, r) + Part(i, A, beyond)
    BY CloseMoves
<1>2. /\ Held(res, A, r) \in Nat /\ Paid(res, A, r) \in Nat /\ Over(res, A, r) \in Nat
      /\ EstimateOf(i)[r] \in Nat
    BY PartTypes
<1>3. max[r] \in Nat /\ row.reserved[r] \in Nat /\ row.consumed[r] \in Nat /\ actual[r] \in Nat
    BY DEF Amount
<1>4. /\ row.reserved[r] = Held(res, A, r)
      /\ row.consumed[r] = Paid(res, A, r)
      /\ row.reserved[r] + row.consumed[r] <= max[r] + Over(res, A, r)
    BY DEF Kept
<1>b. beyond \in Nat /\ actual[r] - EstimateOf(i)[r] <= beyond
    BY <1>2, <1>3 DEF AtLeastZero
<1> HIDE DEF beyond
<1>5. CASE i \notin A /\ SameRow(row, new)
    BY <1>1, <1>2, <1>3, <1>4, <1>5 DEF SameRow, Part
<1>6. CASE /\ i \in A
           /\ new.reserved = Less(row.reserved, EstimateOf(i))
           /\ new.consumed = Plus(row.consumed, actual)
    <2>1. /\ new.reserved[r] = AtLeastZero(row.reserved[r] - EstimateOf(i)[r])
          /\ new.consumed[r] = row.consumed[r] + actual[r]
          /\ Part(i, A, EstimateOf(i)[r]) = EstimateOf(i)[r]
          /\ Part(i, A, actual[r]) = actual[r]
          /\ Part(i, A, beyond) = beyond
        BY <1>6 DEF Less, Plus, Part
    <2>2. new.reserved[r] = row.reserved[r] - EstimateOf(i)[r]
        BY <1>1, <1>2, <1>4, <2>1 DEF AtLeastZero
    <2> QED BY <1>1, <1>2, <1>3, <1>4, <1>b, <2>1, <2>2
<1> QED
    BY <1>5, <1>6

LEMMA KeptWhenSame ==
    ASSUME NEW res, NEW A, NEW max, NEW row, NEW new, Kept(row, A, max, res), SameRow(row, new)
    PROVE  Kept(new, A, max, res)
BY DEF Kept, SameRow

LEMMA MakeStep ==
    ASSUME TypeInv, NEW c \in Calls, Reserve(c)
    PROVE  LET i == <<c, gateway[c].retry>> IN
           /\ i \in Id
           /\ EstimateOf(i) = Estimate[c] /\ RunOfId(i) = RunOf[c]
           /\ \A cap : i \in CountedIn(cap) <=> cap \in CapOf[c]
           /\ reservation \in [Id -> Row] /\ reservation' \in [Id -> Row]
           /\ Makes(reservation, reservation', i)
<1> DEFINE i == <<c, gateway[c].retry>>
<1>1. BooksOK /\ RestOK /\ Unused
    BY DEF TypeInv
<1>2. i \in Id /\ i[1] = c
    BY <1>1 DEF RestOK, GatewayRow, Id
<1>3. EstimateOf(i) = Estimate[c] /\ RunOfId(i) = RunOf[c]
      /\ \A cap : i \in CountedIn(cap) <=> cap \in CapOf[c]
    BY <1>2 DEF EstimateOf, RunOfId, CountedIn
<1>4. reservation \in [Id -> Row] /\ reservation' \in [Id -> Row]
    BY <1>1, ReserveTypes DEF BooksOK
<1>5. PICK d \in BookingDays :
          reservation' = [reservation EXCEPT ![i] =
             [status |-> "reserved", actual |-> Nothing, booked |-> d, created |-> today]]
    BY DEF Reserve
<1>6. reservation[i].status = "none"
    <2>1. gateway[c].retry \in 1..MaxAttempts /\ gateway[c].stage = "ready"
        BY <1>1 DEF RestOK, GatewayRow, Reserve
    <2>2. gateway[c].retry \in Nat
        BY <2>1, BudgetAssumption
    <2> QED BY <1>1, <2>1, <2>2 DEF Unused
<1> HIDE DEF i
<1>7. Makes(reservation, reservation', i)
    BY <1>2, <1>4, <1>5, <1>6 DEF Makes
<1> QED
    BY <1>2, <1>3, <1>4, <1>7 DEF i

LEMMA CloseStep ==
    ASSUME TypeInv, NEW i \in Id, NEW status, NEW actual, Settles(i, status, actual)
    PROVE  /\ actual \in Amount
           /\ reservation \in [Id -> Row] /\ reservation' \in [Id -> Row]
           /\ Closes(reservation, reservation', i, actual)
<1>1. BooksOK /\ Filled
    BY DEF TypeInv
<1>2. /\ actual \in Amount /\ status \in {"released", "reconciled"}
      /\ status = "released" => actual = Nothing
      /\ reservation[i].status = "reserved"
      /\ reservation' = [reservation EXCEPT ![i].status = status, ![i].actual = actual]
    BY DEF Settles, Settle, Open
<1>3. reservation \in [Id -> Row] /\ reservation' \in [Id -> Row]
    BY <1>1, SettleTypes DEF BooksOK
<1>4. Closes(reservation, reservation', i, actual)
    BY <1>2, <1>3 DEF Closes, Row
<1> QED
    BY <1>2, <1>3, <1>4

CapKept(cap, res) ==
    \A r \in Resources : Held(res, CountedIn(cap), r) + Paid(res, CountedIn(cap), r)
                             <= CapMax[cap][r] + Over(res, CountedIn(cap), r)

\* Every row is the totals of its reservations and within its limit, and so are
\* the totals no row keeps.
SumsInv ==
    /\ \A run \in Runs : Kept(runBudget[run], OfRuns({run}), RunMax[run], reservation)
    /\ Kept(evaluation, OfRuns(EvalRuns), EvalMax, reservation)
    /\ \A cap \in Caps : CapKept(cap, reservation)

LEMMA MaxTypes ==
    /\ \A run \in Runs : RunMax[run] \in Amount
    /\ EvalMax \in Amount
    /\ \A cap \in Caps, r \in Resources : CapMax[cap][r] \in Nat
BY BudgetAssumption DEF Amount

LEMMA RowTypes ==
    ASSUME BooksOK
    PROVE  /\ \A run \in Runs : runBudget[run].reserved \in Amount /\ runBudget[run].consumed \in Amount
           /\ evaluation.reserved \in Amount /\ evaluation.consumed \in Amount
BY DEF BooksOK, RunRow, Ledger

LEMMA SumsMade ==
    ASSUME TypeInv, SumsInv, NEW c \in Calls, Reserve(c)
    PROVE  SumsInv'
<1> DEFINE i == <<c, gateway[c].retry>>
<1>1. BooksOK /\ Filled
    BY DEF TypeInv
<1>2. /\ i \in Id
      /\ EstimateOf(i) = Estimate[c] /\ RunOfId(i) = RunOf[c]
      /\ \A cap : i \in CountedIn(cap) <=> cap \in CapOf[c]
      /\ reservation \in [Id -> Row] /\ reservation' \in [Id -> Row]
      /\ Makes(reservation, reservation', i)
    BY MakeStep
<1>3. /\ Fits(runBudget[RunOf[c]], Estimate[c], RunMax[RunOf[c]])
      /\ RunOf[c] \in EvalRuns => Fits(evaluation, Estimate[c], EvalMax)
      /\ CapsAllow(c)
      /\ runBudget' = [runBudget EXCEPT ![RunOf[c]] = Hold(@, Estimate[c])]
      /\ evaluation' = IF RunOf[c] \in EvalRuns THEN Hold(evaluation, Estimate[c]) ELSE evaluation
    BY DEF Reserve
<1>r. RunOf[c] \in Runs
    BY BudgetAssumption
<1> HIDE DEF i
<1>4. ASSUME NEW run \in Runs
      PROVE  Kept(runBudget'[run], OfRuns({run}), RunMax[run], reservation')
    <2>1. CASE run = RunOf[c]
        <3>1. i \in OfRuns({run})
            BY <1>2, <2>1 DEF OfRuns
        <3>2. /\ runBudget'[run].reserved = Plus(runBudget[run].reserved, EstimateOf(i))
              /\ runBudget'[run].consumed = runBudget[run].consumed
            BY <1>1, <1>2, <1>3, <2>1 DEF BooksOK, RunRow, Hold
        <3>3. Fits(runBudget[run], EstimateOf(i), RunMax[run])
            BY <1>2, <1>3, <2>1
        <3> QED BY <1>1, <1>2, <3>1, <3>2, <3>3, KeptWhenMade, MaxTypes, RowTypes DEF SumsInv
    <2>2. CASE run # RunOf[c]
        <3>1. i \notin OfRuns({run})
            BY <1>2, <2>2 DEF OfRuns
        <3>2. SameRow(runBudget[run], runBudget'[run])
            BY <1>1, <1>3, <2>2 DEF BooksOK, SameRow
        <3> QED BY <1>1, <1>2, <3>1, <3>2, KeptWhenMade, MaxTypes, RowTypes DEF SumsInv
    <2> QED BY <2>1, <2>2
<1>5. Kept(evaluation', OfRuns(EvalRuns), EvalMax, reservation')
    <2>1. CASE RunOf[c] \in EvalRuns
        <3>1. i \in OfRuns(EvalRuns)
            BY <1>2, <2>1 DEF OfRuns
        <3>2. /\ evaluation'.reserved = Plus(evaluation.reserved, EstimateOf(i))
              /\ evaluation'.consumed = evaluation.consumed
            BY <1>1, <1>2, <1>3, <2>1 DEF BooksOK, Ledger, Hold
        <3>3. Fits(evaluation, EstimateOf(i), EvalMax)
            BY <1>2, <1>3, <2>1
        <3> QED BY <1>1, <1>2, <3>1, <3>2, <3>3, KeptWhenMade, MaxTypes, RowTypes DEF SumsInv
    <2>2. CASE RunOf[c] \notin EvalRuns
        <3>1. i \notin OfRuns(EvalRuns)
            BY <1>2, <2>2 DEF OfRuns
        <3>2. SameRow(evaluation, evaluation')
            BY <1>3, <2>2 DEF SameRow
        <3> QED BY <1>1, <1>2, <3>1, <3>2, KeptWhenMade, MaxTypes, RowTypes DEF SumsInv
    <2> QED BY <2>1, <2>2
<1>6. ASSUME NEW cap \in Caps, NEW r \in Resources
      PROVE  Held(reservation', CountedIn(cap), r) + Paid(reservation', CountedIn(cap), r)
                 <= CapMax[cap][r] + Over(reservation', CountedIn(cap), r)
    <2> DEFINE A == CountedIn(cap)
    <2>0. A \in SUBSET Id
        BY DEF CountedIn
    <2>c. i \in A <=> cap \in CapOf[c]
        BY <1>2
    <2>k. cap \in CapOf[c] => EffectiveUse(A, r) + Estimate[c][r] <= CapMax[cap][r]
        BY <1>3 DEF CapsAllow
    <2>h. Held(reservation, A, r) + Paid(reservation, A, r) <= CapMax[cap][r] + Over(reservation, A, r)
        BY DEF SumsInv, CapKept
    <2> HIDE DEF A
    <2>1. EffectiveUse(A, r) = Held(reservation, A, r) + Paid(reservation, A, r)
        BY <1>1, <2>0, Totals
    <2>2. /\ Held(reservation', A, r) = Held(reservation, A, r) + Part(i, A, EstimateOf(i)[r])
          /\ Paid(reservation', A, r) = Paid(reservation, A, r)
          /\ Over(reservation', A, r) = Over(reservation, A, r)
        BY <1>2, MakeMoves
    <2>3. /\ Held(reservation, A, r) \in Nat /\ Paid(reservation, A, r) \in Nat
          /\ Over(reservation, A, r) \in Nat
          /\ EstimateOf(i)[r] \in Nat /\ CapMax[cap][r] \in Nat
        BY <1>2, PartTypes, MaxTypes
    <2>4. Part(i, A, EstimateOf(i)[r]) = IF cap \in CapOf[c] THEN EstimateOf(i)[r] ELSE 0
        BY <2>c DEF Part
    <2>5. Held(reservation', A, r) + Paid(reservation', A, r) <= CapMax[cap][r] + Over(reservation', A, r)
        <3>1. CASE cap \in CapOf[c]
            <4>1. EffectiveUse(A, r) + EstimateOf(i)[r] <= CapMax[cap][r]
                BY <2>k, <3>1, <1>2
            <4> QED BY <2>1, <2>2, <2>3, <2>4, <3>1, <4>1
        <3>2. CASE cap \notin CapOf[c]
            BY <2>h, <2>2, <2>3, <2>4, <3>2
        <3> QED BY <3>1, <3>2
    <2> QED BY <2>5 DEF A
<1> QED
    BY <1>4, <1>5, <1>6 DEF SumsInv, CapKept, OfRuns, CountedIn

LEMMA SumsClosed ==
    ASSUME TypeInv, SumsInv, NEW i \in Id, NEW status, NEW actual, Settles(i, status, actual)
    PROVE  SumsInv'
<1>1. BooksOK /\ Filled
    BY DEF TypeInv
<1>2. /\ actual \in Amount
      /\ reservation \in [Id -> Row] /\ reservation' \in [Id -> Row]
      /\ Closes(reservation, reservation', i, actual)
    BY CloseStep
<1>3. /\ runBudget' = [runBudget EXCEPT ![RunOfId(i)] =
                           MoveRun(@, RunOfId(i), EstimateOf(i), actual, status)]
      /\ evaluation' = IF RunOfId(i) \in EvalRuns THEN Move(evaluation, EstimateOf(i), actual)
                       ELSE evaluation
    BY DEF Settles, Settle
<1>r. RunOfId(i) \in Runs
    BY AmountTypes
<1>4. ASSUME NEW run \in Runs
      PROVE  Kept(runBudget'[run], OfRuns({run}), RunMax[run], reservation')
    <2>1. CASE run = RunOfId(i)
        <3>1. i \in OfRuns({run})
            BY <2>1 DEF OfRuns
        <3>2. /\ runBudget'[run].reserved = Less(runBudget[run].reserved, EstimateOf(i))
              /\ runBudget'[run].consumed = Plus(runBudget[run].consumed, actual)
            <4> DEFINE b == runBudget[run]
            <4>1. b \in RunRow
                BY <1>1 DEF BooksOK
            <4>2. runBudget'[run] = MoveRun(b, run, EstimateOf(i), actual, status)
                BY <1>1, <1>3, <2>1 DEF BooksOK
            <4> HIDE DEF b
            <4>3. /\ MoveRun(b, run, EstimateOf(i), actual, status).reserved = Less(b.reserved, EstimateOf(i))
                  /\ MoveRun(b, run, EstimateOf(i), actual, status).consumed = Plus(b.consumed, actual)
                BY <4>1 DEF MoveRun, Move, RunRow
            <4> QED BY <4>2, <4>3 DEF b
        <3> QED BY <1>1, <1>2, <3>1, <3>2, KeptWhenClosed, MaxTypes, RowTypes DEF SumsInv
    <2>2. CASE run # RunOfId(i)
        <3>1. i \notin OfRuns({run})
            BY <2>2 DEF OfRuns
        <3>2. SameRow(runBudget[run], runBudget'[run])
            BY <1>1, <1>3, <2>2 DEF BooksOK, SameRow
        <3> QED BY <1>1, <1>2, <3>1, <3>2, KeptWhenClosed, MaxTypes, RowTypes DEF SumsInv
    <2> QED BY <2>1, <2>2
<1>5. Kept(evaluation', OfRuns(EvalRuns), EvalMax, reservation')
    <2>1. CASE RunOfId(i) \in EvalRuns
        <3>1. i \in OfRuns(EvalRuns)
            BY <2>1 DEF OfRuns
        <3>2. /\ evaluation'.reserved = Less(evaluation.reserved, EstimateOf(i))
              /\ evaluation'.consumed = Plus(evaluation.consumed, actual)
            BY <1>1, <1>3, <2>1 DEF BooksOK, Ledger, Move
        <3> QED BY <1>1, <1>2, <3>1, <3>2, KeptWhenClosed, MaxTypes, RowTypes DEF SumsInv
    <2>2. CASE RunOfId(i) \notin EvalRuns
        <3>1. i \notin OfRuns(EvalRuns)
            BY <2>2 DEF OfRuns
        <3>2. SameRow(evaluation, evaluation')
            BY <1>3, <2>2 DEF SameRow
        <3> QED BY <1>1, <1>2, <3>1, <3>2, KeptWhenClosed, MaxTypes, RowTypes DEF SumsInv
    <2> QED BY <2>1, <2>2
<1>6. ASSUME NEW cap \in Caps, NEW r \in Resources
      PROVE  Held(reservation', CountedIn(cap), r) + Paid(reservation', CountedIn(cap), r)
                 <= CapMax[cap][r] + Over(reservation', CountedIn(cap), r)
    <2> DEFINE A == CountedIn(cap)
               beyond == AtLeastZero(actual[r] - EstimateOf(i)[r])
    <2>h. Held(reservation, A, r) + Paid(reservation, A, r) <= CapMax[cap][r] + Over(reservation, A, r)
        BY DEF SumsInv, CapKept
    <2> HIDE DEF A
    <2>1. /\ Held(reservation', A, r) = Held(reservation, A, r) - Part(i, A, EstimateOf(i)[r])
          /\ Paid(reservation', A, r) = Paid(reservation, A, r) + Part(i, A, actual[r])
          /\ Over(reservation', A, r) = Over(reservation, A, r) + Part(i, A, beyond)
        BY <1>2, CloseMoves
    <2>2. /\ Held(reservation, A, r) \in Nat /\ Paid(reservation, A, r) \in Nat
          /\ Over(reservation, A, r) \in Nat
          /\ EstimateOf(i)[r] \in Nat /\ CapMax[cap][r] \in Nat
        BY <1>2, PartTypes, MaxTypes
    <2>3. actual[r] \in Nat
        BY <1>2 DEF Amount
    <2>4. beyond \in Nat /\ actual[r] - EstimateOf(i)[r] <= beyond
        BY <2>2, <2>3 DEF AtLeastZero
    <2> HIDE DEF beyond
    <2>5. Held(reservation', A, r) + Paid(reservation', A, r) <= CapMax[cap][r] + Over(reservation', A, r)
        <3>1. CASE i \in A
            BY <2>h, <2>1, <2>2, <2>3, <2>4, <3>1 DEF Part
        <3>2. CASE i \notin A
            BY <2>h, <2>1, <2>2, <2>3, <2>4, <3>2 DEF Part
        <3> QED BY <3>1, <3>2
    <2> QED BY <2>5 DEF A
<1> QED
    BY <1>4, <1>5, <1>6 DEF SumsInv, CapKept, OfRuns, CountedIn

LEMMA SumsSame ==
    ASSUME TypeInv, SumsInv, Quiet
    PROVE  SumsInv'
<1>1. /\ reservation' = reservation /\ evaluation' = evaluation
      /\ \A run \in Runs : SameRow(runBudget[run], runBudget'[run])
    BY DEF Quiet, SameRows, SameRow
<1>2. \A run \in Runs : Kept(runBudget'[run], OfRuns({run}), RunMax[run], reservation')
    BY <1>1, KeptWhenSame DEF SumsInv
<1> QED
    BY <1>1, <1>2 DEF SumsInv, CapKept, OfRuns, CountedIn

LEMMA NothingSpent ==
    ASSUME Init, NEW A, NEW r \in Resources
    PROVE  Held(reservation, A, r) = 0 /\ Paid(reservation, A, r) = 0 /\ Over(reservation, A, r) = 0
<1>1. \A i \in Id : reservation[i].status = "none"
    BY DEF Init, NoReservation
<1>2. /\ HeldOf(reservation, A, r) = [i \in Id |-> 0]
      /\ PaidOf(reservation, A, r) = [i \in Id |-> 0]
      /\ OverOf(reservation, A, r) = [i \in Id |-> 0]
    BY <1>1 DEF HeldOf, PaidOf, OverOf
<1> QED
    BY <1>2, SumOfZeros DEF Held, Paid, Over

LEMMA SumsInvHolds == Spec => [](TypeInv /\ SumsInv)
<1>1. Init => SumsInv
    <2> SUFFICES ASSUME Init PROVE SumsInv
        OBVIOUS
    <2>1. \A A : \A r \in Resources :
              Held(reservation, A, r) = 0 /\ Paid(reservation, A, r) = 0 /\ Over(reservation, A, r) = 0
        BY NothingSpent
    <2>2. \A run \in Runs : Kept(runBudget[run], OfRuns({run}), RunMax[run], reservation)
        <3>1. ASSUME NEW run \in Runs, NEW r \in Resources
              PROVE  /\ runBudget[run].reserved[r] = 0 /\ runBudget[run].consumed[r] = 0
                     /\ RunMax[run][r] \in Nat
            <4>1. runBudget[run].reserved = Nothing /\ runBudget[run].consumed = Nothing
                BY DEF Init
            <4>2. RunMax[run][r] \in Nat
                BY MaxTypes DEF Amount
            <4> QED BY <4>1, <4>2 DEF Nothing
        <3> QED BY <2>1, <3>1 DEF Kept
    <2>3. Kept(evaluation, OfRuns(EvalRuns), EvalMax, reservation)
        BY <2>1, MaxTypes DEF Init, Kept, Nothing, Amount
    <2>4. \A cap \in Caps : CapKept(cap, reservation)
        BY <2>1, MaxTypes DEF CapKept
    <2> QED BY <2>2, <2>3, <2>4 DEF SumsInv
<1>2. TypeInv /\ SumsInv /\ [Next]_vars => SumsInv'
    <2> SUFFICES ASSUME TypeInv, SumsInv, [Next]_vars PROVE SumsInv'
        OBVIOUS
    <2>1. Kinds
        BY StepKinds DEF TypeInv
    <2> QED BY <2>1, SumsSame, SumsMade, SumsClosed DEF Kinds, SettlesOne
<1> QED
    BY <1>1, <1>2, TypeInvHolds, PTL DEF Spec

-----------------------------------------------------------------------------

LEMMA SetsMeet ==
    /\ \A runs : /\ InAny(Outstanding, runs) = Outstanding \cap OfRuns(runs)
                 /\ InAny(Charged, runs) = Charged \cap OfRuns(runs)
                 /\ OfRuns(runs) \in SUBSET Id
    /\ \A cap : CountedIn(cap) \in SUBSET Id
BY DEF InAny, Outstanding, Charged, WithStatus, OfRuns, CountedIn

\* The rows of the runs and of the evaluation are the sums of their reservations.
THEOREM RowsAreSums == Spec => []LedgersAgree
<1>1. ASSUME TypeInv, SumsInv PROVE LedgersAgree
    <2>0. BooksOK /\ Filled
        BY <1>1 DEF TypeInv
    <2>1. ASSUME NEW runs, NEW max, NEW row, Kept(row, OfRuns(runs), max, reservation)
          PROVE  IsLedgerOf(row, runs)
        <3>1. ASSUME NEW r \in Resources
              PROVE  /\ row.reserved[r] = Reserved(InAny(Outstanding, runs), r)
                     /\ row.consumed[r] = Spent(InAny(Charged, runs), r)
            <4> DEFINE A == OfRuns(runs)
            <4>1. A \in SUBSET Id /\ InAny(Outstanding, runs) = Outstanding \cap A
                  /\ InAny(Charged, runs) = Charged \cap A
                BY SetsMeet
            <4>2. row.reserved[r] = Held(reservation, A, r) /\ row.consumed[r] = Paid(reservation, A, r)
                BY <2>1 DEF Kept
            <4> HIDE DEF A
            <4>3. /\ Reserved(Outstanding \cap A, r) = Held(reservation, A, r)
                  /\ Spent(Charged \cap A, r) = Paid(reservation, A, r)
                BY <2>0, <4>1, Totals
            <4> QED BY <4>1, <4>2, <4>3, Zenon
        <3> QED BY <3>1 DEF IsLedgerOf
    <2> QED BY <1>1, <2>1 DEF SumsInv, LedgersAgree
<1> QED
    BY <1>1, SumsInvHolds, PTL

\* A run, and the evaluation, never commits more than its limit, beyond what
\* answers used in excess of their own estimates.
THEOREM RunsStayWithinLimits == Spec => []WithinLimits
<1>1. ASSUME TypeInv, SumsInv PROVE WithinLimits
    <2>0. BooksOK /\ Filled
        BY <1>1 DEF TypeInv
    <2>1. ASSUME NEW runs, NEW max, NEW row, Kept(row, OfRuns(runs), max, reservation)
          PROVE  IsWithin(row, max, runs)
        <3>1. ASSUME NEW r \in Resources
              PROVE  row.reserved[r] + row.consumed[r] <= max[r] + Overage(InAny(Charged, runs), r)
            <4> DEFINE A == OfRuns(runs)
            <4>1. A \in SUBSET Id /\ InAny(Charged, runs) = Charged \cap A
                BY SetsMeet
            <4>2. row.reserved[r] + row.consumed[r] <= max[r] + Over(reservation, A, r)
                BY <2>1 DEF Kept
            <4> HIDE DEF A
            <4>3. Overage(Charged \cap A, r) = Over(reservation, A, r)
                BY <2>0, <4>1, Totals
            <4> QED BY <4>1, <4>2, <4>3, Zenon
        <3> QED BY <3>1 DEF IsWithin
    <2> QED BY <1>1, <2>1 DEF SumsInv, WithinLimits
<1> QED
    BY <1>1, SumsInvHolds, PTL

\* Nor does a task or an agent commit more than its cap.
THEOREM CapsAreKept == Spec => []CapsHold
<1>1. ASSUME TypeInv, SumsInv PROVE CapsHold
    <2>0. BooksOK /\ Filled
        BY <1>1 DEF TypeInv
    <2> SUFFICES ASSUME NEW cap \in Caps, NEW r \in Resources
                 PROVE  Reserved(Outstanding \cap CountedIn(cap), r)
                            + Spent(Charged \cap CountedIn(cap), r)
                            <= CapMax[cap][r] + Overage(Charged \cap CountedIn(cap), r)
        BY DEF CapsHold
    <2> DEFINE A == CountedIn(cap)
    <2>1. Held(reservation, A, r) + Paid(reservation, A, r) <= CapMax[cap][r] + Over(reservation, A, r)
        BY <1>1 DEF SumsInv, CapKept
    <2>2. A \in SUBSET Id
        BY SetsMeet
    <2> HIDE DEF A
    <2>3. /\ Reserved(Outstanding \cap A, r) = Held(reservation, A, r)
          /\ Spent(Charged \cap A, r) = Paid(reservation, A, r)
          /\ Overage(Charged \cap A, r) = Over(reservation, A, r)
        BY <2>0, <2>2, Totals
    <2>4. Reserved(Outstanding \cap A, r) + Spent(Charged \cap A, r)
              <= CapMax[cap][r] + Overage(Charged \cap A, r)
        BY <2>1, <2>3, Zenon
    <2> QED BY <2>4 DEF A
<1> QED
    BY <1>1, SumsInvHolds, PTL

-----------------------------------------------------------------------------
(* Days *)

IsPublic(i) == RunOfId(i) \in PublicRuns

\* What is owed to a day, and what its settlements may release of another's:
\* the estimates booked on a day and settled on the day they were created.
OwnOf(res, d) ==
    [i \in Id |-> IF IsPublic(i) /\ res[i].status = "reserved" /\ res[i].booked = d
                  THEN EstimateOf(i)[Cost] ELSE 0]
StrayOf(res, d) ==
    [i \in Id |-> IF /\ IsPublic(i) /\ res[i].status \in {"reconciled", "released"}
                     /\ res[i].created = d /\ res[i].booked # d
                  THEN EstimateOf(i)[Cost] ELSE 0]
BeyondOf(res, d) ==
    [i \in Id |-> IF IsPublic(i) /\ res[i].status = "reconciled" /\ res[i].created = d
                  THEN AtLeastZero(res[i].actual[Cost] - EstimateOf(i)[Cost]) ELSE 0]

Own(res, d) == Sum(OwnOf(res, d))
Stray(res, d) == Sum(StrayOf(res, d))
Beyond(res, d) == Sum(BeyondOf(res, d))

LEMMA DayTypes ==
    ASSUME NEW res \in [Id -> Row], NEW d
    PROVE  /\ OwnOf(res, d) \in [Id -> Nat] /\ StrayOf(res, d) \in [Id -> Nat]
           /\ BeyondOf(res, d) \in [Id -> Nat]
           /\ Own(res, d) \in Nat /\ Stray(res, d) \in Nat /\ Beyond(res, d) \in Nat
           /\ \A i \in Id : EstimateOf(i)[Cost] \in Nat /\ res[i].actual[Cost] \in Nat
<1>2. \A i \in Id : EstimateOf(i)[Cost] \in Nat /\ res[i].actual[Cost] \in Nat
    BY PartTypes, BudgetAssumption
<1>3. \A i \in Id : AtLeastZero(res[i].actual[Cost] - EstimateOf(i)[Cost]) \in Nat
    BY <1>2 DEF AtLeastZero
<1>4. /\ OwnOf(res, d) \in [Id -> Nat] /\ StrayOf(res, d) \in [Id -> Nat]
      /\ BeyondOf(res, d) \in [Id -> Nat]
    BY <1>2, <1>3 DEF OwnOf, StrayOf, BeyondOf
<1> QED
    BY <1>2, <1>4, SumNumber DEF Own, Stray, Beyond

When(P, n) == IF P THEN n ELSE 0

LEMMA MakeDays ==
    ASSUME NEW res \in [Id -> Row], NEW now \in [Id -> Row], NEW i \in Id,
           Makes(res, now, i), NEW d
    PROVE  /\ Own(now, d) = Own(res, d)
                  + When(IsPublic(i) /\ now[i].booked = d, EstimateOf(i)[Cost])
           /\ Stray(now, d) = Stray(res, d)
           /\ Beyond(now, d) = Beyond(res, d)
<1>1. Own(now, d) = Own(res, d) + When(IsPublic(i) /\ now[i].booked = d, EstimateOf(i)[Cost])
    <2> DEFINE f == OwnOf(res, d)
               g == OwnOf(now, d)
               n == When(IsPublic(i) /\ now[i].booked = d, EstimateOf(i)[Cost])
    <2>1. f \in [Id -> Nat] /\ g \in [Id -> Nat]
        BY DayTypes
    <2>2. /\ \A j \in Id \ {i} : g[j] = f[j]
          /\ f[i] = 0 /\ g[i] = n
        BY DEF OwnOf, Makes, When
    <2> HIDE DEF f, g, n
    <2>3. Sum(g) = Sum(f) - f[i] + g[i] /\ Sum(f) \in Nat /\ Sum(g) \in Nat /\ g[i] \in Nat
        BY <2>1, <2>2, ChangeAt
    <2>4. Sum(g) = Sum(f) + n
        BY <2>2, <2>3
    <2> QED BY <2>4 DEF Own, f, g, n
<1>2. StrayOf(now, d) = StrayOf(res, d)
    BY DEF StrayOf, Makes
<1>3. BeyondOf(now, d) = BeyondOf(res, d)
    BY DEF BeyondOf, Makes
<1> QED
    BY <1>1, <1>2, <1>3 DEF Stray, Beyond

LEMMA CloseDays ==
    ASSUME NEW res \in [Id -> Row], NEW now \in [Id -> Row], NEW i \in Id, NEW actual \in Amount,
           Closes(res, now, i, actual),
           now[i].booked = res[i].booked, now[i].created = res[i].created, NEW d
    PROVE  /\ Own(now, d) = Own(res, d)
                  - When(IsPublic(i) /\ res[i].booked = d, EstimateOf(i)[Cost])
           /\ Stray(now, d) = Stray(res, d)
                  + When(IsPublic(i) /\ res[i].created = d /\ res[i].booked # d, EstimateOf(i)[Cost])
           /\ Beyond(now, d) = Beyond(res, d)
                  + When(IsPublic(i) /\ res[i].created = d,
                         AtLeastZero(actual[Cost] - EstimateOf(i)[Cost]))
<1>0. EstimateOf(i)[Cost] \in Nat /\ actual[Cost] \in Nat /\ (actual = Nothing => actual[Cost] = 0)
    BY DayTypes, BudgetAssumption DEF Amount, Nothing
<1>s. now[i].status = "released" => actual[Cost] = 0
    BY <1>0 DEF Closes
<1>z. AtLeastZero(actual[Cost] - EstimateOf(i)[Cost]) \in Nat
      /\ (actual[Cost] = 0 => AtLeastZero(actual[Cost] - EstimateOf(i)[Cost]) = 0)
    BY <1>0 DEF AtLeastZero
<1>1. Own(now, d) = Own(res, d) - When(IsPublic(i) /\ res[i].booked = d, EstimateOf(i)[Cost])
    <2> DEFINE f == OwnOf(res, d)
               g == OwnOf(now, d)
               n == When(IsPublic(i) /\ res[i].booked = d, EstimateOf(i)[Cost])
    <2>1. f \in [Id -> Nat] /\ g \in [Id -> Nat]
        BY DayTypes
    <2>2. /\ \A j \in Id \ {i} : g[j] = f[j]
          /\ f[i] = n /\ g[i] = 0
        BY DEF OwnOf, Closes, When
    <2> HIDE DEF f, g, n
    <2>3. Sum(g) = Sum(f) - f[i] + g[i] /\ Sum(f) \in Nat /\ Sum(g) \in Nat /\ f[i] \in Nat
        BY <2>1, <2>2, ChangeAt
    <2>4. Sum(g) = Sum(f) - n
        BY <2>2, <2>3
    <2> QED BY <2>4 DEF Own, f, g, n
<1>2. Stray(now, d) = Stray(res, d)
          + When(IsPublic(i) /\ res[i].created = d /\ res[i].booked # d, EstimateOf(i)[Cost])
    <2> DEFINE f == StrayOf(res, d)
               g == StrayOf(now, d)
               n == When(IsPublic(i) /\ res[i].created = d /\ res[i].booked # d, EstimateOf(i)[Cost])
    <2>1. f \in [Id -> Nat] /\ g \in [Id -> Nat]
        BY DayTypes
    <2>2. /\ \A j \in Id \ {i} : g[j] = f[j]
          /\ f[i] = 0 /\ g[i] = n
        BY DEF StrayOf, Closes, When
    <2> HIDE DEF f, g, n
    <2>3. Sum(g) = Sum(f) - f[i] + g[i] /\ Sum(f) \in Nat /\ Sum(g) \in Nat /\ g[i] \in Nat
        BY <2>1, <2>2, ChangeAt
    <2>4. Sum(g) = Sum(f) + n
        BY <2>2, <2>3
    <2> QED BY <2>4 DEF Stray, f, g, n
<1>3. Beyond(now, d) = Beyond(res, d)
          + When(IsPublic(i) /\ res[i].created = d,
                 AtLeastZero(actual[Cost] - EstimateOf(i)[Cost]))
    <2> DEFINE f == BeyondOf(res, d)
               g == BeyondOf(now, d)
               a == AtLeastZero(actual[Cost] - EstimateOf(i)[Cost])
               n == When(IsPublic(i) /\ res[i].created = d, a)
    <2>1. f \in [Id -> Nat] /\ g \in [Id -> Nat]
        BY DayTypes
    <2>2. /\ \A j \in Id \ {i} : g[j] = f[j]
          /\ f[i] = 0
        BY DEF BeyondOf, Closes
    <2>3. g[i] = n
        BY <1>s, <1>z DEF BeyondOf, Closes, When
    <2> HIDE DEF f, g, n
    <2>4. Sum(g) = Sum(f) - f[i] + g[i] /\ Sum(f) \in Nat /\ Sum(g) \in Nat /\ g[i] \in Nat
        BY <2>1, <2>2, ChangeAt
    <2>5. Sum(g) = Sum(f) + n
        BY <2>2, <2>3, <2>4
    <2> QED BY <2>5 DEF Beyond, f, g, n
<1> QED
    BY <1>1, <1>2, <1>3

LEMMA CapIsLargest ==
    LargestCap \in Nat /\ \A run \in PublicRuns : DailyCap[run] <= LargestCap
<1> DEFINE S == {0} \cup {DailyCap[run] : run \in PublicRuns}
<1>1. S \in SUBSET Nat /\ S \in SUBSET Int /\ S # {}
    BY BudgetAssumption
<1>2. IsFiniteSet(S)
    <2>1. IsFiniteSet({DailyCap[run] : run \in PublicRuns})
        <3> DEFINE caps == {DailyCap[run] : run \in PublicRuns}
        <3>1. DailyCap \in Surjection(PublicRuns, caps)
            BY BudgetAssumption DEF Surjection
        <3> HIDE DEF caps
        <3>2. IsFiniteSet(caps)
            BY <3>1, BudgetAssumption, FS_Surjection
        <3> QED BY <3>2 DEF caps
    <2>2. IsFiniteSet({0})
        BY FS_Singleton
    <2> QED BY <2>1, <2>2, FS_Union
<1>3. \A run \in PublicRuns : DailyCap[run] \in S
    OBVIOUS
<1>4. LargestCap = CHOOSE x \in S : \A y \in S : x >= y
    BY DEF LargestCap, Max
<1> HIDE DEF S
<1>5. \E x \in S : \A y \in S : x >= y
    BY <1>1, <1>2, LargestExists
<1>6. LargestCap \in S /\ \A y \in S : LargestCap >= y
    BY <1>4, <1>5
<1> QED
    BY <1>1, <1>3, <1>6

\* What is owed to a day is reserved there, but for what settlements of others
\* have released of it; what is owed and paid stays within the largest cap.
DayInv ==
    \A d \in 1..Days :
        /\ Own(reservation, d) <= daily[d].reserved + Stray(reservation, d)
        /\ Own(reservation, d) + daily[d].consumed
               <= LargestCap + Beyond(reservation, d) + Stray(reservation, d)

LEMMA DayMade ==
    ASSUME TypeInv, DayInv, NEW c \in Calls, Reserve(c)
    PROVE  DayInv'
<1> DEFINE i == <<c, gateway[c].retry>>
           run == RunOf[c]
<1>1. BooksOK /\ RestOK
    BY DEF TypeInv
<1>2. /\ i \in Id
      /\ EstimateOf(i) = Estimate[c] /\ RunOfId(i) = run
      /\ reservation \in [Id -> Row] /\ reservation' \in [Id -> Row]
      /\ Makes(reservation, reservation', i)
    BY MakeStep
<1>3. PICK b \in BookingDays :
         /\ run \in PublicRuns => DailyAllows(run, b, Estimate[c][Cost])
         /\ reservation' = [reservation EXCEPT ![i] =
               [status |-> "reserved", actual |-> Nothing, booked |-> b, created |-> today]]
         /\ daily' = IF run \in PublicRuns
                    THEN [daily EXCEPT ![b] = [DailyRow(run, b) EXCEPT !.reserved = @ + Estimate[c][Cost]]]
                    ELSE daily
    BY DEF Reserve
<1>4. b \in 1..Days
    BY <1>1, BudgetAssumption DEF BookingDays, RestOK
<1>c. LargestCap \in Nat /\ (run \in PublicRuns => DailyCap[run] \in Nat /\ DailyCap[run] <= LargestCap)
    BY CapIsLargest, BudgetAssumption
<1> HIDE DEF i, run
<1>5. reservation'[i].booked = b
    BY <1>2, <1>3
<1>6. SUFFICES ASSUME NEW d \in 1..Days
      PROVE  /\ Own(reservation', d) <= daily'[d].reserved + Stray(reservation', d)
             /\ Own(reservation', d) + daily'[d].consumed
                    <= LargestCap + Beyond(reservation', d) + Stray(reservation', d)
    BY CapIsLargest DEF DayInv, LargestCap
<1> DEFINE e == EstimateOf(i)[Cost]
<1>7. /\ Own(reservation', d) = Own(reservation, d) + When(IsPublic(i) /\ b = d, e)
      /\ Stray(reservation', d) = Stray(reservation, d)
      /\ Beyond(reservation', d) = Beyond(reservation, d)
    BY <1>2, <1>5, MakeDays
<1>8. /\ Own(reservation, d) \in Nat /\ Stray(reservation, d) \in Nat
      /\ Beyond(reservation, d) \in Nat /\ e \in Nat
    BY <1>2, DayTypes
<1>9. /\ Own(reservation, d) <= daily[d].reserved + Stray(reservation, d)
      /\ Own(reservation, d) + daily[d].consumed
             <= LargestCap + Beyond(reservation, d) + Stray(reservation, d)
    BY DEF DayInv
<1>10. daily[d].max \in Nat \cup {-1} /\ daily[d].reserved \in Nat /\ daily[d].consumed \in Nat
    BY <1>1 DEF BooksOK, DayRow
<1>11. CASE run \in PublicRuns /\ b = d
    <2> DEFINE row == DailyRow(run, d)
    <2>1. row.reserved = daily[d].reserved /\ row.consumed = daily[d].consumed
        BY <1>1 DEF DailyRow, BooksOK, DayRow
    <2>2. row.max <= DailyCap[run] /\ row.max \in Int
        <3>1. row.max = IF daily[d].max = -1 THEN DailyCap[run]
                        ELSE Smaller(daily[d].max, DailyCap[run])
            BY <1>1 DEF DailyRow, BooksOK, DayRow
        <3> QED BY <3>1, <1>10, <1>11, <1>c DEF Smaller
    <2>3. row.reserved + row.consumed + e <= row.max
        BY <1>2, <1>3, <1>11 DEF DailyAllows
    <2>4. daily' = [daily EXCEPT ![d] = [row EXCEPT !.reserved = @ + e]]
        BY <1>2, <1>3, <1>11
    <2>r. row \in DayRow
        BY <1>1, <1>11, <1>c DEF DailyRow, BooksOK, DayRow, Smaller
    <2> HIDE DEF row
    <2>5. daily'[d].reserved = row.reserved + e /\ daily'[d].consumed = row.consumed
        BY <1>1, <2>4, <2>r DEF BooksOK, DayRow
    <2>6. When(IsPublic(i) /\ b = d, e) = e
        BY <1>2, <1>11 DEF When, IsPublic
    <2> HIDE DEF e
    <2> QED BY <1>c, <1>7, <1>8, <1>9, <1>10, <1>11, <2>1, <2>2, <2>3, <2>5, <2>6
<1>12. CASE ~(run \in PublicRuns /\ b = d)
    <2>1. When(IsPublic(i) /\ b = d, e) = 0
        BY <1>2, <1>12 DEF When, IsPublic
    <2>2. daily'[d] = daily[d]
        BY <1>1, <1>3, <1>4, <1>12 DEF BooksOK
    <2> HIDE DEF e
    <2> QED BY <1>7, <1>8, <1>9, <1>10, <2>1, <2>2
<1> QED
    BY <1>11, <1>12

LEMMA DayClosed ==
    ASSUME TypeInv, DayInv, NEW i \in Id, NEW status, NEW actual, Settles(i, status, actual)
    PROVE  DayInv'
<1>1. BooksOK /\ Filled
    BY DEF TypeInv
<1>2. /\ actual \in Amount
      /\ reservation \in [Id -> Row] /\ reservation' \in [Id -> Row]
      /\ Closes(reservation, reservation', i, actual)
    BY CloseStep
<1>3. /\ reservation' = [reservation EXCEPT ![i].status = status, ![i].actual = actual]
      /\ daily' = IF IsPublic(i) THEN MoveDay(i, actual) ELSE daily
      /\ reservation[i].status = "reserved"
    BY DEF Settles, Settle, Open, IsPublic
<1>4. /\ reservation'[i].booked = reservation[i].booked
      /\ reservation'[i].created = reservation[i].created
    BY <1>2, <1>3 DEF Row
<1>c. LargestCap \in Nat
    BY CapIsLargest
<1>6. SUFFICES ASSUME NEW d \in 1..Days
      PROVE  /\ Own(reservation', d) <= daily'[d].reserved + Stray(reservation', d)
             /\ Own(reservation', d) + daily'[d].consumed
                    <= LargestCap + Beyond(reservation', d) + Stray(reservation', d)
    BY DEF DayInv, LargestCap
<1> DEFINE e == EstimateOf(i)[Cost]
           a == actual[Cost]
           own == When(IsPublic(i) /\ reservation[i].booked = d, e)
           stray == When(IsPublic(i) /\ reservation[i].created = d /\ reservation[i].booked # d, e)
           beyond == When(IsPublic(i) /\ reservation[i].created = d, AtLeastZero(a - e))
<1>7. /\ Own(reservation', d) = Own(reservation, d) - own
      /\ Stray(reservation', d) = Stray(reservation, d) + stray
      /\ Beyond(reservation', d) = Beyond(reservation, d) + beyond
    BY <1>2, <1>4, CloseDays
<1>8. /\ Own(reservation, d) \in Nat /\ Stray(reservation, d) \in Nat
      /\ Beyond(reservation, d) \in Nat /\ e \in Nat
    BY <1>2, DayTypes
<1>a. a \in Nat
    BY <1>2, BudgetAssumption DEF Amount
<1>9. /\ Own(reservation, d) <= daily[d].reserved + Stray(reservation, d)
      /\ Own(reservation, d) + daily[d].consumed
             <= LargestCap + Beyond(reservation, d) + Stray(reservation, d)
    BY DEF DayInv
<1>10. daily[d].reserved \in Nat /\ daily[d].consumed \in Nat
    BY <1>1 DEF BooksOK, DayRow
<1>z. AtLeastZero(a - e) \in Nat /\ a - e <= AtLeastZero(a - e)
    BY <1>8, <1>a DEF AtLeastZero
<1>w. own \in Nat /\ stray \in Nat /\ beyond \in Nat
    BY <1>8, <1>z DEF When
<1>11. CASE daily'[d] = daily[d]
    <2> HIDE DEF own, stray, beyond
    <2> QED BY <1>c, <1>7, <1>8, <1>9, <1>10, <1>w, <1>11
<1>12. CASE /\ IsPublic(i) /\ reservation[i].created = d
            /\ daily'[d].reserved = AtLeastZero(daily[d].reserved - e)
            /\ daily'[d].consumed = daily[d].consumed + a
    <2>1. daily'[d].reserved \in Nat /\ daily'[d].reserved >= daily[d].reserved - e
        BY <1>8, <1>10, <1>12 DEF AtLeastZero
    <2>2. beyond \in Nat /\ a - e <= beyond
        BY <1>12, <1>z DEF When
    <2>3. own + stray = e
        BY <1>12, <1>8 DEF When
    <2> HIDE DEF own, stray, beyond, e, a
    <2> QED BY <1>c, <1>7, <1>8, <1>9, <1>10, <1>12, <1>a, <1>w, <2>1, <2>2, <2>3
<1>13. \/ daily'[d] = daily[d]
       \/ /\ IsPublic(i) /\ reservation[i].created = d
          /\ daily'[d].reserved = AtLeastZero(daily[d].reserved - e)
          /\ daily'[d].consumed = daily[d].consumed + a
    <2>1. CASE ~IsPublic(i) \/ daily[reservation[i].created].max = -1
        BY <1>3, <2>1 DEF MoveDay
    <2>2. CASE IsPublic(i) /\ daily[reservation[i].created].max # -1
        <3> DEFINE b == reservation[i].created
                   n == AtLeastZero(daily[b].reserved - e)
                   m == daily[b].consumed + a
        <3>1. daily' = [daily EXCEPT ![b].reserved = n, ![b].consumed = m]
            BY <1>3, <2>2 DEF MoveDay
        <3>2. CASE b # d
            <4> HIDE DEF b, n, m
            <4> QED BY <1>1, <3>1, <3>2 DEF BooksOK
        <3>3. CASE b = d
            <4> HIDE DEF n, m
            <4>1. daily'[d].reserved = n /\ daily'[d].consumed = m
                BY <1>1, <3>1, <3>3 DEF BooksOK, DayRow
            <4> QED BY <2>2, <3>3, <4>1 DEF n, m
        <3> QED BY <3>2, <3>3
    <2> QED BY <2>1, <2>2
<1> QED
    BY <1>11, <1>12, <1>13

LEMMA DayInvHolds == Spec => [](TypeInv /\ DayInv)
<1>1. Init => DayInv
    <2> SUFFICES ASSUME Init PROVE DayInv
        OBVIOUS
    <2>1. \A i \in Id : reservation[i].status = "none"
        BY DEF Init, NoReservation
    <2>2. ASSUME NEW d \in 1..Days
          PROVE  Own(reservation, d) = 0 /\ Stray(reservation, d) = 0 /\ Beyond(reservation, d) = 0
        <3>1. /\ OwnOf(reservation, d) = [i \in Id |-> 0]
              /\ StrayOf(reservation, d) = [i \in Id |-> 0]
              /\ BeyondOf(reservation, d) = [i \in Id |-> 0]
            BY <2>1 DEF OwnOf, StrayOf, BeyondOf
        <3> QED BY <3>1, SumOfZeros DEF Own, Stray, Beyond
    <2>3. \A d \in 1..Days : daily[d].reserved = 0 /\ daily[d].consumed = 0
        BY DEF Init
    <2> QED BY <2>2, <2>3, CapIsLargest DEF DayInv
<1>2. TypeInv /\ DayInv /\ [Next]_vars => DayInv'
    <2> SUFFICES ASSUME TypeInv, DayInv, [Next]_vars PROVE DayInv'
        OBVIOUS
    <2>1. Kinds
        BY StepKinds DEF TypeInv
    <2>2. ASSUME Quiet PROVE DayInv'
        <3>1. reservation' = reservation /\ daily' = daily
            BY <2>2 DEF Quiet
        <3> QED BY <3>1 DEF DayInv, LargestCap
    <2> QED BY <2>1, <2>2, DayMade, DayClosed DEF Kinds, SettlesOne
<1> QED
    BY <1>1, <1>2, TypeInvHolds, PTL DEF Spec

LEMMA DayTotals ==
    ASSUME BooksOK, NEW d
    PROVE  LET own     == {i \in InAny(Outstanding, PublicRuns) : reservation[i].booked = d}
               settled == Public(Charged \cup WithStatus("released"), d)
           IN /\ Reserved(own, Cost) = Own(reservation, d)
              /\ Reserved(Misbooked(settled), Cost) = Stray(reservation, d)
              /\ Overage(Public(Charged, d), Cost) = Beyond(reservation, d)
<1> DEFINE own == {i \in InAny(Outstanding, PublicRuns) : reservation[i].booked = d}
           settled == Public(Charged \cup WithStatus("released"), d)
           stray == Misbooked(settled)
           paid == Public(Charged, d)
<1>0. /\ reservation \in [Id -> Row]
      /\ \A i \in Id : EstimateOf(i)[Cost] \in Nat /\ reservation[i].actual[Cost] \in Nat
    BY DayTypes DEF BooksOK
<1>f. IsFiniteSet(Id)
    BY IdFinite
<1>1. Reserved(own, Cost) = Own(reservation, d)
    <2> DEFINE f == [i \in Id |-> EstimateOf(i)[Cost]]
               g == OwnOf(reservation, d)
    <2>1. own \in SUBSET Id
        BY DEF InAny, Outstanding, WithStatus
    <2>2. \A i \in own : f[i] \in Int
        BY <1>0, <2>1
    <2>3. \A i \in Id : g[i] = IF i \in own THEN f[i] ELSE 0
        BY DEF OwnOf, InAny, Outstanding, WithStatus, IsPublic
    <2>4. Reserved(own, Cost) = SumFunctionOnSet(f, own)
        BY DEF Reserved, Total
    <2> HIDE DEF f, g, own
    <2>5. SumFunctionOnSet(f, own) = SumFunctionOnSet(g, Id)
        BY <1>f, <2>1, <2>2, <2>3, SumOfPart
    <2> QED BY <2>4, <2>5 DEF Own, Sum, g
<1>2. Reserved(stray, Cost) = Stray(reservation, d)
    <2> DEFINE f == [i \in Id |-> EstimateOf(i)[Cost]]
               g == StrayOf(reservation, d)
    <2>1. stray \in SUBSET Id
        BY DEF Misbooked, Public, Charged, WithStatus
    <2>2. \A i \in stray : f[i] \in Int
        BY <1>0, <2>1
    <2>3. \A i \in Id : g[i] = IF i \in stray THEN f[i] ELSE 0
        BY DEF StrayOf, Misbooked, Public, Charged, WithStatus, IsPublic
    <2>4. Reserved(stray, Cost) = SumFunctionOnSet(f, stray)
        BY DEF Reserved, Total
    <2> HIDE DEF f, g, stray
    <2>5. SumFunctionOnSet(f, stray) = SumFunctionOnSet(g, Id)
        BY <1>f, <2>1, <2>2, <2>3, SumOfPart
    <2> QED BY <2>4, <2>5 DEF Stray, Sum, g
<1>3. Overage(paid, Cost) = Beyond(reservation, d)
    <2> DEFINE f == [i \in Id |-> AtLeastZero(reservation[i].actual[Cost] - EstimateOf(i)[Cost])]
               g == BeyondOf(reservation, d)
    <2>1. paid \in SUBSET Id
        BY DEF Public, Charged, WithStatus
    <2>2. \A i \in paid : f[i] \in Int
        BY <1>0, <2>1 DEF AtLeastZero
    <2>3. \A i \in Id : g[i] = IF i \in paid THEN f[i] ELSE 0
        BY DEF BeyondOf, Public, Charged, WithStatus, IsPublic
    <2>4. Overage(paid, Cost) = SumFunctionOnSet(f, paid)
        BY DEF Overage, Total
    <2> HIDE DEF f, g, paid
    <2>5. SumFunctionOnSet(f, paid) = SumFunctionOnSet(g, Id)
        BY <1>f, <2>1, <2>2, <2>3, SumOfPart
    <2> QED BY <2>4, <2>5 DEF Beyond, Sum, g
<1> QED
    BY <1>1, <1>2, <1>3

\* What a day owes and has paid stays within the largest daily cap, but for usage
\* beyond the estimates and for reservations booked just before midnight.
THEOREM DaysStayWithinCap == Spec => []DayWithinCap
<1>1. ASSUME TypeInv, DayInv PROVE DayWithinCap
    <2>1. BooksOK
        BY <1>1 DEF TypeInv
    <2> SUFFICES ASSUME NEW d \in 1..Days
                 PROVE  LET own     == {i \in InAny(Outstanding, PublicRuns) : reservation[i].booked = d}
                            settled == Public(Charged \cup WithStatus("released"), d)
                        IN Reserved(own, Cost) + daily[d].consumed
                               <= LargestCap + Overage(Public(Charged, d), Cost)
                                             + Reserved(Misbooked(settled), Cost)
        BY DEF DayWithinCap
    <2>2. Own(reservation, d) + daily[d].consumed
              <= LargestCap + Beyond(reservation, d) + Stray(reservation, d)
        BY <1>1 DEF DayInv
    <2> QED BY <2>1, <2>2, DayTotals, Zenon
<1> QED
    BY <1>1, DayInvHolds, PTL

-----------------------------------------------------------------------------
(* Rows that are settled *)

\* The usage event of a request is pending as long as its reservation is open.
UsageFits ==
    \A i \in Id : /\ reservation[i].status = "none" => usage[i].status = "none"
                  /\ Open(i) <=> usage[i].status = "pending"

\* What a step may do to the rows of the requests.
Settled(i) ==
    /\ Open(i)
    /\ \E status \in {"released", "reconciled"}, actual \in Amount :
           reservation' = [reservation EXCEPT ![i].status = status, ![i].actual = actual]
    /\ \E status \in {"complete", "reconciled", "unreconcilable"} : UsageIs(i, status)
Awaits(i) ==
    /\ Open(i) /\ UNCHANGED reservation
    /\ usage' = [usage EXCEPT ![i].generation = TRUE]
Made(i) ==
    /\ reservation[i].status = "none"
    /\ \E row \in Row : row.status = "reserved" /\ reservation' = [reservation EXCEPT ![i] = row]
    /\ UsageIs(i, "pending")
RowsMove ==
    UNCHANGED <<reservation, usage>> \/ \E i \in Id : Settled(i) \/ Awaits(i) \/ Made(i)

LEMMA SettlementMoves ==
    ASSUME NEW i \in Id
    PROVE  /\ UNCHANGED books => RowsMove
           /\ Release(i) => RowsMove
           /\ \A u \in Usages, status \in {"complete", "reconciled"} :
                  SettleActual(i, u, status) => RowsMove
           /\ SettleEstimate(i) => RowsMove
           /\ KeepGeneration(i) => RowsMove
<1>0. /\ Nothing \in Amount /\ EstimateOf(i) \in Amount
      /\ \A u \in Usages : u \in Amount
    BY AmountTypes
<1>1. UNCHANGED books => RowsMove
    BY DEF books, RowsMove
<1>2. ASSUME NEW status \in {"released", "reconciled"}, NEW actual \in Amount,
             NEW end \in {"complete", "reconciled", "unreconcilable"},
             Open(i), Settle(i, status, actual), UsageIs(i, end)
      PROVE  RowsMove
    BY <1>2 DEF Settle, Settled, RowsMove
<1>3. Release(i) => RowsMove
    BY <1>0, <1>1, <1>2 DEF Release
<1>4. ASSUME NEW u \in Usages, NEW status \in {"complete", "reconciled"},
             SettleActual(i, u, status)
      PROVE  RowsMove
    BY <1>0, <1>1, <1>2, <1>4 DEF SettleActual
<1>5. SettleEstimate(i) => RowsMove
    BY <1>0, <1>1, <1>2 DEF SettleEstimate
<1>6. KeepGeneration(i) => RowsMove
    BY DEF KeepGeneration, Awaits, RowsMove
<1> QED
    BY <1>1, <1>3, <1>4, <1>5, <1>6

LEMMA EveryStepMoves ==
    ASSUME TypeInv, [Next]_vars
    PROVE  RowsMove
<1>i. /\ BooksOK /\ RestOK
      /\ \A c \in Calls : gateway[c].retry \in 1..MaxAttempts /\ IdOf(c) \in Id
    BY DEF TypeInv, RestOK, GatewayRow, IdOf, Id
<1>1. ASSUME NEW c \in Calls, Reserve(c) PROVE RowsMove
    <2> DEFINE i == <<c, gateway[c].retry>>
    <2>1. i \in Id /\ reservation[i].status = "none"
        BY <1>i, <1>1 DEF IdOf, Reserve, TypeInv, Unused
    <2>2. PICK d \in BookingDays :
              reservation' = [reservation EXCEPT ![i] =
                 [status |-> "reserved", actual |-> Nothing, booked |-> d, created |-> today]]
        BY <1>1 DEF Reserve
    <2> DEFINE row == [status |-> "reserved", actual |-> Nothing, booked |-> d, created |-> today]
    <2>3. row \in Row /\ row.status = "reserved"
        BY <1>i, AmountTypes, BudgetAssumption
        DEF BookingDays, RestOK, Row, ReservationStatus
    <2>4. UsageIs(i, "pending")
        BY <1>1 DEF Reserve, UsageIs
    <2> QED BY <2>1, <2>2, <2>3, <2>4 DEF Made, RowsMove
<1>2. ASSUME NEW c \in Calls, Answered(c) \/ Errored(c) PROVE RowsMove
    BY <1>i, <1>2, SettlementMoves DEF Answered, Errored
<1>3. ASSUME NEW c \in Calls, Refuse(c) \/ ReportSuccess(c) \/ ReportFailure(c) \/ WorkerDies(c)
      PROVE  RowsMove
    BY <1>3 DEF Refuse, ReportSuccess, ReportFailure, WorkerDies, books, RowsMove
<1>4. ASSUME NEW i \in Id, Scheduler(i) PROVE RowsMove
    <2>1. CASE ReadOverdue(i) \/ ClaimPending(i) \/ FetchFails(i)
        BY <2>1 DEF ReadOverdue, ClaimPending, FetchFails, books, RowsMove
    <2>2. CASE SettleOverdue(i) \/ Reconcile(i) \/ GiveUp(i)
        BY <2>2, SettlementMoves DEF SettleOverdue, Reconcile, GiveUp
    <2> QED BY <1>4, <2>1, <2>2 DEF Scheduler
<1>5. ASSUME NEW run \in Runs, CloseRun(run) \/ ReopenRun(run) PROVE RowsMove
    BY <1>5 DEF CloseRun, ReopenRun, RowsMove
<1>6. CASE ResetAccount \/ NextDay \/ UNCHANGED vars
    BY <1>6 DEF ResetAccount, NextDay, vars, books, RowsMove
<1> QED
    BY <1>1, <1>2, <1>3, <1>4, <1>5, <1>6 DEF Next, Gateway

RowStep ==
    \A i \in Id : /\ ReservationRule(reservation[i], reservation'[i])
                  /\ UsageRule(usage[i], usage'[i])

LEMMA RowsFit ==
    ASSUME TypeInv, UsageFits, RowsMove
    PROVE  UsageFits' /\ RowStep
<1>0. reservation \in [Id -> Row] /\ usage \in [Id -> UsageRow]
    BY DEF TypeInv, BooksOK
<1> USE DEF UsageFits, RowStep, Open, ReservationRule, UsageRule, Final
<1>1. CASE UNCHANGED <<reservation, usage>>
    BY <1>1
<1>2. ASSUME NEW i \in Id, Settled(i) PROVE UsageFits' /\ RowStep
    BY <1>0, <1>2 DEF Settled, UsageIs, Row, UsageRow
<1>3. ASSUME NEW i \in Id, Awaits(i) PROVE UsageFits' /\ RowStep
    BY <1>0, <1>3 DEF Awaits, Row, UsageRow
<1>4. ASSUME NEW i \in Id, Made(i) PROVE UsageFits' /\ RowStep
    BY <1>0, <1>4 DEF Made, UsageIs, Row, UsageRow
<1> QED BY <1>1, <1>2, <1>3, <1>4 DEF RowsMove

\* No answer, sweep or reconciliation that comes late changes a reservation or
\* a usage event that is settled: the triggers of the database refuse it, and
\* the transaction, which nobody repeats, would be lost with it.
THEOREM SettledRowsStay ==
    Spec => [][\A i \in Id : /\ ReservationRule(reservation[i], reservation'[i])
                             /\ UsageRule(usage[i], usage'[i])]_vars
<1>1. Init => UsageFits
    BY DEF Init, UsageFits, Open, NoReservation
<1>2. TypeInv /\ UsageFits /\ [Next]_vars => UsageFits' /\ RowStep
    BY EveryStepMoves, RowsFit
<1>3. Spec => [][RowStep]_vars
    BY <1>1, <1>2, TypeInvHolds, PTL DEF Spec
<1> QED BY <1>3 DEF RowStep
=============================================================================
