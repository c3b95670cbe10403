--------------------------- MODULE RuntimeProofs ----------------------------
(***************************************************************************)
(* Proofs about module Runtime, for every workflow graph, every retry      *)
(* policy, every number of relays and every combination of faults.         *)
(***************************************************************************)
EXTENDS Runtime, SequenceTheorems, FiniteSetTheorems, TLAPS

Statuses == [Tasks -> TaskStatus]
BudgetStatus == {"active", "exhausted", "closed"}

-----------------------------------------------------------------------------
(* The dependency evaluation *)

\* Skipping tasks keeps every status a status.
LEMMA SkipType ==
    ASSUME NEW ts \in Statuses, NEW S
    PROVE  Skip(ts, S) \in Statuses
BY DEF Skip, Statuses, TaskStatus

\* The evaluation returns a status for every task, and moves no task but a
\* blocked one, which it may queue or skip.
LEMMA EvaluateMoves ==
    ASSUME NEW ts \in Statuses, NEW u
    PROVE  /\ EvaluateDependents(ts, u) \in Statuses
           /\ \A d \in Tasks :
                 \/ EvaluateDependents(ts, u)[d] = ts[d]
                 \/ /\ ts[d] = "blocked"
                    /\ EvaluateDependents(ts, u)[d] \in {"queued", "skipped"}
<1> DEFINE S == SkippedBy(ts, u)
           mid == Skip(ts, S)
           res == [d \in Tasks |-> IF /\ mid[d] = "blocked"
                                      /\ Deps[d] \cap ({u} \cup S) # {}
                                      /\ Ready(mid, d)
                                   THEN "queued" ELSE mid[d]]
<1>1. mid \in Statuses
    BY SkipType
<1>2. EvaluateDependents(ts, u) = res
    BY DEF EvaluateDependents
<1>3. \A d \in S : d \in Tasks /\ ts[d] = "blocked"
    BY DEF SkippedBy, Blocked
<1>4. \A d \in Tasks : mid[d] = IF d \in S THEN "skipped" ELSE ts[d]
    BY DEF Skip
<1> HIDE DEF mid, S
<1>5. res \in Statuses
    BY <1>1 DEF Statuses, TaskStatus
<1>6. \A d \in Tasks : \/ res[d] = ts[d]
                       \/ ts[d] = "blocked" /\ res[d] \in {"queued", "skipped"}
    BY <1>3, <1>4
<1> QED
    BY <1>2, <1>5, <1>6

\* Reopening skipped descendants keeps statuses and moves only skipped tasks.
LEMMA ResetMoves ==
    ASSUME NEW ts \in Statuses, NEW u
    PROVE  /\ ResetSkipped(ts, u) \in Statuses
           /\ \A d \in Tasks :
                 \/ ResetSkipped(ts, u)[d] = ts[d]
                 \/ ts[d] = "skipped" /\ ResetSkipped(ts, u)[d] = "blocked"
<1>1. \A d \in Tasks : ResetSkipped(ts, u)[d] =
            IF ts[d] = "skipped" /\ d \in Descendants(u) THEN "blocked" ELSE ts[d]
    BY DEF ResetSkipped
<1>2. ResetSkipped(ts, u) \in Statuses
    BY DEF ResetSkipped, Statuses, TaskStatus
<1> QED
    BY <1>1, <1>2

-----------------------------------------------------------------------------
(* What the transactions share *)

\* A finalisation leaves statuses, and moves only blocked and queued tasks,
\* to cancelled.
LEMMA CommitType ==
    ASSUME NEW rs \in RunStatus, NEW ts \in Statuses, NEW b \in BudgetStatus,
           report \in {"none", "complete", "partial"},
           Commit(rs, ts, b)
    PROVE  /\ run' \in RunStatus
           /\ task' \in Statuses
           /\ budget' \in BudgetStatus
           /\ \A d \in Tasks : \/ task'[d] = ts[d]
                               \/ /\ ts[d] \in {"blocked", "queued"}
                                  /\ task'[d] = "cancelled"
<1>1. run' \in RunStatus
    BY DEF Commit, FinalRun, RunStatus
<1>2. task' \in Statuses
    BY DEF Commit, FinalTasks, Statuses, TaskStatus
<1>3. budget' \in BudgetStatus
    BY DEF Commit, ClosedBudget, BudgetStatus
<1>4. \A d \in Tasks : \/ task'[d] = ts[d]
                       \/ /\ ts[d] \in {"blocked", "queued"}
                          /\ task'[d] = "cancelled"
    BY DEF Commit, FinalTasks
<1> QED
    BY <1>1, <1>2, <1>3, <1>4

\* Ending an attempt rewrites that attempt and nothing else.
LEMMA EndAttemptType ==
    ASSUME attempts \in [Tasks -> Seq(AttemptStatus)],
           NEW m \in Delivery, m[2] <= Current(m[1]),
           NEW s \in AttemptStatus,
           EndAttempt(m, s)
    PROVE  /\ attempts' \in [Tasks -> Seq(AttemptStatus)]
           /\ \A t \in Tasks : Len(attempts'[t]) = Current(t)
           /\ \A t \in Tasks : t # m[1] => attempts'[t] = attempts[t]
           /\ \A n \in 1..Current(m[1]) :
                 attempts'[m[1]][n] = IF n = m[2] THEN s ELSE attempts[m[1]][n]
<1> DEFINE old == attempts[m[1]]
           new == [old EXCEPT ![m[2]] = s]
<1>1. m[1] \in Tasks /\ m[2] \in 1..Len(old)
    BY DEF Delivery, Current
<1>2. old \in Seq(AttemptStatus)
    BY <1>1
<1>3. /\ new \in Seq(AttemptStatus)
      /\ Len(new) = Len(old)
      /\ \A j \in 1..Len(old) : new[j] = IF j = m[2] THEN s ELSE old[j]
    BY <1>1, <1>2, ExceptSeq
<1>4. attempts' = [attempts EXCEPT ![m[1]] = new]
    BY DEF EndAttempt
<1> HIDE DEF new
<1>5. attempts' \in [Tasks -> Seq(AttemptStatus)]
    BY <1>1, <1>3, <1>4
<1>6. attempts'[m[1]] = new /\ \A t \in Tasks : t # m[1] => attempts'[t] = attempts[t]
    BY <1>1, <1>4
<1> QED
    BY <1>1, <1>3, <1>5, <1>6 DEF Current

\* Queueing tasks adds at most the dispatch of the next attempt.
LEMMA QueueType ==
    ASSUME TypeOK, Numbering, NEW ts, QueueDispatches(ts)
    PROVE  /\ dispatch' \in [Tasks -> Seq(OutboxStatus)]
           /\ \A t \in Tasks : /\ Len(dispatch'[t]) \in {Current(t), Current(t) + 1}
                               /\ Len(dispatch'[t]) >= Len(dispatch[t])
<1> SUFFICES ASSUME NEW t \in Tasks
             PROVE  /\ dispatch'[t] \in Seq(OutboxStatus)
                    /\ Len(dispatch'[t]) \in {Current(t), Current(t) + 1}
                    /\ Len(dispatch'[t]) >= Len(dispatch[t])
    BY DEF QueueDispatches
<1> DEFINE rows == dispatch[t]
           more == Append(rows, "pending")
<1>1. rows \in Seq(OutboxStatus) /\ "pending" \in OutboxStatus
    BY DEF TypeOK, OutboxStatus
<1>2. more \in Seq(OutboxStatus) /\ Len(more) = Len(rows) + 1
    BY <1>1, AppendProperties
<1>3. Len(rows) \in Nat /\ Len(rows) \in {Current(t), Current(t) + 1}
    BY <1>1, LenProperties DEF Numbering
<1>4. Current(t) \in Nat
    BY LenProperties DEF TypeOK, Current
<1>5. dispatch'[t] = rows \/ (Len(rows) = Current(t) /\ dispatch'[t] = more)
    BY DEF QueueDispatches, WithDispatch
<1> HIDE DEF more, rows
<1> QED
    BY <1>1, <1>2, <1>3, <1>4, <1>5 DEF rows

\* Rewriting the status of one dispatch row keeps the rows well formed.
LEMMA RowType ==
    ASSUME dispatch \in [Tasks -> Seq(OutboxStatus)],
           NEW t \in Tasks, NEW n \in 1..Len(dispatch[t]), NEW s \in OutboxStatus
    PROVE  /\ [dispatch EXCEPT ![t][n] = s] \in [Tasks -> Seq(OutboxStatus)]
           /\ \A u \in Tasks : Len([dispatch EXCEPT ![t][n] = s][u]) = Len(dispatch[u])
<1> DEFINE old == dispatch[t]
           new == [old EXCEPT ![n] = s]
<1>1. new \in Seq(OutboxStatus) /\ Len(new) = Len(old)
    BY ExceptSeq
<1>2. [dispatch EXCEPT ![t][n] = s] = [dispatch EXCEPT ![t] = new]
    OBVIOUS
<1> HIDE DEF new
<1> QED
    BY <1>1, <1>2

-----------------------------------------------------------------------------
(* Types and numbering *)

TypeInv == TypeOK /\ Numbering

\* What a transaction that ends an attempt or a task leaves in the tables.
Recorded ==
    /\ run' \in RunStatus
    /\ task' \in Statuses
    /\ budget' \in BudgetStatus
    /\ attempts' \in [Tasks -> Seq(AttemptStatus)]
    /\ dispatch' \in [Tasks -> Seq(OutboxStatus)]
    /\ \A t \in Tasks : /\ Len(attempts'[t]) = Current(t)
                        /\ Len(dispatch'[t]) \in {Current(t), Current(t) + 1}
                        /\ Len(dispatch'[t]) >= Len(dispatch[t])

\* Nothing enters the broker, a worker or the relay.
Drained ==
    /\ relaying' \subseteq relaying
    /\ broker' \subseteq broker
    /\ exec' \subseteq exec
    /\ revokes' \subseteq revokes

\* Lengths are naturals and every index in flight names a row.
LEMMA Indexes ==
    ASSUME TypeInv
    PROVE  /\ \A t \in Tasks : Current(t) \in Nat /\ Len(dispatch[t]) \in Nat
           /\ \A m \in exec \cup revokes : /\ m \in Delivery
                                           /\ m[2] \in 1..Current(m[1])
           /\ \A m \in broker : m \in Delivery /\ m[2] \in 1..Len(dispatch[m[1]])
           /\ \A r \in relaying : /\ r.msg \in Delivery
                                  /\ r.msg[2] \in 1..Len(dispatch[r.msg[1]])
           /\ \A m \in Delivery : m[1] \in Tasks /\ m[2] \in Nat \ {0} /\ m = <<m[1], m[2]>>
<1>1. \A t \in Tasks : Current(t) \in Nat /\ Len(dispatch[t]) \in Nat
    BY LenProperties DEF TypeInv, TypeOK, Current
<1>2. \A m \in Delivery : m[1] \in Tasks /\ m[2] \in Nat \ {0} /\ m = <<m[1], m[2]>>
    BY DEF Delivery
<1>3. \A m \in exec \cup revokes : m \in Delivery /\ m[2] \in 1..Current(m[1])
    BY <1>1, <1>2 DEF TypeInv, TypeOK, Numbering
<1>4. \A m \in broker : m \in Delivery /\ m[2] \in 1..Len(dispatch[m[1]])
    BY <1>1, <1>2 DEF TypeInv, TypeOK, Numbering
<1>5. \A r \in relaying : r.msg \in Delivery /\ r.msg[2] \in 1..Len(dispatch[r.msg[1]])
    BY <1>1, <1>2 DEF TypeInv, TypeOK, Numbering
<1> QED
    BY <1>1, <1>2, <1>3, <1>4, <1>5

\* A transaction that only ends things keeps the type invariant.
LEMMA RecordedType ==
    ASSUME TypeInv, Recorded, Drained, UNCHANGED fixedVars
    PROVE  TypeInv'
<1>1. TypeOK'
    BY DEF TypeInv, TypeOK, Recorded, Drained, fixedVars, Statuses, BudgetStatus
<1>2. ASSUME NEW t \in Tasks
      PROVE  Len(dispatch'[t]) \in {Len(attempts'[t]), Len(attempts'[t]) + 1}
    BY DEF Recorded, Current
<1>3. \A r \in relaying' : r.msg[2] <= Len(dispatch'[r.msg[1]])
    <2> TAKE r \in relaying'
    <2>1. r.msg \in Delivery /\ r.msg[1] \in Tasks /\ r.msg[2] \in 1..Len(dispatch[r.msg[1]])
        BY Indexes DEF Drained
    <2>2. /\ Len(dispatch'[r.msg[1]]) \in Nat
          /\ Len(dispatch[r.msg[1]]) \in Nat
          /\ Len(dispatch'[r.msg[1]]) >= Len(dispatch[r.msg[1]])
        BY <2>1, Indexes, LenProperties DEF Recorded
    <2> QED BY <2>1, <2>2
<1>4. \A m \in broker' : m[2] <= Len(dispatch'[m[1]])
    <2> TAKE m \in broker'
    <2>1. m \in Delivery /\ m[1] \in Tasks /\ m[2] \in 1..Len(dispatch[m[1]])
        BY Indexes DEF Drained
    <2>2. /\ Len(dispatch'[m[1]]) \in Nat
          /\ Len(dispatch[m[1]]) \in Nat
          /\ Len(dispatch'[m[1]]) >= Len(dispatch[m[1]])
        BY <2>1, Indexes, LenProperties DEF Recorded
    <2> QED BY <2>1, <2>2
<1>5. \A m \in exec' \cup revokes' : m[2] <= Len(attempts'[m[1]])
    BY Indexes DEF Drained, Recorded, Current
<1> QED
    BY <1>1, <1>2, <1>3, <1>4, <1>5 DEF TypeInv, Numbering, Current

\* Moving one task keeps the statuses.
LEMMA MoveType ==
    ASSUME task \in Statuses, NEW t \in Tasks, NEW s \in TaskStatus
    PROVE  [task EXCEPT ![t] = s] \in Statuses
BY DEF Statuses

\* The transaction of a discarded result.
LEMMA DiscardRecorded ==
    ASSUME TypeInv, NEW m \in Delivery, m[2] \in 1..Current(m[1]), Discard(m)
    PROVE  Recorded
<1> DEFINE ts == [task EXCEPT ![m[1]] =
                     IF @ \in {"running", "cancelling"} THEN "cancelled" ELSE @]
<1>1. ts \in Statuses
    BY DEF TypeInv, TypeOK, Statuses, Delivery, TaskStatus
<1>2. Commit(run, ts, budget)
    BY DEF Discard
<1> HIDE DEF ts
<1>3. run' \in RunStatus /\ task' \in Statuses /\ budget' \in BudgetStatus
    BY <1>1, <1>2, CommitType DEF TypeInv, TypeOK, BudgetStatus
<1>4. m[2] <= Current(m[1]) /\ "cancelled" \in AttemptStatus
    BY Indexes DEF AttemptStatus
<1>5. /\ attempts' \in [Tasks -> Seq(AttemptStatus)]
      /\ \A t \in Tasks : Len(attempts'[t]) = Current(t)
    BY <1>4, EndAttemptType DEF TypeInv, TypeOK, Discard
<1>6. /\ dispatch' = dispatch
      /\ \A t \in Tasks : /\ Len(dispatch[t]) \in {Current(t), Current(t) + 1}
                          /\ Len(dispatch[t]) \in Nat
    BY Indexes DEF Discard, TypeInv, Numbering
<1> QED
    BY <1>3, <1>5, <1>6 DEF Recorded, TypeInv, TypeOK

\* The transaction that ends an attempt, moves the task to `ended' or through
\* the evaluation of its dependents, and queues what that freed.
LEMMA EndedRecorded ==
    ASSUME TypeInv, NEW m \in Delivery, m[2] \in 1..Current(m[1]),
           NEW s \in AttemptStatus, NEW ts \in Statuses,
           EndAttempt(m, s), QueueDispatches(ts),
           \/ Commit(run, ts, budget)
           \/ task' = ts /\ UNCHANGED <<run, budget>>
    PROVE  Recorded
<1>1. run' \in RunStatus /\ task' \in Statuses /\ budget' \in BudgetStatus
    BY CommitType DEF TypeInv, TypeOK, BudgetStatus
<1>2. m[2] <= Current(m[1])
    BY Indexes
<1>3. /\ attempts' \in [Tasks -> Seq(AttemptStatus)]
      /\ \A t \in Tasks : Len(attempts'[t]) = Current(t)
    BY <1>2, EndAttemptType DEF TypeInv, TypeOK
<1>4. /\ dispatch' \in [Tasks -> Seq(OutboxStatus)]
      /\ \A t \in Tasks : /\ Len(dispatch'[t]) \in {Current(t), Current(t) + 1}
                          /\ Len(dispatch'[t]) >= Len(dispatch[t])
    BY QueueType DEF TypeInv
<1> QED
    BY <1>1, <1>3, <1>4 DEF Recorded

LEMMA SucceedRecorded ==
    ASSUME TypeInv, NEW m \in Delivery, m[2] \in 1..Current(m[1]), Succeed(m)
    PROVE  Recorded
<1> DEFINE ended == [task EXCEPT ![m[1]] = "succeeded"]
           ts == EvaluateDependents(ended, m[1])
<1>1. ended \in Statuses
    BY DEF TypeInv, TypeOK, Statuses, Delivery, TaskStatus
<1>2. ts \in Statuses
    BY <1>1, EvaluateMoves
<1>3. EndAttempt(m, "succeeded") /\ Commit(run, ts, budget) /\ QueueDispatches(ts)
    BY DEF Succeed
<1>4. "succeeded" \in AttemptStatus
    BY DEF AttemptStatus
<1> QED
    BY <1>2, <1>3, <1>4, EndedRecorded

LEMMA FailRecorded ==
    ASSUME TypeInv, NEW m \in Delivery, m[2] \in 1..Current(m[1]),
           NEW timeout \in BOOLEAN, NEW transient \in BOOLEAN, NEW late,
           Fail(m, timeout, transient, late)
    PROVE  Recorded
<1> DEFINE retry == Retryable(m, transient, late)
           ended == [task EXCEPT ![m[1]] = FailureStatus(timeout)]
           ts == IF retry THEN [task EXCEPT ![m[1]] = "queued"]
                 ELSE EvaluateDependents(ended, m[1])
<1>1. FailureStatus(timeout) \in TaskStatus /\ FailureStatus(timeout) \in AttemptStatus
    BY DEF FailureStatus, TaskStatus, AttemptStatus
<1>2. ended \in Statuses /\ [task EXCEPT ![m[1]] = "queued"] \in Statuses
    BY <1>1, MoveType DEF TypeInv, TypeOK, Statuses, Delivery, TaskStatus
<1>3. ts \in Statuses
    BY <1>2, EvaluateMoves
<1>4. /\ EndAttempt(m, FailureStatus(timeout))
      /\ QueueDispatches(ts)
      /\ \/ Commit(run, ts, budget)
         \/ task' = ts /\ UNCHANGED <<run, budget>>
    BY DEF Fail
<1> HIDE DEF ts
<1> QED
    BY <1>1, <1>3, <1>4, EndedRecorded

LEMMA RecoverRecorded ==
    ASSUME TypeInv, NEW t \in Tasks, NEW late, RecoverStale(t, late)
    PROVE  Recorded
<1> DEFINE live == <<t, Current(t)>>
           retry == Recoverable(t, late)
           ended == [task EXCEPT ![t] = "failed"]
           ts == IF retry THEN [task EXCEPT ![t] = "queued"]
                 ELSE EvaluateDependents(ended, t)
<1>1. live \in Delivery /\ live[1] = t /\ live[2] \in 1..Current(live[1])
    BY Indexes DEF RecoverStale, Stale, HasRunning, Delivery
<1>2. CASE run = "cancelling" \/ task[t] = "cancelling"
    <2>1. Discard(live)
        BY <1>2 DEF RecoverStale
    <2> HIDE DEF live
    <2> QED BY <1>1, <2>1, DiscardRecorded
<1>3. CASE ~(run = "cancelling" \/ task[t] = "cancelling")
    <2>1. EndAttempt(live, "failed") /\ QueueDispatches(ts) /\ Commit(run, ts, budget)
        BY <1>3 DEF RecoverStale
    <2>2. ended \in Statuses /\ [task EXCEPT ![t] = "queued"] \in Statuses
        BY DEF TypeInv, TypeOK, Statuses, TaskStatus
    <2>3. ts \in Statuses
        BY <2>2, EvaluateMoves
    <2>4. "failed" \in AttemptStatus
        BY DEF AttemptStatus
    <2> HIDE DEF ts, live
    <2> QED BY <1>1, <2>1, <2>3, <2>4, EndedRecorded
<1> QED
    BY <1>2, <1>3

LEMMA RejectRecorded ==
    ASSUME TypeInv, NEW m \in Delivery, NEW s \in TaskStatus, NEW b \in BudgetStatus,
           Reject(m, s, b)
    PROVE  Recorded
<1> DEFINE ended == [task EXCEPT ![m[1]] = s]
           ts == EvaluateDependents(ended, m[1])
<1>1. ended \in Statuses
    BY DEF TypeInv, TypeOK, Statuses, Delivery
<1>2. ts \in Statuses
    BY <1>1, EvaluateMoves
<1>3. Commit(run, ts, b) /\ QueueDispatches(ts) /\ attempts' = attempts
    BY DEF Reject
<1> HIDE DEF ts
<1>4. run' \in RunStatus /\ task' \in Statuses /\ budget' \in BudgetStatus
    BY <1>2, <1>3, CommitType DEF TypeInv, TypeOK
<1>5. /\ dispatch' \in [Tasks -> Seq(OutboxStatus)]
      /\ \A t \in Tasks : /\ Len(dispatch'[t]) \in {Current(t), Current(t) + 1}
                          /\ Len(dispatch'[t]) >= Len(dispatch[t])
    BY <1>3, QueueType DEF TypeInv
<1> QED
    BY <1>3, <1>4, <1>5 DEF Recorded, TypeInv, TypeOK, Current

\* A relay that rewrites one row, or none, keeps the type invariant.
LEMMA RelayType ==
    ASSUME TypeInv,
           NEW m \in Delivery, m[2] \in 1..Len(dispatch[m[1]]),
           NEW s \in OutboxStatus,
           dispatch' = dispatch \/ dispatch' = [dispatch EXCEPT ![m[1]][m[2]] = s],
           NEW step \in RelayStep,
           relaying' \subseteq relaying \cup {[msg |-> m, step |-> step]},
           broker' \subseteq broker \cup {m},
           UNCHANGED <<run, task, attempts, budget, exec, revokes, fixedVars>>
    PROVE  TypeInv'
<1>1. /\ dispatch' \in [Tasks -> Seq(OutboxStatus)]
      /\ \A t \in Tasks : Len(dispatch'[t]) = Len(dispatch[t])
    <2>1. dispatch \in [Tasks -> Seq(OutboxStatus)] /\ m[1] \in Tasks
        BY DEF TypeInv, TypeOK, Delivery
    <2> DEFINE new == [dispatch EXCEPT ![m[1]][m[2]] = s]
    <2>2. /\ new \in [Tasks -> Seq(OutboxStatus)]
          /\ \A u \in Tasks : Len(new[u]) = Len(dispatch[u])
        BY <2>1, RowType
    <2>3. dispatch' = dispatch \/ dispatch' = new
        OBVIOUS
    <2> HIDE DEF new
    <2> QED BY <2>1, <2>2, <2>3
<1>2. TypeOK'
    BY <1>1 DEF TypeInv, TypeOK, fixedVars
<1>3. \A t \in Tasks : Len(dispatch'[t]) \in {Len(attempts'[t]), Len(attempts'[t]) + 1}
    BY <1>1 DEF TypeInv, Numbering, Current
<1>4. \A r \in relaying' : r.msg[2] <= Len(dispatch'[r.msg[1]])
    <2> TAKE r \in relaying'
    <2>1. r.msg \in Delivery /\ r.msg[1] \in Tasks /\ r.msg[2] \in 1..Len(dispatch[r.msg[1]])
        BY Indexes
    <2>2. Len(dispatch[r.msg[1]]) \in Nat
        BY <2>1, Indexes
    <2> QED BY <1>1, <2>1, <2>2
<1>5. \A n \in broker' : n[2] <= Len(dispatch'[n[1]])
    <2> TAKE n \in broker'
    <2>1. n \in Delivery /\ n[1] \in Tasks /\ n[2] \in 1..Len(dispatch[n[1]])
        BY Indexes
    <2>2. Len(dispatch[n[1]]) \in Nat
        BY <2>1, Indexes
    <2> QED BY <1>1, <2>1, <2>2
<1>6. \A n \in exec' \cup revokes' : n[2] <= Len(attempts'[n[1]])
    BY DEF TypeInv, Numbering, Current
<1> QED
    BY <1>2, <1>3, <1>4, <1>5, <1>6 DEF TypeInv, Numbering, Current

\* A step that leaves the rows alone, and takes messages only from among
\* those in the broker, in execution or being revoked.
LEMMA QuietType ==
    ASSUME TypeInv,
           UNCHANGED <<run, task, maxAttempts, attempts, dispatch, clar, budget, retries>>,
           relaying' \subseteq relaying,
           broker' \subseteq broker \cup exec,
           exec' \subseteq exec,
           revokes' \subseteq revokes,
           report' \in {"none", "complete", "partial"},
           runLate' \in BOOLEAN
    PROVE  TypeInv'
<1>1. TypeOK'
    BY DEF TypeInv, TypeOK
<1>2. \A m \in exec : m[2] <= Len(dispatch[m[1]])
    <2> TAKE m \in exec
    <2>1. m[1] \in Tasks /\ m[2] \in 1..Current(m[1]) /\ Current(m[1]) \in Nat
        BY Indexes
    <2>2. Len(dispatch[m[1]]) \in {Current(m[1]), Current(m[1]) + 1}
        BY <2>1 DEF TypeInv, Numbering
    <2> QED BY <2>1, <2>2
<1>3. Numbering'
    BY <1>2 DEF TypeInv, Numbering, Current
<1> QED
    BY <1>1, <1>3 DEF TypeInv

LEMMA TypeInit == Init => TypeInv
<1> SUFFICES ASSUME Init PROVE TypeInv
    OBVIOUS
<1>1. <<>> \in Seq(AttemptStatus) /\ <<>> \in Seq(OutboxStatus) /\ Len(<<>>) = 0
    OBVIOUS
<1>2. <<"pending">> \in Seq(OutboxStatus) /\ Len(<<"pending">>) = 1
    BY DEF OutboxStatus
<1>3. TypeOK
    BY <1>1, <1>2, RuntimeAssumption DEF Init, TypeOK, RunStatus, TaskStatus
<1>4. Numbering
    BY <1>1, <1>2 DEF Init, Numbering, Current
<1> QED
    BY <1>3, <1>4 DEF TypeInv

LEMMA TypeRelay == TypeInv /\ Relay => TypeInv'
<1> SUFFICES ASSUME TypeInv, Relay PROVE TypeInv'
    OBVIOUS
<1> USE DEF queueVars
<1>1. ASSUME NEW t \in Tasks, NEW n \in DOMAIN dispatch[t], RelayClaim(t, n)
      PROVE  TypeInv'
    <2> DEFINE m == <<t, n>>
    <2>1. n \in 1..Len(dispatch[t])
        BY <1>1, LenProperties DEF TypeInv, TypeOK
    <2>2. m \in Delivery /\ m[1] = t /\ m[2] = n
        BY <2>1, Indexes DEF Delivery
    <2>3. "processing" \in OutboxStatus /\ "claimed" \in RelayStep
        BY DEF OutboxStatus, RelayStep
    <2>4. /\ dispatch' = [dispatch EXCEPT ![t][n] = "processing"]
          /\ relaying' = relaying \cup {[msg |-> m, step |-> "claimed"]}
          /\ UNCHANGED <<run, task, attempts, budget, broker, exec, revokes, fixedVars>>
        BY <1>1 DEF RelayClaim
    <2> HIDE DEF m
    <2> QED BY <2>1, <2>2, <2>3, <2>4, RelayType
<1>2. ASSUME NEW r \in relaying,
             RelayCheck(r) \/ RelaySend(r) \/ RelayMark(r) \/ RelayFail(r) \/ RelayCrash(r)
      PROVE  TypeInv'
    <2>1. /\ r.msg \in Delivery
          /\ r.msg[2] \in 1..Len(dispatch[r.msg[1]])
        BY Indexes
    <2>2. \A step : [r EXCEPT !.step = step] = [msg |-> r.msg, step |-> step]
        BY DEF TypeInv, TypeOK
    <2>3. {"claimed", "cleared", "done"} = RelayStep /\ {"pending", "published"} \subseteq OutboxStatus
        BY DEF RelayStep, OutboxStatus
    <2>4. CASE RelayCheck(r)
        BY <2>1, <2>2, <2>3, <2>4, RelayType DEF RelayCheck, RelayMoves
    <2>5. CASE RelaySend(r)
        BY <2>1, <2>2, <2>3, <2>5, RelayType DEF RelaySend, RelayMoves
    <2>6. CASE RelayMark(r)
        BY <2>1, <2>3, <2>6, RelayType DEF RelayMark, Marked
    <2>7. CASE RelayFail(r)
        BY <2>1, <2>3, <2>7, RelayType DEF RelayFail, Marked
    <2>8. CASE RelayCrash(r)
        BY <2>1, <2>3, <2>8, RelayType DEF RelayCrash
    <2> QED BY <1>2, <2>4, <2>5, <2>6, <2>7, <2>8
<1>3. ASSUME NEW m \in revokes, RelayRevoke(m)
      PROVE  TypeInv'
    BY <1>3, QuietType DEF RelayRevoke, fixedVars, TypeInv, TypeOK
<1> QED
    BY <1>1, <1>2, <1>3 DEF Relay

LEMMA TypeReceive ==
    ASSUME TypeInv, NEW m \in broker, Receive(m)
    PROVE  TypeInv'
<1> USE DEF queueVars
<1>m. /\ m \in Delivery /\ m[1] \in Tasks /\ m[2] \in 1..Len(dispatch[m[1]])
      /\ m[2] \in Nat /\ Current(m[1]) \in Nat
    BY Indexes
<1>1. CASE IgnoreDelivery(m) \/ AbortClaim(m)
    BY <1>1, QuietType DEF IgnoreDelivery, AbortClaim, fixedVars, TypeInv, TypeOK
<1>2. CASE DeliverToCancelled(m)
    <2> DEFINE ts == [task EXCEPT ![m[1]] = "cancelled"]
    <2>1. ts \in Statuses
        BY <1>m, MoveType DEF TypeInv, TypeOK, Statuses, TaskStatus
    <2>2. Commit(run, ts, budget) \/ UNCHANGED <<run, task, budget>>
        BY <1>2 DEF DeliverToCancelled
    <2> HIDE DEF ts
    <2>3. run' \in RunStatus /\ task' \in Statuses /\ budget' \in BudgetStatus
        BY <2>1, <2>2, CommitType DEF TypeInv, TypeOK, BudgetStatus, Statuses
    <2>4. /\ UNCHANGED <<attempts, dispatch>>
          /\ Drained
          /\ UNCHANGED fixedVars
        BY <1>2 DEF DeliverToCancelled, Drained
    <2>5. Recorded
        BY <2>3, <2>4, Indexes DEF Recorded, TypeInv, TypeOK, Numbering, Current
    <2> QED BY <2>4, <2>5, RecordedType
<1>3. CASE RejectForBudget(m) \/ RejectLate(m)
    <2>1. PICK s \in TaskStatus, b \in BudgetStatus : Reject(m, s, b)
        BY <1>3 DEF RejectForBudget, RejectLate, TaskStatus, BudgetStatus, TypeInv, TypeOK
    <2>2. Recorded
        BY <1>m, <2>1, RejectRecorded
    <2>3. Drained /\ UNCHANGED fixedVars
        BY <2>1 DEF Reject, Drained
    <2> QED BY <2>2, <2>3, RecordedType
<1>4. CASE ClaimTask(m)
    <2> DEFINE t == m[1]
               new == Append(attempts[t], "running")
    <2>1. /\ new \in Seq(AttemptStatus)
          /\ Len(new) = Current(t) + 1
        BY <1>m, AppendProperties DEF TypeInv, TypeOK, AttemptStatus, Current
    <2>2. attempts' = [attempts EXCEPT ![t] = new]
        BY <1>4 DEF ClaimTask
    <2> HIDE DEF new
    <2>3. /\ attempts' \in [Tasks -> Seq(AttemptStatus)]
          /\ \A u \in Tasks : Len(attempts'[u]) = IF u = t THEN Current(u) + 1 ELSE Current(u)
        BY <1>m, <2>1, <2>2 DEF TypeInv, TypeOK, Current
    <2>4. /\ task' \in [Tasks -> TaskStatus]
          /\ run' \in RunStatus
          /\ broker' \subseteq broker
          /\ exec' = exec \cup {m}
          /\ UNCHANGED <<dispatch, budget, relaying, revokes, fixedVars>>
        BY <1>4 DEF ClaimTask, TypeInv, TypeOK, TaskStatus, RunStatus
    <2>5. m[2] = Current(t) + 1
        BY <1>4 DEF ClaimTask, Claimable
    <2>6. TypeOK'
        BY <1>m, <2>3, <2>4 DEF TypeInv, TypeOK, fixedVars
    <2>7. \A u \in Tasks : Len(dispatch'[u]) \in {Len(attempts'[u]), Len(attempts'[u]) + 1}
        BY <1>m, <2>3, <2>4, <2>5, Indexes DEF TypeInv, Numbering
    <2>8. \A n \in exec' \cup revokes' : n[2] <= Len(attempts'[n[1]])
        <3> TAKE n \in exec' \cup revokes'
        <3>1. n = m \/ n \in exec \cup revokes
            BY <2>4
        <3>2. CASE n = m
            BY <1>m, <2>3, <2>5, <3>2
        <3>3. CASE n \in exec \cup revokes
            <4>1. n[1] \in Tasks /\ n[2] \in 1..Current(n[1]) /\ Current(n[1]) \in Nat
                BY <3>3, Indexes
            <4> QED BY <2>3, <4>1
        <3> QED BY <3>1, <3>2, <3>3
    <2>9. Numbering'
        BY <2>4, <2>7, <2>8 DEF TypeInv, Numbering, Current
    <2> QED BY <2>6, <2>9 DEF TypeInv
<1> QED
    BY <1>1, <1>2, <1>3, <1>4 DEF Receive

LEMMA TypeFinish ==
    ASSUME TypeInv, NEW m \in exec, Finish(m)
    PROVE  TypeInv'
<1>m. m \in Delivery /\ m[1] \in Tasks /\ m[2] \in 1..Current(m[1])
    BY Indexes
<1>a. ASSUME Acknowledge(m) PROVE Drained
    BY <1>a DEF Acknowledge, Drained
<1>1. CASE FinishSuccess(m)
    <2>1. Recorded
        BY <1>1, <1>m, DiscardRecorded, SucceedRecorded DEF FinishSuccess
    <2> QED BY <1>1, <1>a, <2>1, RecordedType DEF FinishSuccess
<1>2. CASE PauseForProduct(m)
    <2>1. m[2] <= Current(m[1]) /\ "succeeded" \in AttemptStatus
        BY <1>m, Indexes DEF AttemptStatus
    <2>2. /\ attempts' \in [Tasks -> Seq(AttemptStatus)]
          /\ \A t \in Tasks : Len(attempts'[t]) = Current(t)
        BY <1>2, <1>m, <2>1, EndAttemptType DEF PauseForProduct, TypeInv, TypeOK
    <2>3. /\ task' \in [Tasks -> TaskStatus]
          /\ run' \in RunStatus
          /\ clar' \in {"none", "pending", "answered", "expired", "cancelled"}
          /\ Drained
          /\ UNCHANGED <<maxAttempts, dispatch, budget, report, runLate, retries>>
        BY <1>2, <1>a DEF PauseForProduct, TypeInv, TypeOK, TaskStatus, RunStatus
    <2>4. TypeOK'
        BY <2>2, <2>3 DEF TypeInv, TypeOK, Drained
    <2>5. Numbering'
        BY <2>2, <2>3, Indexes DEF TypeInv, Numbering, Current, Drained
    <2> QED BY <2>4, <2>5 DEF TypeInv
<1>3. CASE PauseRefused(m) \/ LateResult(m) \/ AbortCompletion(m)
    BY <1>3, QuietType DEF PauseRefused, LateResult, AbortCompletion, Acknowledge,
       fixedVars, TypeInv, TypeOK
<1>4. ASSUME NEW timeout \in BOOLEAN, NEW transient \in BOOLEAN, NEW late \in LateChoices,
             FinishFailure(m, timeout, transient, late)
      PROVE  TypeInv'
    <2>1. Recorded
        BY <1>4, <1>m, DiscardRecorded, FailRecorded DEF FinishFailure
    <2> QED BY <1>4, <1>a, <2>1, RecordedType DEF FinishFailure
<1>5. CASE FinishCancelled(m)
    <2>1. Recorded
        BY <1>5, <1>m, DiscardRecorded DEF FinishCancelled
    <2> QED BY <1>5, <1>a, <2>1, RecordedType DEF FinishCancelled
<1>6. ASSUME NEW late \in LateChoices, SoftLimit(m, late)
      PROVE  TypeInv'
    <2> DEFINE live == <<m[1], Current(m[1])>>
    <2>1. CASE HasRunning(m[1])
        <3>1. live \in Delivery /\ live[1] = m[1] /\ live[2] \in 1..Current(live[1])
            BY <1>m, <2>1, Indexes DEF HasRunning, Delivery
        <3>2. Discard(live) \/ Fail(live, TRUE, TRUE, late)
            BY <1>6, <2>1 DEF SoftLimit
        <3> HIDE DEF live
        <3>3. Recorded
            BY <3>1, <3>2, DiscardRecorded, FailRecorded
        <3> QED BY <1>6, <1>a, <3>3, RecordedType DEF SoftLimit
    <2>2. CASE ~HasRunning(m[1])
        BY <1>6, <2>2, QuietType DEF SoftLimit, Acknowledge, fixedVars, TypeInv, TypeOK
    <2> QED BY <2>1, <2>2
<1> QED
    BY <1>1, <1>2, <1>3, <1>4, <1>5, <1>6 DEF Finish

LEMMA TypeWorker == TypeInv /\ Worker => TypeInv'
<1> SUFFICES ASSUME TypeInv, Worker PROVE TypeInv'
    OBVIOUS
<1>1. ASSUME NEW m \in exec, PublishReport(m) PROVE TypeInv'
    BY <1>1, QuietType DEF PublishReport, queueVars, TypeInv, TypeOK
<1>2. ASSUME NEW m \in exec, Redeliver(m) PROVE TypeInv'
    BY <1>2, QuietType DEF Redeliver, fixedVars, TypeInv, TypeOK
<1>3. ASSUME NEW m \in exec, NEW requeued \in BOOLEAN, Crash(m, requeued) PROVE TypeInv'
    BY <1>3, QuietType DEF Crash, fixedVars, TypeInv, TypeOK
<1> QED
    BY <1>1, <1>2, <1>3, TypeReceive, TypeFinish DEF Worker

LEMMA TypeRecovery == TypeInv /\ Recovery => TypeInv'
<1> SUFFICES ASSUME TypeInv, Recovery PROVE TypeInv'
    OBVIOUS
<1> USE DEF queueVars
<1>1. ASSUME NEW t \in Tasks, NEW late \in LateChoices, RecoverStale(t, late)
      PROVE  TypeInv'
    <2>1. Recorded
        BY <1>1, RecoverRecorded
    <2>2. Drained /\ UNCHANGED fixedVars
        BY <1>1 DEF RecoverStale, Drained
    <2> QED BY <2>1, <2>2, RecordedType
<1>2. CASE RepairRun
    <2>1. /\ dispatch' \in [Tasks -> Seq(OutboxStatus)]
          /\ \A t \in Tasks : /\ Len(dispatch'[t]) \in {Current(t), Current(t) + 1}
                              /\ Len(dispatch'[t]) >= Len(dispatch[t])
        <3> SUFFICES ASSUME NEW t \in Tasks
                     PROVE  /\ dispatch'[t] \in Seq(OutboxStatus)
                            /\ Len(dispatch'[t]) \in {Current(t), Current(t) + 1}
                            /\ Len(dispatch'[t]) >= Len(dispatch[t])
            BY <1>2 DEF RepairRun, TypeInv, TypeOK
        <3> DEFINE rows == dispatch[t]
                   more == Append(rows, "pending")
        <3>1. rows \in Seq(OutboxStatus) /\ "pending" \in OutboxStatus
            BY DEF TypeInv, TypeOK, OutboxStatus
        <3>2. more \in Seq(OutboxStatus) /\ Len(more) = Len(rows) + 1
            BY <3>1, AppendProperties
        <3>3. /\ Len(rows) \in {Current(t), Current(t) + 1}
              /\ Len(rows) \in Nat /\ Current(t) \in Nat
            BY Indexes DEF TypeInv, Numbering
        <3>4. dispatch'[t] = rows \/ (Len(rows) = Current(t) /\ dispatch'[t] = more)
            BY <1>2 DEF RepairRun, WithDispatch
        <3> HIDE DEF more, rows
        <3> QED BY <3>1, <3>2, <3>3, <3>4 DEF rows
    <2>2. run' \in RunStatus /\ task' \in Statuses /\ budget' \in BudgetStatus
        BY <1>2, CommitType DEF RepairRun, TypeInv, TypeOK, BudgetStatus, Statuses
    <2>3. attempts' = attempts /\ Drained /\ UNCHANGED fixedVars
        BY <1>2 DEF RepairRun, Drained
    <2>4. Recorded
        BY <2>1, <2>2, <2>3 DEF Recorded, TypeInv, TypeOK, Current
    <2> QED BY <2>3, <2>4, RecordedType
<1>3. CASE ExpireClarification
    <2>1. TypeOK'
        BY <1>3 DEF ExpireClarification, ExpiredStatus, ClosedBudget, TypeInv, TypeOK,
           TaskStatus, RunStatus
    <2>2. Numbering'
        BY <1>3 DEF ExpireClarification, TypeInv, Numbering, Current
    <2> QED BY <2>1, <2>2 DEF TypeInv
<1> QED
    BY <1>1, <1>2, <1>3 DEF Recovery

LEMMA TypeOperator == TypeInv /\ OneLiveAttempt /\ Operator => TypeInv'
<1> SUFFICES ASSUME TypeInv, OneLiveAttempt, Operator PROVE TypeInv'
    OBVIOUS
<1> USE DEF queueVars
<1>1. CASE AnswerProduct
    <2>1. PICK g \in Gate :
            LET ts == EvaluateDependents([task EXCEPT ![g] = "succeeded"], g)
            IN /\ clar' = "answered"
               /\ run' = "running"
               /\ task' = ts
               /\ QueueDispatches(ts)
               /\ UNCHANGED <<maxAttempts, attempts, budget, report, runLate, retries,
                              queueVars>>
        BY <1>1 DEF AnswerProduct
    <2>2. [task EXCEPT ![g] = "succeeded"] \in Statuses
        BY MoveType, RuntimeAssumption DEF TypeInv, TypeOK, Statuses, TaskStatus
    <2>3. task' \in Statuses
        BY <2>1, <2>2, EvaluateMoves
    <2>4. /\ dispatch' \in [Tasks -> Seq(OutboxStatus)]
          /\ \A t \in Tasks : /\ Len(dispatch'[t]) \in {Current(t), Current(t) + 1}
                              /\ Len(dispatch'[t]) >= Len(dispatch[t])
        BY <2>1, QueueType DEF TypeInv
    <2>5. TypeOK'
        BY <2>1, <2>3, <2>4 DEF TypeInv, TypeOK, Statuses, RunStatus
    <2>6. \A r \in relaying : r.msg[2] <= Len(dispatch'[r.msg[1]])
        <3> TAKE r \in relaying
        <3>1. r.msg[1] \in Tasks /\ r.msg[2] \in 1..Len(dispatch[r.msg[1]])
            BY Indexes
        <3>2. Len(dispatch'[r.msg[1]]) \in Nat /\ Len(dispatch[r.msg[1]]) \in Nat
            BY <2>4, <3>1, Indexes, LenProperties
        <3> QED BY <2>4, <3>1, <3>2
    <2>7. \A m \in broker : m[2] <= Len(dispatch'[m[1]])
        <3> TAKE m \in broker
        <3>1. m[1] \in Tasks /\ m[2] \in 1..Len(dispatch[m[1]])
            BY Indexes
        <3>2. Len(dispatch'[m[1]]) \in Nat /\ Len(dispatch[m[1]]) \in Nat
            BY <2>4, <3>1, Indexes, LenProperties
        <3> QED BY <2>4, <3>1, <3>2
    <2>8. Numbering'
        BY <2>1, <2>4, <2>6, <2>7 DEF TypeInv, Numbering, Current
    <2> QED BY <2>5, <2>8 DEF TypeInv
<1>2. CASE RequestCancellation
    <2> DEFINE ts == [t \in Tasks |-> CancelledStatus(task[t])]
               sent == {<<t, Current(t)>> : t \in {u \in Tasks : task[u] = "running"}}
    <2>1. ts \in Statuses
        BY DEF CancelledStatus, TypeInv, TypeOK, Statuses, TaskStatus
    <2>2. /\ Commit("cancelling", ts, budget)
          /\ revokes' = revokes \cup sent
          /\ clar' \in {clar, "cancelled"}
          /\ UNCHANGED <<maxAttempts, attempts, dispatch, report, runLate, retries,
                         relaying, broker, exec>>
        BY <1>2 DEF RequestCancellation
    <2>3. \A m \in sent : m \in Delivery /\ m[2] <= Current(m[1])
        <3> SUFFICES ASSUME NEW t \in Tasks, task[t] = "running"
                     PROVE  <<t, Current(t)>> \in Delivery /\ Current(t) <= Current(t)
            OBVIOUS
        <3>1. HasRunning(t) /\ Current(t) \in Nat
            BY Indexes DEF OneLiveAttempt
        <3> QED BY <3>1 DEF HasRunning, Delivery
    <2> HIDE DEF ts, sent
    <2>4. run' \in RunStatus /\ task' \in Statuses /\ budget' \in BudgetStatus
        BY <2>1, <2>2, CommitType DEF TypeInv, TypeOK, BudgetStatus, RunStatus
    <2>5. TypeOK'
        BY <2>2, <2>3, <2>4 DEF TypeInv, TypeOK, Statuses, BudgetStatus
    <2>6. Numbering'
        BY <2>2, <2>3 DEF TypeInv, Numbering, Current
    <2> QED BY <2>5, <2>6 DEF TypeInv
<1>3. ASSUME NEW t \in Tasks, RetryTask(t)
      PROVE  TypeInv'
    <2> DEFINE rows == dispatch[t]
               new == Rearmed(rows, Current(t))
    <2>1. Current(t) \in Nat /\ Len(rows) \in Nat /\ Len(rows) \in {Current(t), Current(t) + 1}
        BY Indexes DEF TypeInv, Numbering
    <2>2. rows \in Seq(OutboxStatus) /\ "pending" \in OutboxStatus
        BY DEF TypeInv, TypeOK, OutboxStatus
    <2>3. new \in Seq(OutboxStatus) /\ Len(new) = Current(t) + 1
        <3>1. CASE Len(rows) = Current(t)
            <4>1. new = Append(rows, "pending")
                BY <3>1 DEF Rearmed
            <4> HIDE DEF new, rows
            <4> QED BY <2>1, <2>2, <3>1, <4>1, AppendProperties
        <3>2. CASE Len(rows) = Current(t) + 1
            <4> DEFINE n == Current(t) + 1
                       s == IF rows[n] = "published" THEN "pending" ELSE rows[n]
            <4>1. n \in 1..Len(rows)
                BY <2>1, <3>2
            <4>2. s \in OutboxStatus
                BY <2>2, <4>1
            <4>3. new = [rows EXCEPT ![n] = s]
                BY <2>1, <3>2 DEF Rearmed
            <4> HIDE DEF new, rows, s, n
            <4>4. new \in Seq(OutboxStatus) /\ Len(new) = Len(rows)
                BY <2>2, <4>1, <4>2, <4>3, ExceptSeq
            <4> QED BY <3>2, <4>4
        <3> QED BY <2>1, <3>1, <3>2
    <2>4. /\ dispatch' = [dispatch EXCEPT ![t] = new]
          /\ UNCHANGED <<attempts, clar, report, runLate, relaying, broker, exec, revokes>>
          /\ retries' \in Nat
        BY <1>3 DEF RetryTask, TypeInv, TypeOK
    <2> HIDE DEF new
    <2>5. /\ dispatch' \in [Tasks -> Seq(OutboxStatus)]
          /\ \A u \in Tasks : Len(dispatch'[u]) = IF u = t THEN Current(t) + 1
                                                  ELSE Len(dispatch[u])
        BY <2>3, <2>4 DEF TypeInv, TypeOK
    <2>6. [task EXCEPT ![t] = "queued"] \in Statuses
        BY MoveType DEF TypeInv, TypeOK, Statuses, TaskStatus
    <2>7. task' \in Statuses
        BY <1>3, <2>6, ResetMoves DEF RetryTask
    <2>8. run' \in RunStatus /\ budget' \in BudgetStatus
        BY <1>3 DEF RetryTask, TypeInv, TypeOK, RunStatus, BudgetStatus
    <2>9. maxAttempts' \in [Tasks -> Nat \ {0}]
        BY <1>3, <2>1 DEF RetryTask, TypeInv, TypeOK
    <2>10. TypeOK'
        BY <2>4, <2>5, <2>7, <2>8, <2>9 DEF TypeInv, TypeOK, Statuses, BudgetStatus
    <2>11. \A u \in Tasks : Len(dispatch'[u]) \in {Current(u), Current(u) + 1}
        BY <2>5 DEF TypeInv, Numbering
    <2>12. \A r \in relaying : r.msg[2] <= Len(dispatch'[r.msg[1]])
        <3> TAKE r \in relaying
        <3>1. r.msg[1] \in Tasks /\ r.msg[2] \in 1..Len(dispatch[r.msg[1]])
            BY Indexes
        <3> QED BY <2>1, <2>5, <3>1
    <2>13. \A m \in broker : m[2] <= Len(dispatch'[m[1]])
        <3> TAKE m \in broker
        <3>1. m[1] \in Tasks /\ m[2] \in 1..Len(dispatch[m[1]])
            BY Indexes
        <3> QED BY <2>1, <2>5, <3>1
    <2>14. Numbering'
        BY <2>4, <2>11, <2>12, <2>13 DEF TypeInv, Numbering, Current
    <2> QED BY <2>10, <2>14 DEF TypeInv
<1> QED
    BY <1>1, <1>2, <1>3 DEF Operator

LEMMA TypeStep == TypeInv /\ OneLiveAttempt /\ [Next]_vars => TypeInv'
<1> SUFFICES ASSUME TypeInv, OneLiveAttempt, [Next]_vars PROVE TypeInv'
    OBVIOUS
<1>1. CASE RunDeadline
    BY <1>1, QuietType DEF RunDeadline, queueVars, TypeInv, TypeOK
<1>2. CASE UNCHANGED vars
    BY <1>2, QuietType DEF vars, TypeInv, TypeOK
<1> QED
    BY <1>1, <1>2, TypeRelay, TypeWorker, TypeRecovery, TypeOperator DEF Next

-----------------------------------------------------------------------------
(* One live attempt *)

\* A task next to the one a transaction is about may be freed, skipped or
\* cancelled, and that only before it started.
SideMove(d) ==
    \/ task'[d] = task[d]
    \/ task[d] \in {"blocked", "queued"} /\ task'[d] \in {"queued", "skipped", "cancelled"}

\* The transaction ends the live attempt of t, and t is no longer executing.
EndsLive(t) ==
    /\ HasRunning(t)
    /\ \E s \in AttemptTerminal : EndAttempt(<<t, Current(t)>>, s)
    /\ task'[t] \in TaskStatus \ {"blocked", "running", "skipped", "cancelling"}
    /\ \A d \in Tasks \ {t} : SideMove(d)

\* An execution that has not been ended by somebody else is the live one.
LEMMA LiveExecution ==
    ASSUME TypeInv, OneLiveAttempt, NEW m \in exec, ~AttemptOver(m)
    PROVE  /\ m = <<m[1], Current(m[1])>>
           /\ m[1] \in Tasks
           /\ HasRunning(m[1])
           /\ task[m[1]] \in {"running", "cancelling"}
<1>1. /\ m[1] \in Tasks /\ m[2] \in 1..Current(m[1]) /\ m = <<m[1], m[2]>>
      /\ Current(m[1]) \in Nat
    BY Indexes
<1>2. attempts[m[1]][m[2]] = "running"
    BY DEF AttemptOver
<1>3. m[2] = Current(m[1])
    BY <1>1, <1>2 DEF OneLiveAttempt
<1> QED
    BY <1>1, <1>2, <1>3 DEF OneLiveAttempt, HasRunning

LEMMA LiveDelivery ==
    ASSUME TypeInv, NEW t \in Tasks, HasRunning(t)
    PROVE  /\ <<t, Current(t)>> \in Delivery
           /\ Current(t) \in 1..Current(t)
           /\ Current(t) <= Current(t)
BY Indexes DEF HasRunning, Delivery

LEMMA DiscardEnds ==
    ASSUME TypeInv, OneLiveAttempt, NEW t \in Tasks, HasRunning(t),
           Discard(<<t, Current(t)>>)
    PROVE  EndsLive(t) /\ task'[t] = "cancelled"
<1> DEFINE ts == [task EXCEPT ![t] =
                     IF @ \in {"running", "cancelling"} THEN "cancelled" ELSE @]
<1>1. ts \in Statuses /\ ts[t] = "cancelled" /\ \A d \in Tasks \ {t} : ts[d] = task[d]
    BY DEF TypeInv, TypeOK, Statuses, TaskStatus, OneLiveAttempt
<1>2. Commit(run, ts, budget) /\ EndAttempt(<<t, Current(t)>>, "cancelled")
    BY DEF Discard
<1> HIDE DEF ts
<1>3. \A d \in Tasks : \/ task'[d] = ts[d]
                       \/ ts[d] \in {"blocked", "queued"} /\ task'[d] = "cancelled"
    BY <1>1, <1>2, CommitType DEF TypeInv, TypeOK, BudgetStatus
<1> QED
    BY <1>1, <1>2, <1>3 DEF EndsLive, SideMove, AttemptTerminal, TaskStatus

\* Moving the executing task, evaluating its dependents and finalising.
LEMMA EvaluationEnds ==
    ASSUME TypeInv, NEW t \in Tasks, HasRunning(t), task[t] \in {"running", "cancelling"},
           NEW a \in AttemptTerminal, EndAttempt(<<t, Current(t)>>, a),
           NEW s \in {"succeeded", "failed", "timed_out"},
           Commit(run, EvaluateDependents([task EXCEPT ![t] = s], t), budget)
    PROVE  EndsLive(t) /\ task'[t] = s
<1> DEFINE ended == [task EXCEPT ![t] = s]
           ts == EvaluateDependents(ended, t)
<1>1. ended \in Statuses /\ ended[t] = s /\ \A d \in Tasks \ {t} : ended[d] = task[d]
    BY DEF TypeInv, TypeOK, Statuses, TaskStatus
<1>2. /\ ts \in Statuses
      /\ \A d \in Tasks : \/ ts[d] = ended[d]
                          \/ ended[d] = "blocked" /\ ts[d] \in {"queued", "skipped"}
    BY <1>1, EvaluateMoves
<1>3. Commit(run, ts, budget)
    OBVIOUS
<1> HIDE DEF ts, ended
<1>4. \A d \in Tasks : \/ task'[d] = ts[d]
                       \/ ts[d] \in {"blocked", "queued"} /\ task'[d] = "cancelled"
    BY <1>2, <1>3, CommitType DEF TypeInv, TypeOK, BudgetStatus
<1>5. task'[t] = s
    BY <1>1, <1>2, <1>4
<1>6. \A d \in Tasks \ {t} : SideMove(d)
    BY <1>1, <1>2, <1>4 DEF SideMove
<1> QED
    BY <1>5, <1>6 DEF EndsLive, TaskStatus

\* The executing task is queued again.
LEMMA RequeueEnds ==
    ASSUME TypeInv, NEW t \in Tasks, HasRunning(t),
           NEW a \in AttemptTerminal, EndAttempt(<<t, Current(t)>>, a),
           \/ task' = [task EXCEPT ![t] = "queued"]
           \/ Commit(run, [task EXCEPT ![t] = "queued"], budget)
    PROVE  EndsLive(t) /\ task'[t] \in {"queued", "cancelled"}
<1> DEFINE ts == [task EXCEPT ![t] = "queued"]
<1>1. ts \in Statuses /\ ts[t] = "queued" /\ \A d \in Tasks \ {t} : ts[d] = task[d]
    BY DEF TypeInv, TypeOK, Statuses, TaskStatus
<1>2. task' = ts \/ Commit(run, ts, budget)
    OBVIOUS
<1> HIDE DEF ts
<1>3. \A d \in Tasks : \/ task'[d] = ts[d]
                       \/ ts[d] \in {"blocked", "queued"} /\ task'[d] = "cancelled"
    BY <1>1, <1>2, CommitType DEF TypeInv, TypeOK, BudgetStatus
<1> QED
    BY <1>1, <1>3 DEF EndsLive, SideMove, TaskStatus

LEMMA FailEnds ==
    ASSUME TypeInv, OneLiveAttempt, NEW t \in Tasks, HasRunning(t),
           NEW timeout \in BOOLEAN, NEW transient, NEW late,
           Fail(<<t, Current(t)>>, timeout, transient, late)
    PROVE  EndsLive(t) /\ task'[t] # "succeeded"
<1> DEFINE m == <<t, Current(t)>>
           s == FailureStatus(timeout)
<1>1. s \in AttemptTerminal /\ s \in {"failed", "timed_out"}
    BY DEF FailureStatus, AttemptTerminal
<1>2. task[t] \in {"running", "cancelling"}
    BY DEF OneLiveAttempt
<1>3. CASE Retryable(m, transient, late)
    <2>1. EndAttempt(m, s) /\ task' = [task EXCEPT ![t] = "queued"]
        BY <1>3 DEF Fail
    <2> HIDE DEF s
    <2> QED BY <1>1, <2>1, RequeueEnds
<1>4. CASE ~Retryable(m, transient, late)
    <2>1. /\ EndAttempt(m, s)
          /\ Commit(run, EvaluateDependents([task EXCEPT ![t] = s], t), budget)
        BY <1>4 DEF Fail
    <2> HIDE DEF s
    <2> QED BY <1>1, <1>2, <2>1, EvaluationEnds
<1> QED
    BY <1>3, <1>4

LEMMA SucceedEnds ==
    ASSUME TypeInv, OneLiveAttempt, NEW t \in Tasks, HasRunning(t),
           Succeed(<<t, Current(t)>>)
    PROVE  EndsLive(t) /\ task'[t] = "succeeded"
<1>1. /\ EndAttempt(<<t, Current(t)>>, "succeeded")
      /\ Commit(run, EvaluateDependents([task EXCEPT ![t] = "succeeded"], t), budget)
    BY DEF Succeed
<1>2. task[t] \in {"running", "cancelling"} /\ "succeeded" \in AttemptTerminal
    BY DEF OneLiveAttempt, AttemptTerminal
<1> QED
    BY <1>1, <1>2, EvaluationEnds

LEMMA RecoverEnds ==
    ASSUME TypeInv, OneLiveAttempt, NEW t \in Tasks, NEW late, RecoverStale(t, late)
    PROVE  EndsLive(t) /\ task'[t] # "succeeded"
<1> DEFINE m == <<t, Current(t)>>
<1>1. HasRunning(t) /\ task[t] \in {"running", "cancelling"} /\ "failed" \in AttemptTerminal
    BY DEF RecoverStale, Stale, AttemptTerminal
<1>2. CASE Discard(m)
    BY <1>1, <1>2, DiscardEnds
<1>3. CASE ~Discard(m) /\ Recoverable(t, late)
    <2>1. EndAttempt(m, "failed") /\ Commit(run, [task EXCEPT ![t] = "queued"], budget)
        BY <1>3 DEF RecoverStale
    <2> QED BY <1>1, <2>1, RequeueEnds
<1>4. CASE ~Discard(m) /\ ~Recoverable(t, late)
    <2>1. /\ EndAttempt(m, "failed")
          /\ Commit(run, EvaluateDependents([task EXCEPT ![t] = "failed"], t), budget)
        BY <1>4 DEF RecoverStale
    <2> QED BY <1>1, <2>1, EvaluationEnds
<1> QED
    BY <1>2, <1>3, <1>4

Executing == {"running", "cancelling"}

\* A queued task gets a new attempt, and starts to run.
StartsLive(t) ==
    /\ task[t] = "queued"
    /\ attempts' = [attempts EXCEPT ![t] = Append(@, "running")]
    /\ task' = [task EXCEPT ![t] = "running"]

\* No attempt starts or ends; what is executing goes on executing, and what
\* has succeeded stays so.
KeepsLive ==
    /\ attempts' = attempts
    /\ \A d \in Tasks : /\ task'[d] \in Executing <=> task[d] \in Executing
                        /\ task[d] = "succeeded" => task'[d] = "succeeded"

LEMMA CommitKeeps ==
    ASSUME TypeInv, NEW ts \in Statuses, NEW rs \in RunStatus, NEW b \in BudgetStatus,
           Commit(rs, ts, b), attempts' = attempts,
           \A d \in Tasks : /\ ts[d] \in Executing <=> task[d] \in Executing
                            /\ task[d] = "succeeded" => ts[d] = "succeeded"
    PROVE  KeepsLive
<1>1. \A d \in Tasks : \/ task'[d] = ts[d]
                       \/ ts[d] \in {"blocked", "queued"} /\ task'[d] = "cancelled"
    BY CommitType DEF TypeInv, TypeOK
<1> QED
    BY <1>1 DEF KeepsLive, Executing

LEMMA ShapeReceive ==
    ASSUME TypeInv, OneLiveAttempt, NEW m \in broker, Receive(m)
    PROVE  KeepsLive \/ StartsLive(m[1])
<1>m. m[1] \in Tasks
    BY Indexes
<1>1. CASE IgnoreDelivery(m) \/ AbortClaim(m)
    BY <1>1 DEF IgnoreDelivery, AbortClaim, KeepsLive
<1>2. CASE DeliverToCancelled(m)
    <2> DEFINE ts == [task EXCEPT ![m[1]] = "cancelled"]
    <2>1. CASE task[m[1]] \in {"blocked", "queued"}
        <3>1. /\ ts \in Statuses
              /\ \A d \in Tasks : /\ ts[d] \in Executing <=> task[d] \in Executing
                                  /\ task[d] = "succeeded" => ts[d] = "succeeded"
            BY <1>m, <2>1 DEF TypeInv, TypeOK, Statuses, TaskStatus, Executing
        <3>2. Commit(run, ts, budget) /\ attempts' = attempts
            BY <1>2, <2>1 DEF DeliverToCancelled
        <3> HIDE DEF ts
        <3> QED BY <3>1, <3>2, CommitKeeps DEF TypeInv, TypeOK, BudgetStatus
    <2>2. CASE task[m[1]] \notin {"blocked", "queued"}
        BY <1>2, <2>2 DEF DeliverToCancelled, KeepsLive
    <2> QED BY <2>1, <2>2
<1>3. CASE RejectForBudget(m) \/ RejectLate(m)
    <2>1. PICK s \in {"failed", "timed_out"}, b \in BudgetStatus : Reject(m, s, b)
        BY <1>3 DEF RejectForBudget, RejectLate, BudgetStatus, TypeInv, TypeOK
    <2>2. task[m[1]] = "queued"
        BY <1>3 DEF RejectForBudget, RejectLate, Claimable
    <2> DEFINE ended == [task EXCEPT ![m[1]] = s]
               ts == EvaluateDependents(ended, m[1])
    <2>3. ended \in Statuses /\ ended[m[1]] = s /\ \A d \in Tasks \ {m[1]} : ended[d] = task[d]
        BY <1>m DEF TypeInv, TypeOK, Statuses, TaskStatus
    <2>4. Commit(run, ts, b) /\ attempts' = attempts
        BY <2>1 DEF Reject
    <2> HIDE DEF ended
    <2>5. /\ ts \in Statuses
          /\ \A d \in Tasks : \/ ts[d] = ended[d]
                              \/ ended[d] = "blocked" /\ ts[d] \in {"queued", "skipped"}
        BY <2>3, EvaluateMoves
    <2> HIDE DEF ts
    <2>6. \A d \in Tasks : /\ ts[d] \in Executing <=> task[d] \in Executing
                           /\ task[d] = "succeeded" => ts[d] = "succeeded"
        BY <1>m, <2>2, <2>3, <2>5 DEF Executing
    <2> QED BY <2>4, <2>5, <2>6, CommitKeeps DEF TypeInv, TypeOK
<1>4. CASE ClaimTask(m)
    BY <1>4 DEF ClaimTask, Claimable, StartsLive
<1> QED
    BY <1>1, <1>2, <1>3, <1>4 DEF Receive

LEMMA ShapeFinish ==
    ASSUME TypeInv, OneLiveAttempt, NEW m \in exec, Finish(m)
    PROVE  KeepsLive \/ EndsLive(m[1])
<1>m. m[1] \in Tasks
    BY Indexes
<1>l. ASSUME ~AttemptOver(m)
      PROVE  /\ m = <<m[1], Current(m[1])>>
             /\ HasRunning(m[1])
             /\ task[m[1]] \in Executing
    BY <1>l, LiveExecution DEF Executing
<1>1. CASE FinishSuccess(m)
    BY <1>1, <1>m, <1>l, DiscardEnds, SucceedEnds DEF FinishSuccess
<1>2. CASE PauseForProduct(m)
    <2>1. /\ ~AttemptOver(m)
          /\ EndAttempt(m, "succeeded")
          /\ task' = [task EXCEPT ![m[1]] = "waiting_for_input"]
        BY <1>2 DEF PauseForProduct
    <2>2. "succeeded" \in AttemptTerminal
        BY DEF AttemptTerminal
    <2>3. /\ task'[m[1]] = "waiting_for_input"
          /\ \A d \in Tasks \ {m[1]} : task'[d] = task[d]
        BY <1>m, <2>1 DEF TypeInv, TypeOK
    <2> QED BY <1>l, <2>1, <2>2, <2>3 DEF EndsLive, SideMove, TaskStatus
<1>3. CASE PauseRefused(m) \/ LateResult(m) \/ AbortCompletion(m)
    BY <1>3 DEF PauseRefused, LateResult, AbortCompletion, KeepsLive
<1>4. ASSUME NEW timeout \in BOOLEAN, NEW transient \in BOOLEAN, NEW late \in LateChoices,
             FinishFailure(m, timeout, transient, late)
      PROVE  EndsLive(m[1])
    BY <1>4, <1>m, <1>l, DiscardEnds, FailEnds DEF FinishFailure
<1>5. CASE FinishCancelled(m)
    BY <1>5, <1>m, <1>l, DiscardEnds DEF FinishCancelled
<1>6. ASSUME NEW late \in LateChoices, SoftLimit(m, late)
      PROVE  KeepsLive \/ EndsLive(m[1])
    <2>1. CASE HasRunning(m[1])
        BY <1>6, <1>m, <2>1, DiscardEnds, FailEnds DEF SoftLimit
    <2>2. CASE ~HasRunning(m[1])
        BY <1>6, <2>2 DEF SoftLimit, KeepsLive
    <2> QED BY <2>1, <2>2
<1> QED
    BY <1>1, <1>2, <1>3, <1>4, <1>5, <1>6 DEF Finish

LEMMA ShapeOperator ==
    ASSUME TypeInv, OneLiveAttempt, Operator
    PROVE  KeepsLive
<1>1. CASE AnswerProduct
    <2>1. PICK g \in Gate :
            /\ task[g] = "waiting_for_input"
            /\ task' = EvaluateDependents([task EXCEPT ![g] = "succeeded"], g)
            /\ attempts' = attempts
        BY <1>1 DEF AnswerProduct
    <2> DEFINE ended == [task EXCEPT ![g] = "succeeded"]
    <2>2. /\ ended \in Statuses /\ g \in Tasks /\ ended[g] = "succeeded"
          /\ \A d \in Tasks \ {g} : ended[d] = task[d]
        BY RuntimeAssumption DEF TypeInv, TypeOK, Statuses, TaskStatus
    <2>3. task' = EvaluateDependents(ended, g)
        BY <2>1
    <2> HIDE DEF ended
    <2>4. \A d \in Tasks : \/ task'[d] = ended[d]
                           \/ ended[d] = "blocked" /\ task'[d] \in {"queued", "skipped"}
        BY <2>2, <2>3, EvaluateMoves
    <2> QED BY <2>1, <2>2, <2>4 DEF KeepsLive, Executing
<1>2. CASE RequestCancellation
    <2> DEFINE ts == [t \in Tasks |-> CancelledStatus(task[t])]
    <2>1. ts \in Statuses
        BY DEF CancelledStatus, TypeInv, TypeOK, Statuses, TaskStatus
    <2>2. \A d \in Tasks : /\ ts[d] \in Executing <=> task[d] \in Executing
                           /\ task[d] = "succeeded" => ts[d] = "succeeded"
        BY DEF CancelledStatus, Executing
    <2>3. Commit("cancelling", ts, budget) /\ attempts' = attempts
        BY <1>2 DEF RequestCancellation
    <2> HIDE DEF ts
    <2> QED BY <2>1, <2>2, <2>3, CommitKeeps DEF TypeInv, TypeOK, BudgetStatus, RunStatus
<1>3. ASSUME NEW t \in Tasks, RetryTask(t)
      PROVE  KeepsLive
    <2> DEFINE queued == [task EXCEPT ![t] = "queued"]
    <2>1. /\ queued \in Statuses /\ queued[t] = "queued"
          /\ \A d \in Tasks \ {t} : queued[d] = task[d]
        BY DEF TypeInv, TypeOK, Statuses, TaskStatus
    <2>2. /\ task[t] \in {"failed", "timed_out"}
          /\ task' = ResetSkipped(queued, t)
          /\ attempts' = attempts
        BY <1>3 DEF RetryTask, MayRetry
    <2> HIDE DEF queued
    <2>3. \A d \in Tasks : \/ task'[d] = queued[d]
                           \/ queued[d] = "skipped" /\ task'[d] = "blocked"
        BY <2>1, <2>2, ResetMoves
    <2> QED BY <2>1, <2>2, <2>3 DEF KeepsLive, Executing
<1> QED
    BY <1>1, <1>2, <1>3 DEF Operator

\* Every step starts one attempt, ends one, or leaves them all alone.
LEMMA StepShape ==
    ASSUME TypeInv, OneLiveAttempt, [Next]_vars
    PROVE  \/ KeepsLive
           \/ \E t \in Tasks : StartsLive(t) \/ EndsLive(t)
<1>1. CASE Relay
    BY <1>1 DEF Relay, RelayClaim, RelayCheck, RelaySend, RelayMark, RelayFail,
       RelayCrash, RelayRevoke, KeepsLive
<1>2. CASE Worker
    <2>1. ASSUME NEW m \in exec,
                 \/ PublishReport(m) \/ Redeliver(m)
                 \/ \E requeued \in BOOLEAN : Crash(m, requeued)
          PROVE  KeepsLive
        BY <2>1 DEF PublishReport, Redeliver, Crash, KeepsLive
    <2>2. \A m \in exec \cup broker : m[1] \in Tasks
        BY Indexes
    <2> QED BY <1>2, <2>1, <2>2, ShapeReceive, ShapeFinish DEF Worker
<1>3. CASE Recovery
    <2>1. ASSUME NEW t \in Tasks, NEW late \in LateChoices, RecoverStale(t, late)
          PROVE  EndsLive(t)
        BY <2>1, RecoverEnds
    <2>2. CASE RepairRun
        <3>1. Commit(run, task, budget) /\ attempts' = attempts
            BY <2>2 DEF RepairRun
        <3> QED BY <3>1, CommitKeeps DEF TypeInv, TypeOK, Statuses, BudgetStatus
    <2>3. CASE ExpireClarification
        BY <2>3 DEF ExpireClarification, ExpiredStatus, KeepsLive, Executing
    <2> QED BY <1>3, <2>1, <2>2, <2>3 DEF Recovery
<1>4. CASE Operator
    BY <1>4, ShapeOperator
<1>5. CASE RunDeadline \/ UNCHANGED vars
    BY <1>5 DEF RunDeadline, vars, KeepsLive
<1> QED
    BY <1>1, <1>2, <1>3, <1>4, <1>5 DEF Next

\* What ending or starting an attempt does to the attempts of one task.
LEMMA EndsLiveAttempts ==
    ASSUME TypeInv, NEW t \in Tasks, EndsLive(t)
    PROVE  /\ Current(t) \in Nat \ {0}
           /\ \A d \in Tasks : Len(attempts'[d]) = Current(d)
           /\ \A d \in Tasks \ {t} : attempts'[d] = attempts[d]
           /\ \A n \in 1..(Current(t) - 1) : attempts'[t][n] = attempts[t][n]
           /\ attempts'[t][Current(t)] \in AttemptTerminal
<1> DEFINE m == <<t, Current(t)>>
<1>1. /\ m \in Delivery /\ m[1] = t /\ m[2] = Current(t)
      /\ m[2] <= Current(m[1]) /\ Current(t) \in Nat \ {0}
    BY LiveDelivery, Indexes DEF EndsLive, HasRunning
<1>2. PICK s \in AttemptTerminal : EndAttempt(m, s)
    BY DEF EndsLive
<1>3. s \in AttemptStatus
    BY DEF AttemptTerminal, AttemptStatus
<1> HIDE DEF m
<1>4. attempts \in [Tasks -> Seq(AttemptStatus)]
    BY DEF TypeInv, TypeOK
<1>5. /\ \A d \in Tasks : Len(attempts'[d]) = Current(d)
      /\ \A d \in Tasks : d # m[1] => attempts'[d] = attempts[d]
      /\ \A n \in 1..Current(m[1]) :
            attempts'[m[1]][n] = IF n = m[2] THEN s ELSE attempts[m[1]][n]
    BY <1>1, <1>2, <1>3, <1>4, EndAttemptType
<1>6. \A n \in 1..Current(t) : attempts'[t][n] = IF n = Current(t) THEN s ELSE attempts[t][n]
    BY <1>1, <1>5
<1> QED
    BY <1>1, <1>5, <1>6

LEMMA StartsLiveAttempts ==
    ASSUME TypeInv, NEW t \in Tasks, StartsLive(t)
    PROVE  /\ Current(t) \in Nat
           /\ Len(attempts'[t]) = Current(t) + 1
           /\ \A d \in Tasks \ {t} : attempts'[d] = attempts[d]
           /\ \A n \in 1..Current(t) : attempts'[t][n] = attempts[t][n]
           /\ attempts'[t][Current(t) + 1] = "running"
<1> DEFINE old == attempts[t]
           new == Append(old, "running")
<1>1. old \in Seq(AttemptStatus) /\ "running" \in AttemptStatus
    BY DEF TypeInv, TypeOK, AttemptStatus
<1>2. /\ Len(new) = Len(old) + 1
      /\ \A n \in 1..Len(old) : new[n] = old[n]
      /\ new[Len(old) + 1] = "running"
    BY <1>1, AppendProperties
<1>3. attempts'[t] = new /\ \A d \in Tasks \ {t} : attempts'[d] = attempts[d]
    BY DEF StartsLive, TypeInv, TypeOK
<1> HIDE DEF new
<1>4. Current(t) = Len(old) /\ Current(t) \in Nat
    BY Indexes DEF Current
<1> HIDE DEF old
<1> QED
    BY <1>2, <1>3, <1>4 DEF old

LEMMA LiveInit == Init => OneLiveAttempt
<1> SUFFICES ASSUME Init PROVE OneLiveAttempt
    OBVIOUS
<1>1. \A t \in Tasks : task[t] \notin {"running", "cancelling"} /\ Current(t) = 0
    BY DEF Init, Current
<1> QED
    BY <1>1 DEF OneLiveAttempt, HasRunning

LEMMA LiveStep == TypeInv /\ OneLiveAttempt /\ [Next]_vars => OneLiveAttempt'
<1> SUFFICES ASSUME TypeInv, OneLiveAttempt, [Next]_vars,
                    NEW d \in Tasks
             PROVE  /\ (task[d] \in {"running", "cancelling"} <=> HasRunning(d))'
                    /\ \A n \in 1..(Len(attempts'[d]) - 1) : attempts'[d][n] # "running"
    BY DEF OneLiveAttempt, Current
<1>1. /\ Current(d) \in Nat
      /\ task[d] \in {"running", "cancelling"} <=> HasRunning(d)
      /\ \A n \in 1..(Current(d) - 1) : attempts[d][n] # "running"
    BY Indexes DEF OneLiveAttempt
<1>2. CASE KeepsLive
    BY <1>1, <1>2 DEF KeepsLive, Executing, HasRunning, Current
<1>3. ASSUME NEW t \in Tasks, EndsLive(t)
      PROVE  /\ (task[d] \in {"running", "cancelling"} <=> HasRunning(d))'
             /\ \A n \in 1..(Len(attempts'[d]) - 1) : attempts'[d][n] # "running"
    <2>1. CASE d = t
        <3>1. /\ task'[t] \notin {"running", "cancelling"}
              /\ Len(attempts'[t]) = Current(t)
              /\ attempts'[t][Current(t)] # "running"
              /\ \A n \in 1..(Current(t) - 1) : attempts'[t][n] = attempts[t][n]
            BY <1>3, EndsLiveAttempts DEF EndsLive, AttemptTerminal
        <3> QED BY <1>1, <2>1, <3>1 DEF HasRunning, Current
    <2>2. CASE d # t
        <3>1. SideMove(d) /\ attempts'[d] = attempts[d]
            BY <1>3, <2>2, EndsLiveAttempts DEF EndsLive
        <3> QED BY <1>1, <3>1 DEF SideMove, HasRunning, Current
    <2> QED BY <2>1, <2>2
<1>4. ASSUME NEW t \in Tasks, StartsLive(t)
      PROVE  /\ (task[d] \in {"running", "cancelling"} <=> HasRunning(d))'
             /\ \A n \in 1..(Len(attempts'[d]) - 1) : attempts'[d][n] # "running"
    <2>1. CASE d = t
        <3>1. ~HasRunning(t) /\ task'[t] = "running"
            BY <1>1, <1>4, <2>1 DEF StartsLive, TypeInv, TypeOK
        <3>2. \A n \in 1..Current(t) : attempts[t][n] # "running"
            BY <1>1, <2>1, <3>1 DEF HasRunning
        <3>3. /\ Len(attempts'[t]) = Current(t) + 1
              /\ attempts'[t][Current(t) + 1] = "running"
              /\ \A n \in 1..Current(t) : attempts'[t][n] = attempts[t][n]
            BY <1>4, StartsLiveAttempts
        <3> QED BY <1>1, <2>1, <3>1, <3>2, <3>3 DEF HasRunning, Current
    <2>2. CASE d # t
        <3>1. task'[d] = task[d] /\ attempts'[d] = attempts[d]
            BY <1>4, <2>2, StartsLiveAttempts DEF StartsLive, TypeInv, TypeOK
        <3> QED BY <1>1, <3>1 DEF HasRunning, Current
    <2> QED BY <2>1, <2>2
<1> QED
    BY <1>2, <1>3, <1>4, StepShape

-----------------------------------------------------------------------------
(* The theorems *)

\* The inductive invariant: neither the types (a revocation names an attempt
\* that exists) nor the live attempts (an execution names a row) are inductive
\* without the other, and both need the numbering of rows and attempts.
IInv == TypeInv /\ OneLiveAttempt

THEOREM Inductive == Spec => []IInv
<1>1. Init => IInv
    BY TypeInit, LiveInit DEF IInv
<1>2. IInv /\ [Next]_vars => IInv'
    BY TypeStep, LiveStep DEF IInv
<1> QED
    BY <1>1, <1>2, PTL DEF Spec

\* Every row and message has its type (create_run to repair_unfinished_runs).
THEOREM TypeCorrect == Spec => []TypeOK
<1>1. IInv => TypeOK
    BY DEF IInv, TypeInv
<1> QED
    BY <1>1, Inductive, PTL

\* Attempts and dispatch rows are numbered without gaps, and nothing in flight
\* names a row that does not exist (queue_task_dispatch).
THEOREM NumberingHolds == Spec => []Numbering
<1>1. IInv => Numbering
    BY DEF IInv, TypeInv
<1> QED
    BY <1>1, Inductive, PTL

\* Whatever crashes, leases and redeliveries do, no task is held by two
\* workers (execute_task_run, recover_stale_attempts).
THEOREM SingleExecution == Spec => []OneLiveAttempt
<1>1. IInv => OneLiveAttempt
    BY DEF IInv
<1> QED
    BY <1>1, Inductive, PTL

\* Attempts are append-only and ended attempts are never rewritten
\* (_complete_attempt_success, _complete_attempt_failure).
THEOREM AttemptsNeverRewritten == Spec => AttemptsImmutable
<1>1. IInv /\ [Next]_vars => AttemptsKept \/ UNCHANGED vars
    <2> SUFFICES ASSUME IInv, [Next]_vars, NEW d \in Tasks
                 PROVE  /\ Len(attempts'[d]) \in {Current(d), Current(d) + 1}
                        /\ \A n \in DOMAIN attempts[d] :
                              attempts[d][n] # "running" => attempts'[d][n] = attempts[d][n]
        BY DEF AttemptsKept
    <2>1. TypeInv /\ OneLiveAttempt
        BY DEF IInv
    <2>2. /\ DOMAIN attempts[d] = 1..Current(d)
          /\ Current(d) \in Nat
        BY <2>1, Indexes, LenProperties DEF TypeInv, TypeOK, Current
    <2>3. CASE KeepsLive
        BY <2>2, <2>3 DEF KeepsLive, Current
    <2>4. ASSUME NEW t \in Tasks, EndsLive(t)
          PROVE  /\ Len(attempts'[d]) = Current(d)
                 /\ \A n \in 1..Current(d) :
                       attempts[d][n] # "running" => attempts'[d][n] = attempts[d][n]
        <3>1. CASE d = t
            BY <2>1, <2>2, <2>4, <3>1, EndsLiveAttempts DEF EndsLive, HasRunning
        <3>2. CASE d # t
            BY <2>1, <2>4, <3>2, EndsLiveAttempts
        <3> QED BY <3>1, <3>2
    <2>5. ASSUME NEW t \in Tasks, StartsLive(t)
          PROVE  /\ Len(attempts'[d]) \in {Current(d), Current(d) + 1}
                 /\ \A n \in 1..Current(d) : attempts'[d][n] = attempts[d][n]
        <3>1. CASE d = t
            BY <2>1, <2>5, <3>1, StartsLiveAttempts
        <3>2. CASE d # t
            BY <2>1, <2>5, <3>2, StartsLiveAttempts DEF Current
        <3> QED BY <3>1, <3>2
    <2> QED BY <2>1, <2>2, <2>3, <2>4, <2>5, StepShape
<1> QED
    BY <1>1, Inductive, PTL DEF Spec, AttemptsImmutable

-----------------------------------------------------------------------------
(* Cancellation *)

\* A cancelled run executes nothing.
CancelledIsIdle == run = "cancelled" => \A t \in Tasks : task[t] \notin Executing

CancelInv == IInv /\ CancelledIsIdle

LEMMA CommitCancels ==
    ASSUME NEW rs \in RunStatus, NEW ts \in Statuses, NEW b \in BudgetStatus,
           report \in {"none", "complete", "partial"},
           Commit(rs, ts, b)
    PROVE  /\ rs \in {"cancelling", "cancelled"} => run' \in {rs, "cancelled"}
           /\ rs # "cancelled" /\ run' = "cancelled" =>
                 \A t \in Tasks : task'[t] \notin Executing
<1>1. run' = FinalRun(rs, ts) /\ task' = FinalTasks(rs, ts) /\ LegalRunMove(rs, run')
    BY DEF Commit
<1>2. CASE rs = "cancelling"
    <2>1. run' = IF Interrupted(ts) THEN "cancelling" ELSE "cancelled"
        BY <1>1, <1>2 DEF FinalRun
    <2>2. ASSUME ~Interrupted(ts) PROVE \A t \in Tasks : task'[t] \notin Executing
        BY <1>1, <2>2 DEF FinalTasks, Interrupted, Executing
    <2> QED BY <1>2, <2>1, <2>2
<1>3. CASE rs = "cancelled"
    BY <1>1, <1>3 DEF LegalRunMove, RunTransitions
<1>4. CASE rs \notin {"cancelling", "cancelled"}
    BY <1>1, <1>4 DEF FinalRun
<1> QED
    BY <1>2, <1>3, <1>4

\* What every step does to a run that is, or is being, cancelled.
CancelStep ==
    /\ run \in {"cancelling", "cancelled"} =>
          /\ run' \in {run, "cancelled"}
          /\ \A t \in Tasks : /\ Len(attempts'[t]) = Current(t)
                              /\ Len(dispatch'[t]) = Len(dispatch[t])
    /\ run # "cancelled" /\ run' = "cancelled" =>
          \A t \in Tasks : task'[t] \notin Executing

LEMMA CancelCommit ==
    ASSUME TypeInv, NEW ts \in Statuses, NEW b \in BudgetStatus,
           NEW rs \in {run, "cancelling"}, run # "cancelled" \/ rs = run,
           Commit(rs, ts, b),
           run \in {"cancelling", "cancelled"} =>
               \A t \in Tasks : /\ Len(attempts'[t]) = Current(t)
                                /\ Len(dispatch'[t]) = Len(dispatch[t])
    PROVE  CancelStep
<1>1. rs \in RunStatus /\ report \in {"none", "complete", "partial"}
    BY DEF TypeInv, TypeOK, RunStatus
<1>2. /\ rs \in {"cancelling", "cancelled"} => run' \in {rs, "cancelled"}
      /\ rs # "cancelled" /\ run' = "cancelled" =>
            \A t \in Tasks : task'[t] \notin Executing
    BY <1>1, CommitCancels
<1> QED
    BY <1>2 DEF CancelStep

LEMMA CancelUnchanged ==
    ASSUME TypeInv, UNCHANGED <<run, attempts>>,
           \A t \in Tasks : Len(dispatch'[t]) = Len(dispatch[t])
    PROVE  CancelStep
BY DEF CancelStep, Current

\* The transactions that end the live attempt of t.
LEMMA CancelEnding ==
    ASSUME CancelInv, NEW t \in Tasks, HasRunning(t),
           NEW timeout \in BOOLEAN, NEW transient, NEW late,
           \/ Discard(<<t, Current(t)>>)
           \/ /\ run # "cancelling"
              /\ \/ Succeed(<<t, Current(t)>>)
                 \/ Fail(<<t, Current(t)>>, timeout, transient, late)
                 \/ RecoverStale(t, late)
    PROVE  CancelStep
<1> DEFINE m == <<t, Current(t)>>
<1>1. /\ TypeInv /\ OneLiveAttempt /\ run # "cancelled"
      /\ m \in Delivery /\ m[1] = t /\ m[2] <= Current(m[1])
    BY LiveDelivery DEF CancelInv, IInv, CancelledIsIdle, OneLiveAttempt, Executing
<1>2. CASE Discard(m)
    <2> DEFINE ts == [task EXCEPT ![m[1]] =
                         IF @ \in {"running", "cancelling"} THEN "cancelled" ELSE @]
    <2>1. ts \in Statuses
        BY <1>1 DEF TypeInv, TypeOK, Statuses, TaskStatus
    <2>2. Commit(run, ts, budget) /\ EndAttempt(m, "cancelled") /\ dispatch' = dispatch
        BY <1>2 DEF Discard
    <2> HIDE DEF ts, m
    <2>3. attempts \in [Tasks -> Seq(AttemptStatus)] /\ "cancelled" \in AttemptStatus
        BY <1>1 DEF TypeInv, TypeOK, AttemptStatus
    <2>4. \A d \in Tasks : Len(attempts'[d]) = Current(d)
        BY <1>1, <2>2, <2>3, EndAttemptType
    <2>5. budget \in BudgetStatus
        BY <1>1 DEF TypeInv, TypeOK, BudgetStatus
    <2> QED BY <1>1, <2>1, <2>2, <2>4, <2>5, CancelCommit
<1>3. CASE run # "cancelling" /\ ~Discard(m)
    <2>1. run \notin {"cancelling", "cancelled"}
        BY <1>1, <1>3
    <2>2. PICK ts \in Statuses :
                Commit(run, ts, budget) \/ UNCHANGED run
        <3>1. CASE Succeed(m)
            <4> DEFINE ended == [task EXCEPT ![m[1]] = "succeeded"]
            <4>1. ended \in Statuses
                BY <1>1 DEF TypeInv, TypeOK, Statuses, TaskStatus
            <4>2. Commit(run, EvaluateDependents(ended, m[1]), budget)
                BY <3>1 DEF Succeed
            <4> HIDE DEF ended
            <4> QED BY <4>1, <4>2, EvaluateMoves
        <3>2. CASE Fail(m, timeout, transient, late)
            <4> DEFINE ended == [task EXCEPT ![m[1]] = FailureStatus(timeout)]
            <4>1. ended \in Statuses
                BY <1>1 DEF TypeInv, TypeOK, Statuses, TaskStatus, FailureStatus
            <4>2. Commit(run, EvaluateDependents(ended, m[1]), budget) \/ UNCHANGED run
                BY <3>2 DEF Fail
            <4> HIDE DEF ended
            <4> QED BY <4>1, <4>2, EvaluateMoves
        <3>3. CASE RecoverStale(t, late)
            <4> DEFINE ended == [task EXCEPT ![t] = "failed"]
                       queued == [task EXCEPT ![t] = "queued"]
            <4>1. ended \in Statuses /\ queued \in Statuses
                BY <1>1 DEF TypeInv, TypeOK, Statuses, TaskStatus
            <4>2. \/ Commit(run, EvaluateDependents(ended, t), budget)
                  \/ Commit(run, queued, budget)
                BY <1>3, <3>3 DEF RecoverStale
            <4> HIDE DEF ended, queued
            <4> QED BY <4>1, <4>2, EvaluateMoves
        <3> QED BY <1>3, <3>1, <3>2, <3>3
    <2>3. CASE Commit(run, ts, budget)
        BY <1>1, <2>1, <2>2, <2>3, CancelCommit DEF TypeInv, TypeOK, BudgetStatus
    <2>4. CASE UNCHANGED run
        BY <2>1, <2>4 DEF CancelStep
    <2> QED BY <2>2, <2>3, <2>4
<1> QED
    BY <1>2, <1>3

LEMMA CancelRelay ==
    ASSUME CancelInv, Relay
    PROVE  CancelStep
<1>t. TypeInv
    BY DEF CancelInv, IInv
<1>1. ASSUME NEW t \in Tasks, NEW n \in DOMAIN dispatch[t], RelayClaim(t, n)
      PROVE  CancelStep
    <2>1. n \in 1..Len(dispatch[t]) /\ "processing" \in OutboxStatus
        BY <1>t, LenProperties DEF TypeInv, TypeOK, OutboxStatus
    <2>2. \A u \in Tasks : Len(dispatch'[u]) = Len(dispatch[u])
        BY <1>1, <1>t, <2>1, RowType DEF RelayClaim, TypeInv, TypeOK
    <2> QED BY <1>1, <1>t, <2>2, CancelUnchanged DEF RelayClaim
<1>2. ASSUME NEW r \in relaying, RelayMark(r) \/ RelayFail(r)
      PROVE  CancelStep
    <2>1. /\ r.msg[1] \in Tasks /\ r.msg[2] \in 1..Len(dispatch[r.msg[1]])
          /\ {"pending", "published"} \subseteq OutboxStatus
        BY <1>t, Indexes DEF OutboxStatus
    <2>2. PICK s \in OutboxStatus :
                dispatch' \in {dispatch, [dispatch EXCEPT ![r.msg[1]][r.msg[2]] = s]}
        BY <1>2, <2>1 DEF RelayMark, RelayFail, Marked
    <2> DEFINE new == [dispatch EXCEPT ![r.msg[1]][r.msg[2]] = s]
    <2>3. \A u \in Tasks : Len(new[u]) = Len(dispatch[u])
        BY <1>t, <2>1, RowType DEF TypeInv, TypeOK
    <2>4. dispatch' \in {dispatch, new}
        BY <2>2
    <2> HIDE DEF new
    <2>5. \A u \in Tasks : Len(dispatch'[u]) = Len(dispatch[u])
        BY <2>3, <2>4
    <2> QED BY <1>2, <1>t, <2>5, CancelUnchanged DEF RelayMark, RelayFail
<1>3. ASSUME NEW r \in relaying, RelayCheck(r) \/ RelaySend(r) \/ RelayCrash(r)
      PROVE  CancelStep
    BY <1>3, <1>t, CancelUnchanged DEF RelayCheck, RelaySend, RelayCrash
<1>4. ASSUME NEW m \in revokes, RelayRevoke(m)
      PROVE  CancelStep
    BY <1>4, <1>t, CancelUnchanged DEF RelayRevoke
<1> QED
    BY <1>1, <1>2, <1>3, <1>4 DEF Relay

LEMMA CancelReceive ==
    ASSUME CancelInv, NEW m \in broker, Receive(m)
    PROVE  CancelStep
<1>t. TypeInv
    BY DEF CancelInv, IInv
<1>m. m[1] \in Tasks
    BY <1>t, Indexes
<1>1. CASE IgnoreDelivery(m) \/ AbortClaim(m)
    BY <1>1, <1>t, CancelUnchanged DEF IgnoreDelivery, AbortClaim
<1>2. CASE DeliverToCancelled(m)
    <2> DEFINE ts == [task EXCEPT ![m[1]] = "cancelled"]
    <2>1. ts \in Statuses
        BY <1>t, <1>m DEF TypeInv, TypeOK, Statuses, TaskStatus
    <2>2. /\ Commit(run, ts, budget) \/ UNCHANGED run
          /\ UNCHANGED <<attempts, dispatch>>
        BY <1>2 DEF DeliverToCancelled
    <2> HIDE DEF ts
    <2>3. CASE Commit(run, ts, budget)
        BY <1>t, <2>1, <2>2, <2>3, CancelCommit DEF TypeInv, TypeOK, BudgetStatus, Current
    <2>4. CASE UNCHANGED run
        BY <1>t, <2>2, <2>4, CancelUnchanged
    <2> QED BY <2>2, <2>3, <2>4
<1>3. CASE RejectForBudget(m) \/ RejectLate(m)
    <2>1. run \notin {"cancelling", "cancelled"}
        BY <1>3 DEF RejectForBudget, RejectLate, Claimable
    <2>2. PICK s \in TaskStatus, b \in BudgetStatus : Reject(m, s, b)
        BY <1>3, <1>t DEF RejectForBudget, RejectLate, TaskStatus, BudgetStatus, TypeInv, TypeOK
    <2> DEFINE ended == [task EXCEPT ![m[1]] = s]
    <2>3. ended \in Statuses
        BY <1>t, <1>m DEF TypeInv, TypeOK, Statuses
    <2>4. Commit(run, EvaluateDependents(ended, m[1]), b)
        BY <2>2 DEF Reject
    <2> HIDE DEF ended
    <2>5. EvaluateDependents(ended, m[1]) \in Statuses
        BY <2>3, EvaluateMoves
    <2> QED BY <1>t, <2>1, <2>4, <2>5, CancelCommit
<1>4. CASE ClaimTask(m)
    BY <1>4 DEF ClaimTask, Claimable, CancelStep
<1> QED
    BY <1>1, <1>2, <1>3, <1>4 DEF Receive

LEMMA CancelFinish ==
    ASSUME CancelInv, NEW m \in exec, Finish(m)
    PROVE  CancelStep
<1>t. TypeInv /\ OneLiveAttempt
    BY DEF CancelInv, IInv
<1>m. m[1] \in Tasks
    BY <1>t, Indexes
<1>l. ASSUME ~AttemptOver(m)
      PROVE  /\ m = <<m[1], Current(m[1])>>
             /\ HasRunning(m[1])
             /\ run # "cancelled"
    BY <1>l, <1>t, LiveExecution DEF CancelInv, CancelledIsIdle, Executing
<1>1. CASE FinishSuccess(m)
    BY <1>1, <1>m, <1>l, CancelEnding DEF FinishSuccess
<1>2. CASE PauseForProduct(m)
    BY <1>2, <1>l DEF PauseForProduct, CancelStep
<1>3. CASE PauseRefused(m) \/ LateResult(m) \/ AbortCompletion(m)
    BY <1>3, <1>t, CancelUnchanged DEF PauseRefused, LateResult, AbortCompletion
<1>4. ASSUME NEW timeout \in BOOLEAN, NEW transient \in BOOLEAN, NEW late \in LateChoices,
             FinishFailure(m, timeout, transient, late)
      PROVE  CancelStep
    BY <1>4, <1>m, <1>l, CancelEnding DEF FinishFailure
<1>5. CASE FinishCancelled(m)
    BY <1>5, <1>m, <1>l, CancelEnding DEF FinishCancelled
<1>6. ASSUME NEW late \in LateChoices, SoftLimit(m, late)
      PROVE  CancelStep
    <2>1. CASE HasRunning(m[1])
        BY <1>6, <1>m, <2>1, CancelEnding DEF SoftLimit
    <2>2. CASE ~HasRunning(m[1])
        BY <1>6, <1>t, <2>2, CancelUnchanged DEF SoftLimit
    <2> QED BY <2>1, <2>2
<1> QED
    BY <1>1, <1>2, <1>3, <1>4, <1>5, <1>6 DEF Finish

LEMMA CancelNext == CancelInv /\ [Next]_vars => CancelStep
<1> SUFFICES ASSUME CancelInv, [Next]_vars PROVE CancelStep
    OBVIOUS
<1>t. TypeInv /\ OneLiveAttempt
    BY DEF CancelInv, IInv
<1>1. ASSUME NEW m \in exec,
             \/ PublishReport(m) \/ Redeliver(m)
             \/ \E requeued \in BOOLEAN : Crash(m, requeued)
      PROVE  CancelStep
    BY <1>1, <1>t, CancelUnchanged DEF PublishReport, Redeliver, Crash
<1>2. ASSUME NEW t \in Tasks, NEW late \in LateChoices, RecoverStale(t, late)
      PROVE  CancelStep
    <2>1. HasRunning(t) /\ (run = "cancelling" => Discard(<<t, Current(t)>>))
        BY <1>2 DEF RecoverStale, Stale
    <2> QED BY <1>2, <2>1, CancelEnding
<1>3. CASE RepairRun
    BY <1>3, <1>t, CancelCommit DEF RepairRun, TypeInv, TypeOK, Statuses, BudgetStatus, Current
<1>4. CASE ExpireClarification
    BY <1>4 DEF ExpireClarification, CancelStep
<1>5. CASE AnswerProduct
    BY <1>5 DEF AnswerProduct, CancelStep
<1>6. CASE RequestCancellation
    <2> DEFINE ts == [t \in Tasks |-> CancelledStatus(task[t])]
    <2>1. ts \in Statuses
        BY <1>t DEF CancelledStatus, TypeInv, TypeOK, Statuses, TaskStatus
    <2>2. /\ Commit("cancelling", ts, budget) /\ run # "cancelled"
          /\ UNCHANGED <<attempts, dispatch>>
        BY <1>6 DEF RequestCancellation, RunTerminal
    <2> HIDE DEF ts
    <2> QED BY <1>t, <2>1, <2>2, CancelCommit DEF TypeInv, TypeOK, BudgetStatus, Current
<1>7. ASSUME NEW t \in Tasks, RetryTask(t)
      PROVE  CancelStep
    BY <1>7 DEF RetryTask, MayRetry, CancelStep
<1>8. CASE RunDeadline \/ UNCHANGED vars
    BY <1>8, <1>t, CancelUnchanged DEF RunDeadline, vars
<1> QED
    BY <1>1, <1>2, <1>3, <1>4, <1>5, <1>6, <1>7, <1>8, CancelRelay, CancelReceive,
       CancelFinish DEF Next, Worker, Recovery, Operator

\* A cancelled run starts nothing, so it stays idle.
LEMMA IdleStep == CancelInv /\ [Next]_vars => CancelledIsIdle'
<1> SUFFICES ASSUME CancelInv, [Next]_vars, run' = "cancelled", NEW d \in Tasks
             PROVE  task'[d] \notin Executing
    BY DEF CancelledIsIdle
<1>1. TypeInv /\ OneLiveAttempt /\ CancelStep
    BY CancelNext DEF CancelInv, IInv
<1>2. CASE run # "cancelled"
    BY <1>1, <1>2 DEF CancelStep
<1>3. CASE run = "cancelled"
    <2>1. \A t \in Tasks : task[t] \notin Executing /\ ~HasRunning(t)
        BY <1>1, <1>3 DEF CancelInv, CancelledIsIdle, OneLiveAttempt, Executing
    <2>2. \A t \in Tasks : ~EndsLive(t)
        BY <2>1 DEF EndsLive
    <2>3. \A t \in Tasks : ~StartsLive(t)
        <3> SUFFICES ASSUME NEW t \in Tasks, StartsLive(t) PROVE FALSE
            OBVIOUS
        <3>1. Len(attempts'[t]) = Current(t) + 1 /\ Current(t) \in Nat
            BY <1>1, StartsLiveAttempts
        <3>2. Len(attempts'[t]) = Current(t)
            BY <1>1, <1>3 DEF CancelStep
        <3> QED BY <3>1, <3>2
    <2>4. KeepsLive
        BY <1>1, <2>2, <2>3, StepShape
    <2> QED BY <2>1, <2>4 DEF KeepsLive
<1> QED
    BY <1>2, <1>3

\* Once a cancellation is committed nothing starts (request_cancellation,
\* execute_task_run, retry_task).
THEOREM CancellationIsFinal == Spec => CancelIsFinal
<1>1. Init => CancelledIsIdle
    BY DEF Init, CancelledIsIdle
<1>2. CancelInv /\ [Next]_vars => CancelledIsIdle'
    BY IdleStep
<1>3. CancelInv /\ [Next]_vars => NothingStarts
    BY CancelNext DEF CancelStep, NothingStarts
<1> QED
    BY <1>1, <1>2, <1>3, Inductive, PTL DEF Spec, CancelIsFinal, CancelInv

-----------------------------------------------------------------------------
(* Dependencies *)

\* More successes never invalidate the prerequisites of a task.
LEMMA SatisfiedGrows ==
    ASSUME NEW ts, NEW us, NEW d \in Tasks,
           \A e \in Tasks : ts[e] = "succeeded" => us[e] = "succeeded",
           Satisfied(ts, d)
    PROVE  Satisfied(us, d)
<1>1. Deps[d] \subseteq Tasks /\ IsFiniteSet(Tasks) /\ MinSuccess[d] \in Nat
    BY GraphAssumption
<1>2. CASE d \in FanIn
    <2>1. IsFiniteSet(Succeeded(us, d))
        BY <1>1, FS_Subset DEF Succeeded
    <2>2. Succeeded(ts, d) \subseteq Succeeded(us, d)
        BY <1>1 DEF Succeeded
    <2>3. /\ IsFiniteSet(Succeeded(ts, d))
          /\ Cardinality(Succeeded(ts, d)) <= Cardinality(Succeeded(us, d))
        BY <2>1, <2>2, FS_Subset
    <2>4. Cardinality(Succeeded(ts, d)) \in Nat /\ Cardinality(Succeeded(us, d)) \in Nat
        BY <2>1, <2>3, FS_CardinalityType
    <2>5. Cardinality(Succeeded(ts, d)) >= MinSuccess[d] /\ ~AuditFailed(ts, d)
        BY <1>2 DEF Satisfied
    <2>6. ~AuditFailed(us, d)
        BY <1>1, <2>5 DEF AuditFailed
    <2>7. Cardinality(Succeeded(us, d)) >= MinSuccess[d]
        BY <1>1, <2>3, <2>4, <2>5
    <2> QED BY <1>2, <2>6, <2>7 DEF Satisfied
<1>3. CASE d \notin FanIn
    BY <1>1, <1>3 DEF Satisfied
<1> QED
    BY <1>2, <1>3

\* A task the evaluation queues has its prerequisites.
LEMMA EvaluateSatisfies ==
    ASSUME NEW ts \in Statuses, NEW u, NEW d \in Tasks,
           EvaluateDependents(ts, u)[d] = "queued", ts[d] # "queued"
    PROVE  Satisfied(ts, d)
<1> DEFINE S == SkippedBy(ts, u)
           mid == Skip(ts, S)
           freed == /\ mid[d] = "blocked"
                    /\ Deps[d] \cap ({u} \cup S) # {}
                    /\ Ready(mid, d)
<1>1. EvaluateDependents(ts, u)[d] = IF freed THEN "queued" ELSE mid[d]
    BY DEF EvaluateDependents
<1>2. \A e \in Tasks : mid[e] = IF e \in S THEN "skipped" ELSE ts[e]
    BY DEF Skip
<1> HIDE DEF mid, S
<1>3. Satisfied(mid, d)
    BY <1>1, <1>2 DEF Ready
<1>4. \A e \in Tasks : mid[e] = "succeeded" => ts[e] = "succeeded"
    BY <1>2
<1> QED
    BY <1>3, <1>4, SatisfiedGrows

Held == {"blocked", "skipped", "cancelled"}

\* A step that lets a task go has found its prerequisites.
FreesSatisfied ==
    \A d \in Tasks : task[d] \in Held /\ task'[d] \notin Held => Satisfied(task', d)

LEMMA FreeByEvaluation ==
    ASSUME TypeInv, NEW ts \in Statuses, NEW u, NEW b \in BudgetStatus,
           \/ Commit(run, EvaluateDependents(ts, u), b)
           \/ task' = EvaluateDependents(ts, u),
           \A d \in Tasks : task[d] \in Held => ts[d] \in Held
    PROVE  FreesSatisfied
<1> DEFINE us == EvaluateDependents(ts, u)
<1>1. /\ us \in Statuses
      /\ \A d \in Tasks : \/ us[d] = ts[d]
                          \/ ts[d] = "blocked" /\ us[d] \in {"queued", "skipped"}
    BY EvaluateMoves
<1>2. \A d \in Tasks : us[d] = "queued" /\ ts[d] # "queued" => Satisfied(ts, d)
    BY EvaluateSatisfies
<1>3. Commit(run, us, b) \/ task' = us
    OBVIOUS
<1> HIDE DEF us
<1>4. \A d \in Tasks : \/ task'[d] = us[d]
                       \/ us[d] \in {"blocked", "queued"} /\ task'[d] = "cancelled"
    BY <1>1, <1>3, CommitType DEF TypeInv, TypeOK
<1>5. \A e \in Tasks : ts[e] = "succeeded" => task'[e] = "succeeded"
    BY <1>1, <1>4
<1> SUFFICES ASSUME NEW d \in Tasks, task[d] \in Held, task'[d] \notin Held
             PROVE  Satisfied(task', d)
    BY DEF FreesSatisfied
<1>6. Satisfied(ts, d)
    BY <1>1, <1>2, <1>4 DEF Held
<1> QED
    BY <1>5, <1>6, SatisfiedGrows

LEMMA FreeNone ==
    ASSUME TypeInv, NEW ts \in Statuses, NEW rs \in RunStatus, NEW b \in BudgetStatus,
           Commit(rs, ts, b) \/ task' = ts,
           \A d \in Tasks : task[d] \in Held => ts[d] \in Held
    PROVE  FreesSatisfied
<1>1. \A d \in Tasks : task'[d] = ts[d] \/ task'[d] = "cancelled"
    BY CommitType DEF TypeInv, TypeOK
<1> QED
    BY <1>1 DEF FreesSatisfied, Held

LEMMA FreeUnchanged ==
    ASSUME TypeInv, task' = task
    PROVE  FreesSatisfied
BY DEF FreesSatisfied

\* The transactions that end the live attempt of t.
LEMMA FreeEnding ==
    ASSUME TypeInv, OneLiveAttempt, NEW t \in Tasks, HasRunning(t),
           NEW timeout \in BOOLEAN, NEW transient, NEW late,
           \/ Discard(<<t, Current(t)>>)
           \/ Succeed(<<t, Current(t)>>)
           \/ Fail(<<t, Current(t)>>, timeout, transient, late)
           \/ RecoverStale(t, late)
    PROVE  FreesSatisfied
<1> DEFINE m == <<t, Current(t)>>
           moved(s) == [task EXCEPT ![t] = s]
<1>1. task[t] \notin Held
    BY DEF OneLiveAttempt, Held
<1>2. ASSUME NEW s \in TaskStatus
      PROVE  /\ moved(s) \in Statuses
             /\ \A d \in Tasks : task[d] \in Held => moved(s)[d] \in Held
    BY <1>1 DEF TypeInv, TypeOK, Statuses
<1>3. run \in RunStatus /\ budget \in BudgetStatus
    BY DEF TypeInv, TypeOK, BudgetStatus
<1>4. {"succeeded", "failed", "timed_out", "queued"} \subseteq TaskStatus
    BY DEF TaskStatus
<1>5. CASE Discard(m)
    <2> DEFINE ts == [task EXCEPT ![t] =
                         IF @ \in {"running", "cancelling"} THEN "cancelled" ELSE @]
    <2>1. Commit(run, ts, budget)
        BY <1>5 DEF Discard
    <2>2. ts \in Statuses /\ \A d \in Tasks : task[d] \in Held => ts[d] \in Held
        BY <1>1 DEF TypeInv, TypeOK, Statuses, TaskStatus, Held
    <2> HIDE DEF ts
    <2> QED BY <1>3, <2>1, <2>2, FreeNone
<1>6. ASSUME NEW s \in {"succeeded", "failed", "timed_out"},
             Commit(run, EvaluateDependents(moved(s), t), budget)
      PROVE  FreesSatisfied
    <2>1. /\ moved(s) \in Statuses
          /\ \A d \in Tasks : task[d] \in Held => moved(s)[d] \in Held
        BY <1>2, <1>4
    <2> HIDE DEF moved
    <2> QED BY <1>3, <1>6, <2>1, FreeByEvaluation
<1>7. ASSUME Commit(run, moved("queued"), budget) \/ task' = moved("queued")
      PROVE  FreesSatisfied
    <2>1. /\ moved("queued") \in Statuses
          /\ \A d \in Tasks : task[d] \in Held => moved("queued")[d] \in Held
        BY <1>2, <1>4
    <2> HIDE DEF moved
    <2> QED BY <1>3, <1>7, <2>1, FreeNone
<1>8. CASE Succeed(m)
    BY <1>6, <1>8 DEF Succeed
<1>9. CASE Fail(m, timeout, transient, late)
    <2>1. FailureStatus(timeout) \in {"failed", "timed_out"}
        BY DEF FailureStatus
    <2>2. \/ Commit(run, EvaluateDependents(moved(FailureStatus(timeout)), t), budget)
          \/ task' = moved("queued")
        BY <1>9 DEF Fail
    <2> QED BY <1>6, <1>7, <2>1, <2>2
<1>10. CASE RecoverStale(t, late)
    <2>1. \/ Discard(m)
          \/ Commit(run, EvaluateDependents(moved("failed"), t), budget)
          \/ Commit(run, moved("queued"), budget)
        BY <1>10 DEF RecoverStale
    <2> QED BY <1>5, <1>6, <1>7, <2>1
<1> QED
    BY <1>5, <1>8, <1>9, <1>10

LEMMA FreeReceive ==
    ASSUME TypeInv, NEW m \in broker, Receive(m)
    PROVE  FreesSatisfied
<1>m. m[1] \in Tasks
    BY Indexes
<1>1. CASE IgnoreDelivery(m) \/ AbortClaim(m)
    BY <1>1, FreeUnchanged DEF IgnoreDelivery, AbortClaim
<1>2. CASE DeliverToCancelled(m)
    <2> DEFINE ts == [task EXCEPT ![m[1]] = "cancelled"]
    <2>1. ts \in Statuses /\ \A d \in Tasks : task[d] \in Held => ts[d] \in Held
        BY <1>m DEF TypeInv, TypeOK, Statuses, TaskStatus, Held
    <2>2. Commit(run, ts, budget) \/ task' = task
        BY <1>2 DEF DeliverToCancelled
    <2> HIDE DEF ts
    <2> QED BY <2>1, <2>2, FreeNone, FreeUnchanged DEF TypeInv, TypeOK, BudgetStatus
<1>3. CASE RejectForBudget(m) \/ RejectLate(m)
    <2>1. task[m[1]] = "queued"
        BY <1>3 DEF RejectForBudget, RejectLate, Claimable
    <2>2. PICK s \in TaskStatus, b \in BudgetStatus : Reject(m, s, b)
        BY <1>3 DEF RejectForBudget, RejectLate, TaskStatus, BudgetStatus, TypeInv, TypeOK
    <2> DEFINE ended == [task EXCEPT ![m[1]] = s]
    <2>3. ended \in Statuses /\ \A d \in Tasks : task[d] \in Held => ended[d] \in Held
        BY <1>m, <2>1 DEF TypeInv, TypeOK, Statuses, Held
    <2>4. Commit(run, EvaluateDependents(ended, m[1]), b)
        BY <2>2 DEF Reject
    <2> HIDE DEF ended
    <2> QED BY <2>3, <2>4, FreeByEvaluation
<1>4. CASE ClaimTask(m)
    BY <1>4, <1>m DEF ClaimTask, Claimable, FreesSatisfied, Held, TypeInv, TypeOK
<1> QED
    BY <1>1, <1>2, <1>3, <1>4 DEF Receive

LEMMA FreeFinish ==
    ASSUME TypeInv, OneLiveAttempt, NEW m \in exec, Finish(m)
    PROVE  FreesSatisfied
<1>m. m[1] \in Tasks
    BY Indexes
<1>l. ASSUME ~AttemptOver(m)
      PROVE  /\ m = <<m[1], Current(m[1])>>
             /\ HasRunning(m[1])
             /\ task[m[1]] \notin Held
    BY <1>l, LiveExecution DEF Held
<1>1. CASE FinishSuccess(m)
    BY <1>1, <1>m, <1>l, FreeEnding DEF FinishSuccess
<1>2. CASE PauseForProduct(m)
    BY <1>2, <1>m, <1>l DEF PauseForProduct, FreesSatisfied, TypeInv, TypeOK
<1>3. CASE PauseRefused(m) \/ LateResult(m) \/ AbortCompletion(m)
    BY <1>3, FreeUnchanged DEF PauseRefused, LateResult, AbortCompletion
<1>4. ASSUME NEW timeout \in BOOLEAN, NEW transient \in BOOLEAN, NEW late \in LateChoices,
             FinishFailure(m, timeout, transient, late)
      PROVE  FreesSatisfied
    BY <1>4, <1>m, <1>l, FreeEnding DEF FinishFailure
<1>5. CASE FinishCancelled(m)
    BY <1>5, <1>m, <1>l, FreeEnding DEF FinishCancelled
<1>6. ASSUME NEW late \in LateChoices, SoftLimit(m, late)
      PROVE  FreesSatisfied
    <2>1. CASE HasRunning(m[1])
        BY <1>6, <1>m, <2>1, FreeEnding DEF SoftLimit
    <2>2. CASE ~HasRunning(m[1])
        BY <1>6, <2>2, FreeUnchanged DEF SoftLimit
    <2> QED BY <2>1, <2>2
<1> QED
    BY <1>1, <1>2, <1>3, <1>4, <1>5, <1>6 DEF Finish

LEMMA FreeNext == IInv /\ [Next]_vars => FreesSatisfied
<1> SUFFICES ASSUME IInv, [Next]_vars PROVE FreesSatisfied
    OBVIOUS
<1>t. TypeInv /\ OneLiveAttempt /\ run \in RunStatus /\ budget \in BudgetStatus
    BY DEF IInv, TypeInv, TypeOK, BudgetStatus
<1>1. CASE Relay \/ RunDeadline \/ UNCHANGED vars
    BY <1>1, <1>t, FreeUnchanged DEF Relay, RelayClaim, RelayCheck, RelaySend, RelayMark,
       RelayFail, RelayCrash, RelayRevoke, RunDeadline, vars
<1>2. ASSUME NEW m \in exec,
             \/ PublishReport(m) \/ Redeliver(m)
             \/ \E requeued \in BOOLEAN : Crash(m, requeued)
      PROVE  FreesSatisfied
    BY <1>2, <1>t, FreeUnchanged DEF PublishReport, Redeliver, Crash
<1>3. ASSUME NEW t \in Tasks, NEW late \in LateChoices, RecoverStale(t, late)
      PROVE  FreesSatisfied
    <2>1. HasRunning(t)
        BY <1>3 DEF RecoverStale, Stale
    <2> QED BY <1>3, <1>t, <2>1, FreeEnding
<1>4. CASE RepairRun
    BY <1>4, <1>t, FreeNone DEF RepairRun, TypeInv, TypeOK, Statuses
<1>5. CASE ExpireClarification
    BY <1>5 DEF ExpireClarification, ExpiredStatus, FreesSatisfied, Held
<1>6. CASE AnswerProduct
    <2>1. PICK g \in Gate :
            /\ task[g] = "waiting_for_input"
            /\ task' = EvaluateDependents([task EXCEPT ![g] = "succeeded"], g)
        BY <1>6 DEF AnswerProduct
    <2> DEFINE ended == [task EXCEPT ![g] = "succeeded"]
    <2>2. ended \in Statuses /\ \A d \in Tasks : task[d] \in Held => ended[d] \in Held
        BY <1>t, <2>1, RuntimeAssumption DEF TypeInv, TypeOK, Statuses, TaskStatus, Held
    <2>3. task' = EvaluateDependents(ended, g)
        BY <2>1
    <2> HIDE DEF ended
    <2> QED BY <1>t, <2>2, <2>3, FreeByEvaluation
<1>7. CASE RequestCancellation
    <2> DEFINE ts == [t \in Tasks |-> CancelledStatus(task[t])]
    <2>1. ts \in Statuses /\ \A d \in Tasks : task[d] \in Held => ts[d] \in Held
        BY <1>t DEF CancelledStatus, TypeInv, TypeOK, Statuses, TaskStatus, Held
    <2>2. Commit("cancelling", ts, budget) /\ "cancelling" \in RunStatus
        BY <1>7 DEF RequestCancellation, RunStatus
    <2> HIDE DEF ts
    <2> QED BY <1>t, <2>1, <2>2, FreeNone
<1>8. ASSUME NEW t \in Tasks, RetryTask(t)
      PROVE  FreesSatisfied
    <2> DEFINE queued == [task EXCEPT ![t] = "queued"]
    <2>1. task' = ResetSkipped(queued, t) /\ task[t] \in {"failed", "timed_out"}
        BY <1>8 DEF RetryTask, MayRetry
    <2>2. queued \in Statuses /\ \A d \in Tasks : task[d] \in Held => queued[d] \in Held
        BY <1>t, <2>1 DEF TypeInv, TypeOK, Statuses, TaskStatus, Held
    <2> HIDE DEF queued
    <2>3. \A d \in Tasks : task[d] \in Held => task'[d] \in Held
        BY <2>1, <2>2, ResetMoves DEF Held
    <2> QED BY <2>3 DEF FreesSatisfied
<1> QED
    BY <1>t, <1>1, <1>2, <1>3, <1>4, <1>5, <1>6, <1>7, <1>8, FreeReceive, FreeFinish
    DEF Next, Worker, Recovery, Operator

\* Nothing takes an accepted result back.
LEMMA SuccessStep == IInv /\ [Next]_vars => SuccessKept
<1> SUFFICES ASSUME IInv, [Next]_vars, NEW d \in Tasks, task[d] = "succeeded"
             PROVE  task'[d] = "succeeded"
    BY DEF SuccessKept
<1>1. TypeInv /\ OneLiveAttempt
    BY DEF IInv
<1>2. CASE KeepsLive
    BY <1>2 DEF KeepsLive
<1>3. ASSUME NEW t \in Tasks, EndsLive(t)
      PROVE  task'[d] = "succeeded"
    <2>1. d # t
        BY <1>1, <1>3 DEF EndsLive, OneLiveAttempt
    <2> QED BY <1>3, <2>1 DEF EndsLive, SideMove
<1>4. ASSUME NEW t \in Tasks, StartsLive(t)
      PROVE  task'[d] = "succeeded"
    BY <1>1, <1>4 DEF StartsLive, TypeInv, TypeOK
<1> QED
    BY <1>1, <1>2, <1>3, <1>4, StepShape

\* Nothing takes an accepted result back (_reset_skipped_descendants,
\* expire_pending, request_cancellation).
THEOREM ResultsStayAccepted == Spec => SuccessIsFinal
<1>1. IInv /\ [Next]_vars => SuccessKept
    BY SuccessStep
<1> QED
    BY <1>1, Inductive, PTL DEF Spec, SuccessIsFinal

\* A task that got past `blocked' has the successful upstreams its dependency
\* mode asks for (_evaluate_dependents, _reset_skipped_descendants).
THEOREM DependenciesAlwaysHold == Spec => []DependenciesHold
<1>1. Init => DependenciesHold
    BY DEF Init, DependenciesHold
<1>2. IInv /\ DependenciesHold /\ [Next]_vars => DependenciesHold'
    <2> SUFFICES ASSUME IInv, DependenciesHold, [Next]_vars, NEW d \in Tasks,
                        Deps[d] # {}, task'[d] \notin Held
                 PROVE  Satisfied(task', d)
        BY DEF DependenciesHold, Held, Satisfied, Succeeded, AuditFailed
    <2>1. \A e \in Tasks : task[e] = "succeeded" => task'[e] = "succeeded"
        BY SuccessStep DEF SuccessKept
    <2>2. CASE task[d] \notin Held
        <3>1. Satisfied(task, d)
            BY <2>2 DEF DependenciesHold, Held
        <3> QED BY <2>1, <3>1, SatisfiedGrows
    <2>3. CASE task[d] \in Held
        BY <2>3, FreeNext DEF FreesSatisfied
    <2> QED BY <2>2, <2>3
<1> QED
    BY <1>1, <1>2, Inductive, PTL DEF Spec

-----------------------------------------------------------------------------
(* The kinds of steps *)

Stopped == {"cancelling", "cancelled"}
Moved(t, s) == [task EXCEPT ![t] = s]
Live(t) == <<t, Current(t)>>
EndStatus == {"succeeded", "failed", "timed_out"}

\* The statuses under which cancellations leave tasks: `cancelling' only while
\* the run is, and nothing executing once it is cancelled.
Halting ==
    /\ \A t \in Tasks : task[t] = "cancelling" => run = "cancelling"
    /\ CancelledIsIdle

\* Only dispatch rows, deliveries and executions move.
Untouched == UNCHANGED <<run, task, attempts, budget, clar, report, retries>>

\* No row moves and no delivery is lost.
Idle == Untouched /\ UNCHANGED <<dispatch, relaying>> /\ broker \subseteq broker'

\* A delivery is dropped that could not have been claimed.
Dequeues(m) ==
    /\ ~Claimable(m) \/ "abort" \in Faults
    /\ Untouched /\ UNCHANGED <<dispatch, relaying>> /\ broker' = broker \ {m}

\* A transaction about t takes no delivery but its own, and no dispatch row
\* from a relay.
About(t) ==
    /\ relaying' = relaying
    /\ \A m \in broker : m[1] # t => m \in broker'
    /\ UNCHANGED <<clar, report, retries>>

\* t ends, with or without an attempt, and its dependents are evaluated.
Ending(t, s, b) ==
    /\ run \notin Stopped
    /\ \/ task[t] = "running" /\ EndAttempt(Live(t), s)
       \/ task[t] = "queued" /\ s # "succeeded" /\ attempts' = attempts
    /\ Commit(run, EvaluateDependents(Moved(t, s), t), b)
    /\ QueueDispatches(EvaluateDependents(Moved(t, s), t))
    /\ About(t)

\* t is given up.
Dropping(t) ==
    /\ \/ task[t] \in Executing /\ run # "running" /\ EndAttempt(Live(t), "cancelled")
       \/ task[t] \in {"blocked", "queued"} /\ run \in Stopped /\ attempts' = attempts
    /\ Commit(run, Moved(t, "cancelled"), budget)
    /\ dispatch' = dispatch
    /\ About(t)

\* t is to be tried again.
Requeueing(t, s) ==
    /\ run \notin Stopped
    /\ task[t] = "running" /\ EndAttempt(Live(t), s)
    /\ task' = Moved(t, "queued")
    /\ UNCHANGED <<run, budget>>
    /\ QueueDispatches(Moved(t, "queued"))
    /\ About(t)

Claiming(t) ==
    /\ run \notin Stopped \cup {"waiting_for_input"}
    /\ task[t] = "queued"
    /\ task' = Moved(t, "running")
    /\ run' = IF run = "queued" THEN "running" ELSE run
    /\ attempts' = [attempts EXCEPT ![t] = Append(@, "running")]
    /\ UNCHANGED <<budget, dispatch>>
    /\ About(t)

Pausing(t) ==
    /\ t \in Gate /\ task[t] = "running"
    /\ run \notin Stopped /\ clar = "none" /\ LegalRunMove(run, "waiting_for_input")
    /\ EndAttempt(Live(t), "succeeded")
    /\ task' = Moved(t, "waiting_for_input")
    /\ run' = "waiting_for_input" /\ clar' = "pending"
    /\ UNCHANGED <<budget, dispatch, report, retries, relaying, broker>>

\* What happens to one task.
Kind(t) ==
    \/ \E s \in EndStatus, b \in BudgetStatus : Ending(t, s, b)
    \/ Dropping(t)
    \/ \E s \in {"failed", "timed_out"} : Requeueing(t, s)
    \/ Claiming(t) \/ Pausing(t) \/ RetryTask(t)

AnyKind ==
    \/ Relay \/ Idle
    \/ \E m \in broker : Dequeues(m)
    \/ \E t \in Tasks : Kind(t)
    \/ RepairRun \/ ExpireClarification \/ AnswerProduct \/ RequestCancellation
    \/ \E m \in exec : PublishReport(m)

LEMMA QuietUntouched ==
    ASSUME Relay \/ Idle \/ \E m \in broker : Dequeues(m)
    PROVE  Untouched
<1>1. CASE Relay
    BY <1>1 DEF Relay, RelayClaim, RelayCheck, RelaySend, RelayMark, RelayFail,
       RelayCrash, RelayRevoke, Untouched, fixedVars
<1> QED
    BY <1>1 DEF Idle, Dequeues

\* The transactions that end the live attempt of t.
LEMMA KindEnding ==
    ASSUME TypeInv, OneLiveAttempt, Halting, NEW t \in Tasks, HasRunning(t),
           NEW timeout \in BOOLEAN, NEW transient, NEW late,
           UNCHANGED <<relaying, broker, clar, report, retries>>,
           \/ Discard(Live(t)) /\ run # "running"
           \/ Succeed(Live(t)) /\ run # "cancelling"
           \/ Fail(Live(t), timeout, transient, late) /\ run # "cancelling"
    PROVE  Kind(t)
<1>1. task[t] \in Executing /\ run # "cancelled"
    BY DEF OneLiveAttempt, Executing, Halting, CancelledIsIdle
<1>2. About(t)
    BY DEF About
<1>3. ASSUME run # "cancelling"
      PROVE  run \notin Stopped /\ task[t] = "running"
    BY <1>1, <1>3 DEF Halting, Stopped, Executing
<1>4. Live(t) = <<t, Current(t)>> /\ Live(t)[1] = t /\ Live(t)[2] = Current(t)
    BY DEF Live
<1>5. budget \in BudgetStatus
    BY DEF TypeInv, TypeOK, BudgetStatus
<1>6. CASE Discard(Live(t)) /\ run # "running"
    <2>1. [task EXCEPT ![t] = IF @ \in {"running", "cancelling"} THEN "cancelled" ELSE @]
            = Moved(t, "cancelled")
        BY <1>1 DEF Moved, Executing
    <2>2. EndAttempt(Live(t), "cancelled") /\ Commit(run, Moved(t, "cancelled"), budget)
          /\ dispatch' = dispatch
        BY <1>4, <1>6, <2>1 DEF Discard
    <2> QED BY <1>1, <1>2, <1>6, <2>2 DEF Kind, Dropping
<1>7. CASE Succeed(Live(t)) /\ run # "cancelling"
    <2>1. /\ EndAttempt(Live(t), "succeeded")
          /\ Commit(run, EvaluateDependents(Moved(t, "succeeded"), t), budget)
          /\ QueueDispatches(EvaluateDependents(Moved(t, "succeeded"), t))
        BY <1>4, <1>7 DEF Succeed, Moved
    <2>2. Ending(t, "succeeded", budget)
        BY <1>2, <1>3, <1>7, <2>1 DEF Ending
    <2> QED BY <1>5, <2>2 DEF Kind, EndStatus
<1>8. CASE Fail(Live(t), timeout, transient, late) /\ run # "cancelling"
    <2> DEFINE s == FailureStatus(timeout)
    <2>1. s \in {"failed", "timed_out"}
        BY DEF FailureStatus
    <2>2. CASE Retryable(Live(t), transient, late)
        <3>1. /\ EndAttempt(Live(t), s) /\ task' = Moved(t, "queued")
              /\ UNCHANGED <<run, budget>> /\ QueueDispatches(Moved(t, "queued"))
            BY <1>4, <1>8, <2>2 DEF Fail, Moved
        <3> HIDE DEF s
        <3>2. Requeueing(t, s)
            BY <1>2, <1>3, <1>8, <3>1 DEF Requeueing
        <3> QED BY <2>1, <3>2 DEF Kind
    <2>3. CASE ~Retryable(Live(t), transient, late)
        <3>1. /\ EndAttempt(Live(t), s)
              /\ Commit(run, EvaluateDependents(Moved(t, s), t), budget)
              /\ QueueDispatches(EvaluateDependents(Moved(t, s), t))
            BY <1>4, <1>8, <2>3 DEF Fail, Moved
        <3> HIDE DEF s
        <3>2. Ending(t, s, budget)
            BY <1>2, <1>3, <1>8, <3>1 DEF Ending
        <3> QED BY <1>5, <2>1, <3>2 DEF Kind, EndStatus
    <2> QED BY <2>2, <2>3
<1> QED
    BY <1>6, <1>7, <1>8

\* Finalising a run that is not being cancelled and has an unfinished task
\* changes nothing more.
LEMMA CommitOpen ==
    ASSUME NEW rs \in RunStatus, NEW ts \in Statuses, NEW b, Commit(rs, ts, b),
           rs # "cancelling", Unfinished(ts) # {}
    PROVE  run' = rs /\ task' = ts /\ budget' = b
<1>1. FinalRun(rs, ts) = rs
    BY DEF FinalRun
<1>2. FinalTasks(rs, ts) = [t \in Tasks |-> ts[t]]
    BY DEF FinalTasks
<1>3. ts = [t \in Tasks |-> ts[t]]
    BY DEF Statuses
<1> QED
    BY <1>1, <1>2, <1>3 DEF Commit

LEMMA KindRecover ==
    ASSUME TypeInv, OneLiveAttempt, Halting, NEW t \in Tasks, NEW late, RecoverStale(t, late)
    PROVE  Kind(t)
<1>1. HasRunning(t) /\ task[t] \in Executing /\ UNCHANGED <<relaying, broker, clar, report, retries>>
    BY DEF RecoverStale, Stale, Executing, queueVars, fixedVars
<1>2. run # "cancelled" /\ run \in RunStatus /\ budget \in BudgetStatus
    BY <1>1 DEF Halting, CancelledIsIdle, TypeInv, TypeOK, BudgetStatus
<1>3. CASE run = "cancelling" \/ task[t] = "cancelling"
    <2>1. Discard(Live(t)) /\ run = "cancelling"
        BY <1>3 DEF RecoverStale, Halting, Live
    <2> QED BY <1>1, <2>1, KindEnding
<1>4. CASE ~(run = "cancelling" \/ task[t] = "cancelling")
    <2>1. task[t] = "running" /\ run \notin Stopped /\ About(t)
        BY <1>1, <1>2, <1>4 DEF Executing, Stopped, About
    <2>2. EndAttempt(Live(t), "failed")
        BY <1>4 DEF RecoverStale, Live
    <2>3. CASE Recoverable(t, late)
        <3>1. Commit(run, Moved(t, "queued"), budget) /\ QueueDispatches(Moved(t, "queued"))
            BY <1>4, <2>3 DEF RecoverStale, Moved
        <3>2. /\ Moved(t, "queued") \in Statuses
              /\ Moved(t, "queued")[t] = "queued"
            BY DEF Moved, TypeInv, TypeOK, Statuses, TaskStatus
        <3>3. Unfinished(Moved(t, "queued")) # {}
            BY <3>2 DEF Unfinished, TaskTerminal
        <3>4. run' = run /\ task' = Moved(t, "queued") /\ budget' = budget
            BY <1>2, <1>4, <3>1, <3>2, <3>3, CommitOpen
        <3>5. Requeueing(t, "failed")
            BY <2>1, <2>2, <3>1, <3>4 DEF Requeueing
        <3> QED BY <3>5 DEF Kind
    <2>4. CASE ~Recoverable(t, late)
        <3>1. /\ Commit(run, EvaluateDependents(Moved(t, "failed"), t), budget)
              /\ QueueDispatches(EvaluateDependents(Moved(t, "failed"), t))
            BY <1>4, <2>4 DEF RecoverStale, Moved
        <3>2. Ending(t, "failed", budget)
            BY <2>1, <2>2, <3>1 DEF Ending
        <3> QED BY <1>2, <3>2 DEF Kind, EndStatus
    <2> QED BY <2>3, <2>4
<1> QED
    BY <1>3, <1>4

LEMMA KindReceive ==
    ASSUME TypeInv, NEW m \in broker, Receive(m)
    PROVE  Dequeues(m) \/ Kind(m[1])
<1>1. m[1] \in Tasks
    BY Indexes
<1>2. CASE IgnoreDelivery(m)
    <2>1. ~Claimable(m)
        BY <1>2 DEF IgnoreDelivery, Claimable, TaskTerminal
    <2> QED BY <1>2, <2>1 DEF IgnoreDelivery, Dequeues, Untouched, fixedVars
<1>3. CASE AbortClaim(m)
    BY <1>3 DEF AbortClaim, Dequeues, Untouched, fixedVars
<1>4. CASE DeliverToCancelled(m)
    <2>1. CASE task[m[1]] \in {"blocked", "queued"}
        <3>1. /\ run \in Stopped /\ attempts' = attempts /\ dispatch' = dispatch
              /\ Commit(run, Moved(m[1], "cancelled"), budget)
              /\ About(m[1])
            BY <1>4, <2>1 DEF DeliverToCancelled, Stopped, Moved, About, fixedVars
        <3> QED BY <2>1, <3>1 DEF Kind, Dropping
    <2>2. CASE task[m[1]] \notin {"blocked", "queued"}
        BY <1>4, <2>2 DEF DeliverToCancelled, Dequeues, Claimable, Untouched, fixedVars
    <2> QED BY <2>1, <2>2
<1>5. CASE RejectForBudget(m) \/ RejectLate(m)
    <2>1. run \notin Stopped /\ task[m[1]] = "queued"
        BY <1>5 DEF RejectForBudget, RejectLate, Claimable, Stopped
    <2>2. PICK s \in {"failed", "timed_out"}, b \in BudgetStatus : Reject(m, s, b)
        BY <1>5 DEF RejectForBudget, RejectLate, BudgetStatus, TypeInv, TypeOK
    <2>3. /\ Commit(run, EvaluateDependents(Moved(m[1], s), m[1]), b)
          /\ QueueDispatches(EvaluateDependents(Moved(m[1], s), m[1]))
          /\ attempts' = attempts /\ About(m[1])
        BY <2>2 DEF Reject, Moved, About, fixedVars
    <2>4. Ending(m[1], s, b)
        BY <2>1, <2>3 DEF Ending
    <2> QED BY <2>4 DEF Kind, EndStatus
<1>6. CASE ClaimTask(m)
    <2>1. Claiming(m[1])
        BY <1>6 DEF ClaimTask, Claimable, Claiming, Stopped, Moved, About, fixedVars
    <2> QED BY <2>1 DEF Kind
<1> QED
    BY <1>2, <1>3, <1>4, <1>5, <1>6 DEF Receive

LEMMA KindFinish ==
    ASSUME TypeInv, OneLiveAttempt, Halting, NEW m \in exec, Finish(m)
    PROVE  Idle \/ Kind(m[1])
<1>1. m[1] \in Tasks
    BY Indexes
<1>2. ASSUME ~AttemptOver(m)
      PROVE  m = Live(m[1]) /\ HasRunning(m[1]) /\ task[m[1]] \in Executing
    BY <1>2, LiveExecution DEF Live, Executing
<1>3. ASSUME Acknowledge(m), UNCHANGED fixedVars
      PROVE  UNCHANGED <<relaying, broker, clar, report, retries>>
    BY <1>3 DEF Acknowledge, fixedVars
<1>4. CASE FinishSuccess(m)
    <2>1. ~AttemptOver(m) /\ UNCHANGED <<relaying, broker, clar, report, retries>>
        BY <1>3, <1>4 DEF FinishSuccess
    <2>2. m = Live(m[1]) /\ HasRunning(m[1])
        BY <1>2, <2>1
    <2>3. \/ Discard(m) /\ run # "running"
          \/ Succeed(m) /\ run # "cancelling"
        BY <1>1, <1>4 DEF FinishSuccess, Halting
    <2> QED BY <1>1, <2>1, <2>2, <2>3, KindEnding
<1>5. CASE PauseForProduct(m)
    <2>1. m = Live(m[1]) /\ task[m[1]] \in Executing
        BY <1>2, <1>5 DEF PauseForProduct
    <2>2. run \notin Stopped /\ task[m[1]] = "running"
        BY <1>1, <1>5, <2>1 DEF PauseForProduct, Executing, Stopped, Halting, CancelledIsIdle
    <2>3. Pausing(m[1])
        BY <1>5, <2>1, <2>2 DEF PauseForProduct, Pausing, Moved, Acknowledge
    <2> QED BY <2>3 DEF Kind
<1>6. CASE PauseRefused(m) \/ LateResult(m) \/ AbortCompletion(m)
    BY <1>6 DEF PauseRefused, LateResult, AbortCompletion, Acknowledge, Idle, Untouched, fixedVars
<1>7. ASSUME NEW timeout \in BOOLEAN, NEW transient \in BOOLEAN, NEW late \in LateChoices,
             FinishFailure(m, timeout, transient, late)
      PROVE  Kind(m[1])
    <2>1. ~AttemptOver(m) /\ UNCHANGED <<relaying, broker, clar, report, retries>>
        BY <1>3, <1>7 DEF FinishFailure
    <2>2. m = Live(m[1]) /\ HasRunning(m[1])
        BY <1>2, <2>1
    <2>3. \/ Discard(m) /\ run # "running"
          \/ Fail(m, timeout, transient, late) /\ run # "cancelling"
        BY <1>7 DEF FinishFailure
    <2> QED BY <1>1, <2>1, <2>2, <2>3, KindEnding
<1>8. CASE FinishCancelled(m)
    <2>1. ~AttemptOver(m) /\ UNCHANGED <<relaying, broker, clar, report, retries>>
        BY <1>3, <1>8 DEF FinishCancelled
    <2>2. m = Live(m[1]) /\ HasRunning(m[1])
        BY <1>2, <2>1
    <2>3. Discard(m) /\ run # "running"
        BY <1>8 DEF FinishCancelled, CancelledError
    <2> QED BY <1>1, <2>1, <2>2, <2>3, KindEnding
<1>9. ASSUME NEW late \in LateChoices, SoftLimit(m, late)
      PROVE  Idle \/ Kind(m[1])
    <2>1. UNCHANGED <<relaying, broker, clar, report, retries>>
        BY <1>3, <1>9 DEF SoftLimit
    <2>2. CASE HasRunning(m[1])
        <3>1. \/ Discard(Live(m[1])) /\ run # "running"
              \/ Fail(Live(m[1]), TRUE, TRUE, late) /\ run # "cancelling"
            BY <1>9, <2>2 DEF SoftLimit, Live
        <3> QED BY <1>1, <2>1, <2>2, <3>1, KindEnding
    <2>3. CASE ~HasRunning(m[1])
        BY <1>9, <2>1, <2>3 DEF SoftLimit, Idle, Untouched
    <2> QED BY <2>2, <2>3
<1> QED
    BY <1>4, <1>5, <1>6, <1>7, <1>8, <1>9 DEF Finish

\* Every step is of one of these kinds.
LEMMA StepKinds ==
    ASSUME TypeInv, OneLiveAttempt, Halting, [Next]_vars
    PROVE  AnyKind
<1>1. \A m \in broker \cup exec : m[1] \in Tasks
    BY Indexes
<1>2. CASE Worker
    <2>1. ASSUME NEW m \in exec, Redeliver(m) \/ \E requeued \in BOOLEAN : Crash(m, requeued)
          PROVE  Idle
        BY <2>1 DEF Redeliver, Crash, Idle, Untouched, fixedVars
    <2> QED BY <1>1, <1>2, <2>1, KindReceive, KindFinish DEF Worker, AnyKind
<1>3. CASE Recovery
    BY <1>3, KindRecover DEF Recovery, AnyKind
<1>4. CASE Operator
    BY <1>4 DEF Operator, AnyKind, Kind
<1>5. CASE RunDeadline \/ UNCHANGED vars
    BY <1>5 DEF RunDeadline, vars, queueVars, Idle, Untouched, AnyKind
<1> QED
    BY <1>2, <1>3, <1>4, <1>5 DEF Next, AnyKind

-----------------------------------------------------------------------------
(* What the kinds of steps do *)

\* Unfinished, and with no failure to end the run with.
Undecided(ts) ==
    /\ report = "none"
    /\ \E t \in Tasks : ts[t] # "succeeded"
    /\ \A t \in Tasks : ts[t] \notin {"failed", "timed_out"}

\* What a finalisation makes of a run that is not being cancelled.
Stays == run' = run /\ (run \in {"queued", "running"} /\ Unfinished(task') = {} => Undecided(task'))

Closes ==
    /\ run \in {"queued", "running"}
    /\ Unfinished(task') = {}
    /\ budget' # "active"
    /\ report # "none" => run' = report
    /\ report = "none" => \/ run' = "complete" /\ \A t \in Tasks : task'[t] = "succeeded"
                          \/ run' = "failed" /\ \E t \in Tasks : task'[t] # "succeeded"

\* What it makes of one that is.
Lingers(ts) == run' = "cancelling" /\ task' = ts /\ Interrupted(ts)

Abandons(ts) ==
    /\ run' = "cancelled"
    /\ budget' # "active"
    /\ \A t \in Tasks : /\ ts[t] \notin Executing
                        /\ task'[t] = IF ts[t] \in {"blocked", "queued"} THEN "cancelled" ELSE ts[t]

LEMMA CommitCloses ==
    ASSUME TypeInv, NEW ts \in Statuses, NEW b \in BudgetStatus, Commit(run, ts, b),
           run # "cancelling"
    PROVE  task' = ts /\ ((Stays /\ budget' = b) \/ Closes)
<1>1. FinalTasks(run, ts) = [t \in Tasks |-> ts[t]] /\ ts = [t \in Tasks |-> ts[t]]
    BY DEF FinalTasks, Statuses
<1>2. /\ task' = ts /\ run' = FinalRun(run, ts) /\ LegalRunMove(run, run')
      /\ budget' = IF run' # run /\ run' \in RunTerminal THEN ClosedBudget(b) ELSE b
    BY <1>1 DEF Commit
<1>3. run \in RunStatus /\ report \in {"none", "complete", "partial"}
    BY DEF TypeInv, TypeOK
<1> HIDE DEF Commit
<1>4. CASE run = "waiting_for_input"
    BY <1>2, <1>4 DEF FinalRun, Stays
<1>5. CASE run # "waiting_for_input" /\ Unfinished(ts) # {}
    BY <1>2, <1>5 DEF FinalRun, Stays
<1>6. CASE run # "waiting_for_input" /\ Unfinished(ts) = {} /\ report # "none"
    <2>1. run' = report
        BY <1>2, <1>6 DEF FinalRun
    <2>2. run' # run => run \in {"queued", "running"}
        BY <1>2, <1>3, <1>6, <2>1 DEF LegalRunMove, RunTransitions
    <2>3. run' # run => budget' # "active"
        BY <1>2, <1>3, <1>6, <2>1 DEF ClosedBudget, RunTerminal
    <2>4. run' = run => run \notin {"queued", "running"} /\ budget' = b
        BY <1>2, <1>3, <2>1
    <2> QED BY <1>2, <1>6, <2>1, <2>2, <2>3, <2>4 DEF Stays, Closes
<1>7. CASE run # "waiting_for_input" /\ Unfinished(ts) = {} /\ report = "none"
    <2>1. run' = IF \A t \in Tasks : ts[t] = "succeeded" THEN "complete"
                 ELSE IF /\ \E t \in Tasks : ts[t] \in {"failed", "timed_out"}
                         /\ run \in {"queued", "running"}
                 THEN "failed" ELSE run
        BY <1>2, <1>7 DEF FinalRun
    <2>2. CASE \A t \in Tasks : ts[t] = "succeeded"
        <3>1. run' = "complete"
            BY <2>1, <2>2
        <3>2. run # "complete" => run \in {"queued", "running"} /\ budget' # "active"
            BY <1>2, <1>3, <3>1 DEF LegalRunMove, RunTransitions, ClosedBudget, RunTerminal
        <3>3. run = "complete" => budget' = b
            BY <1>2, <3>1
        <3> QED BY <1>2, <1>7, <2>2, <3>1, <3>2, <3>3 DEF Stays, Closes
    <2>3. CASE /\ ~\A t \in Tasks : ts[t] = "succeeded"
               /\ \E t \in Tasks : ts[t] \in {"failed", "timed_out"}
               /\ run \in {"queued", "running"}
        <3>1. run' = "failed"
            BY <2>1, <2>3
        <3>2. budget' # "active"
            BY <1>2, <2>3, <3>1 DEF ClosedBudget, RunTerminal
        <3> QED BY <1>2, <1>7, <2>3, <3>1, <3>2 DEF Closes
    <2>4. CASE /\ ~\A t \in Tasks : ts[t] = "succeeded"
               /\ ~(/\ \E t \in Tasks : ts[t] \in {"failed", "timed_out"}
                    /\ run \in {"queued", "running"})
        <3>1. run' = run
            BY <2>1, <2>4
        <3> QED BY <1>2, <1>7, <2>4, <3>1 DEF Stays, Undecided
    <2> QED BY <2>2, <2>3, <2>4
<1> QED
    BY <1>4, <1>5, <1>6, <1>7

LEMMA CommitStops ==
    ASSUME NEW ts \in Statuses, NEW b, Commit("cancelling", ts, b)
    PROVE  (Lingers(ts) /\ budget' = b) \/ Abandons(ts)
<1>1. FinalRun("cancelling", ts) = IF Interrupted(ts) THEN "cancelling" ELSE "cancelled"
    BY DEF FinalRun
<1>2. ts = [t \in Tasks |-> ts[t]]
    BY DEF Statuses
<1>3. CASE Interrupted(ts)
    <2>1. FinalTasks("cancelling", ts) = [t \in Tasks |-> ts[t]]
        BY <1>1, <1>3 DEF FinalTasks
    <2> QED BY <1>1, <1>2, <1>3, <2>1 DEF Commit, Lingers
<1>4. CASE ~Interrupted(ts)
    <2>1. FinalRun("cancelling", ts) = "cancelled"
        BY <1>1, <1>4
    <2>2. FinalTasks("cancelling", ts) =
                [t \in Tasks |-> IF ts[t] \in {"blocked", "queued"} THEN "cancelled" ELSE ts[t]]
        BY <2>1 DEF FinalTasks
    <2>3. \A t \in Tasks : ts[t] \notin Executing
        BY <1>4 DEF Interrupted, Executing
    <2>4. budget' # "active"
        BY <2>1 DEF Commit, ClosedBudget, RunTerminal
    <2> QED BY <2>1, <2>2, <2>3, <2>4 DEF Commit, Abandons
<1> QED
    BY <1>3, <1>4

LEMMA MovedIs ==
    ASSUME TypeInv, NEW t \in Tasks, NEW s \in TaskStatus
    PROVE  /\ Moved(t, s) \in Statuses
           /\ Moved(t, s)[t] = s
           /\ \A d \in Tasks \ {t} : Moved(t, s)[d] = task[d]
BY DEF Moved, TypeInv, TypeOK, Statuses

\* t ends as s, and of the other tasks only blocked ones move.
EndsAs(t, s) ==
    /\ task'[t] = s
    /\ \A d \in Tasks \ {t} :
          \/ task'[d] = task[d]
          \/ task[d] = "blocked" /\ task'[d] \in {"queued", "skipped"}

LEMMA EndingIs ==
    ASSUME TypeInv, NEW t \in Tasks, NEW s \in EndStatus, NEW b \in BudgetStatus,
           Ending(t, s, b)
    PROVE  /\ task' = EvaluateDependents(Moved(t, s), t)
           /\ EndsAs(t, s)
           /\ (Stays /\ budget' = b) \/ Closes
<1> DEFINE ts == EvaluateDependents(Moved(t, s), t)
<1>1. s \in TaskStatus /\ s # "blocked"
    BY DEF EndStatus, TaskStatus
<1>2. /\ Moved(t, s) \in Statuses
      /\ Moved(t, s)[t] = s
      /\ \A d \in Tasks \ {t} : Moved(t, s)[d] = task[d]
    BY <1>1, MovedIs
<1>3. /\ ts \in Statuses
      /\ \A d \in Tasks : \/ ts[d] = Moved(t, s)[d]
                          \/ Moved(t, s)[d] = "blocked" /\ ts[d] \in {"queued", "skipped"}
    BY <1>2, EvaluateMoves
<1>4. Commit(run, ts, b) /\ run # "cancelling"
    BY DEF Ending, Stopped
<1> HIDE DEF ts
<1>5. task' = ts /\ ((Stays /\ budget' = b) \/ Closes)
    BY <1>3, <1>4, CommitCloses
<1> QED
    BY <1>1, <1>2, <1>3, <1>5 DEF EndsAs, ts

LEMMA DroppingIs ==
    ASSUME TypeInv, NEW t \in Tasks, Dropping(t)
    PROVE  /\ Moved(t, "cancelled") \in Statuses
           /\ Moved(t, "cancelled")[t] = "cancelled"
           /\ \A d \in Tasks \ {t} : Moved(t, "cancelled")[d] = task[d]
           /\ \/ run = "cancelling" /\ Lingers(Moved(t, "cancelled")) /\ budget' = budget
              \/ run = "cancelling" /\ Abandons(Moved(t, "cancelled"))
              \/ /\ run # "cancelling"
                 /\ task' = Moved(t, "cancelled")
                 /\ (Stays /\ budget' = budget) \/ Closes
<1>1. "cancelled" \in TaskStatus /\ budget \in BudgetStatus
    BY DEF TaskStatus, TypeInv, TypeOK, BudgetStatus
<1>2. Commit(run, Moved(t, "cancelled"), budget)
    BY DEF Dropping
<1> QED
    BY <1>1, <1>2, MovedIs, CommitStops, CommitCloses

LEMMA RepairIs ==
    ASSUME TypeInv, RepairRun
    PROVE  \/ run = "cancelling" /\ Lingers(task) /\ budget' = budget
           \/ run = "cancelling" /\ Abandons(task)
           \/ run # "cancelling" /\ task' = task /\ ((Stays /\ budget' = budget) \/ Closes)
<1>1. task \in Statuses /\ budget \in BudgetStatus /\ Commit(run, task, budget)
    BY DEF TypeInv, TypeOK, Statuses, BudgetStatus, RepairRun
<1> QED
    BY <1>1, CommitStops, CommitCloses

Cancelled(ts) == [t \in Tasks |-> CancelledStatus(ts[t])]

LEMMA CancellationIs ==
    ASSUME TypeInv, RequestCancellation
    PROVE  /\ \A t \in Tasks :
                 Cancelled(task)[t] =
                    IF task[t] \in {"blocked", "queued", "waiting_for_input"} THEN "cancelled"
                    ELSE IF task[t] = "running" THEN "cancelling" ELSE task[t]
           /\ (Lingers(Cancelled(task)) /\ budget' = budget) \/ Abandons(Cancelled(task))
<1>1. Cancelled(task) \in Statuses
    BY DEF Cancelled, CancelledStatus, TypeInv, TypeOK, Statuses, TaskStatus
<1>2. Commit("cancelling", Cancelled(task), budget)
    BY DEF RequestCancellation, Cancelled
<1>3. \A t \in Tasks :
            Cancelled(task)[t] =
               IF task[t] \in {"blocked", "queued", "waiting_for_input"} THEN "cancelled"
               ELSE IF task[t] = "running" THEN "cancelling" ELSE task[t]
    BY DEF Cancelled, CancelledStatus
<1> QED
    BY <1>1, <1>2, <1>3, CommitStops

LEMMA AnswerIs ==
    ASSUME TypeInv, AnswerProduct
    PROVE  \E g \in Gate :
              /\ g \in Tasks /\ task[g] = "waiting_for_input"
              /\ task' = EvaluateDependents(Moved(g, "succeeded"), g)
              /\ EndsAs(g, "succeeded")
              /\ QueueDispatches(task')
<1>1. PICK g \in Gate :
            /\ task[g] = "waiting_for_input"
            /\ task' = EvaluateDependents(Moved(g, "succeeded"), g)
            /\ QueueDispatches(EvaluateDependents(Moved(g, "succeeded"), g))
    BY DEF AnswerProduct, Moved
<1>2. g \in Tasks /\ "succeeded" \in TaskStatus
    BY RuntimeAssumption DEF TaskStatus
<1>3. /\ Moved(g, "succeeded") \in Statuses
      /\ Moved(g, "succeeded")[g] = "succeeded"
      /\ \A d \in Tasks \ {g} : Moved(g, "succeeded")[d] = task[d]
    BY <1>2, MovedIs
<1>4. \A d \in Tasks : \/ task'[d] = Moved(g, "succeeded")[d]
                       \/ Moved(g, "succeeded")[d] = "blocked" /\ task'[d] \in {"queued", "skipped"}
    BY <1>1, <1>3, EvaluateMoves
<1>5. EndsAs(g, "succeeded")
    BY <1>2, <1>3, <1>4 DEF EndsAs
<1>6. QueueDispatches(task')
    BY <1>1
<1> QED
    BY <1>1, <1>2, <1>5, <1>6

LEMMA RetryIs ==
    ASSUME TypeInv, NEW t \in Tasks, RetryTask(t)
    PROVE  /\ task[t] \in {"failed", "timed_out"} /\ task'[t] = "queued"
           /\ \A d \in Tasks \ {t} : \/ task'[d] = task[d]
                                     \/ task[d] = "skipped" /\ task'[d] = "blocked"
           /\ run \notin Stopped
           /\ \/ run \in RunTerminal /\ run = "failed" /\ run' = "running"
              \/ run \notin RunTerminal /\ run' = run /\ budget' = budget
<1>1. task[t] \in {"failed", "timed_out"} /\ run \notin Stopped
    BY DEF RetryTask, MayRetry, Stopped
<1>2. task' = ResetSkipped(Moved(t, "queued"), t) /\ "queued" \in TaskStatus
    BY DEF RetryTask, Moved, TaskStatus
<1>3. /\ Moved(t, "queued") \in Statuses
      /\ Moved(t, "queued")[t] = "queued"
      /\ \A d \in Tasks \ {t} : Moved(t, "queued")[d] = task[d]
    BY <1>2, MovedIs
<1>4. \A d \in Tasks : \/ task'[d] = Moved(t, "queued")[d]
                       \/ Moved(t, "queued")[d] = "skipped" /\ task'[d] = "blocked"
    BY <1>2, <1>3, ResetMoves
<1>5. \/ run \in RunTerminal /\ run = "failed" /\ run' = "running"
      \/ run \notin RunTerminal /\ run' = run /\ budget' = budget
    <2>1. CASE run \in RunTerminal
        <3>1. LegalRunMove(run, "running") /\ run' = "running"
            BY <2>1 DEF RetryTask, MayReopen
        <3>2. run = "failed"
            BY <2>1, <3>1 DEF LegalRunMove, RunTransitions, RunTerminal
        <3> QED BY <2>1, <3>1, <3>2
    <2>2. CASE run \notin RunTerminal
        BY <2>2 DEF RetryTask
    <2> QED BY <2>1, <2>2
<1> QED
    BY <1>1, <1>3, <1>4, <1>5

-----------------------------------------------------------------------------
(* Waiting for an answer *)

\* The run waits exactly while its question is pending, and then one gate
\* waits with it; a run nobody has started executes nothing.
Waiting ==
    /\ clar = "pending" <=> run = "waiting_for_input"
    /\ IF run = "waiting_for_input"
       THEN \E g \in Gate : \A t \in Tasks : task[t] = "waiting_for_input" <=> t = g
       ELSE \A t \in Tasks : task[t] # "waiting_for_input"
    /\ run = "queued" => \A t \in Tasks : task[t] \notin Executing

FlowInv == IInv /\ Halting /\ Waiting

CancellingOnlyThen == \A t \in Tasks : task[t] = "cancelling" => run = "cancelling"

LEMMA FlowKeeps ==
    ASSUME FlowInv, clar' = clar,
           \A d \in Tasks : /\ task'[d] = "waiting_for_input" <=> task[d] = "waiting_for_input"
                            /\ task'[d] = "cancelling" => task[d] = "cancelling" /\ run' = run
                            /\ run' = "queued" /\ task'[d] \in Executing => task[d] \in Executing,
           run' = run \/ (run # "waiting_for_input" /\ run' \notin {"waiting_for_input", "queued"})
    PROVE  CancellingOnlyThen' /\ Waiting'
<1>1. CancellingOnlyThen'
    BY DEF FlowInv, Halting, CancellingOnlyThen
<1>2. (clar = "pending" <=> run = "waiting_for_input")'
    BY DEF FlowInv, Waiting
<1>3. run' = "queued" => \A t \in Tasks : task'[t] \notin Executing
    BY DEF FlowInv, Waiting
<1>4. CASE run' = "waiting_for_input"
    <2>1. PICK g \in Gate : \A t \in Tasks : task[t] = "waiting_for_input" <=> t = g
        BY <1>4 DEF FlowInv, Waiting
    <2>2. \A t \in Tasks : task'[t] = "waiting_for_input" <=> t = g
        BY <2>1
    <2> QED BY <1>1, <1>2, <1>3, <1>4, <2>2 DEF Waiting
<1>5. CASE run' # "waiting_for_input"
    <2>1. \A t \in Tasks : task[t] # "waiting_for_input"
        BY <1>5 DEF FlowInv, Waiting
    <2> QED BY <1>1, <1>2, <1>3, <1>5, <2>1 DEF Waiting
<1> QED
    BY <1>4, <1>5

LEMMA FlowKind ==
    ASSUME FlowInv, NEW t \in Tasks, Kind(t)
    PROVE  CancellingOnlyThen' /\ Waiting'
<1>1. TypeInv /\ Halting /\ Waiting /\ run \in RunStatus
    BY DEF FlowInv, IInv, TypeInv, TypeOK
<1>2. ASSUME NEW s \in EndStatus, NEW b \in BudgetStatus, Ending(t, s, b)
      PROVE  CancellingOnlyThen' /\ Waiting'
    <2>1. EndsAs(t, s) /\ (Stays \/ Closes) /\ task[t] \in {"running", "queued"} /\ clar' = clar
        BY <1>1, <1>2, EndingIs DEF Ending, About
    <2>2. run' = run \/ (run \in {"queued", "running"} /\ run' \notin {"waiting_for_input", "queued"})
        BY <1>1, <2>1 DEF Stays, Closes, TypeInv, TypeOK
    <2>3. \A d \in Tasks : task[d] = "cancelling" => run' = run
        BY <1>1, <2>2 DEF Halting
    <2>4. \A d \in Tasks : /\ task'[d] = "waiting_for_input" <=> task[d] = "waiting_for_input"
                           /\ task'[d] \in Executing => task'[d] = task[d]
        BY <2>1 DEF EndsAs, EndStatus, Executing
    <2> QED BY <2>1, <2>2, <2>3, <2>4, FlowKeeps DEF Executing
<1>3. CASE Dropping(t)
    <2>1. /\ task[t] # "waiting_for_input" /\ clar' = clar
          /\ \/ run = "cancelling" /\ Lingers(Moved(t, "cancelled"))
             \/ run = "cancelling" /\ Abandons(Moved(t, "cancelled"))
             \/ run # "cancelling" /\ task' = Moved(t, "cancelled") /\ (Stays \/ Closes)
          /\ Moved(t, "cancelled")[t] = "cancelled"
          /\ \A d \in Tasks \ {t} : Moved(t, "cancelled")[d] = task[d]
        BY <1>1, <1>3, DroppingIs DEF Dropping, About, Executing
    <2>2. run' = run \/ (run # "waiting_for_input" /\ run' \notin {"waiting_for_input", "queued"})
        BY <1>1, <2>1 DEF Stays, Closes, Lingers, Abandons, TypeInv, TypeOK
    <2>3. \A d \in Tasks : task'[d] = task[d] \/ (task'[d] = "cancelled" /\ task[d] # "waiting_for_input")
        BY <2>1 DEF Lingers, Abandons
    <2>4. \A d \in Tasks : task'[d] = "cancelling" => run' = run
        BY <1>1, <2>1, <2>3 DEF Halting, Lingers, Abandons, Executing, Stays, Closes
    <2> QED BY <2>1, <2>2, <2>3, <2>4, FlowKeeps DEF Executing
<1>4. ASSUME NEW s \in {"failed", "timed_out"}, Requeueing(t, s)
      PROVE  CancellingOnlyThen' /\ Waiting'
    <2>1. /\ task' = Moved(t, "queued") /\ run' = run /\ clar' = clar /\ task[t] = "running"
          /\ Moved(t, "queued")[t] = "queued"
          /\ \A d \in Tasks \ {t} : Moved(t, "queued")[d] = task[d]
        BY <1>1, <1>4, MovedIs DEF Requeueing, About, TaskStatus
    <2> QED BY <2>1, FlowKeeps DEF Executing
<1>5. CASE Claiming(t)
    <2>1. /\ task' = Moved(t, "running") /\ clar' = clar /\ task[t] = "queued"
          /\ Moved(t, "running")[t] = "running"
          /\ \A d \in Tasks \ {t} : Moved(t, "running")[d] = task[d]
          /\ run' = IF run = "queued" THEN "running" ELSE run
          /\ run \notin {"cancelling", "waiting_for_input"}
        BY <1>1, <1>5, MovedIs DEF Claiming, About, TaskStatus, Stopped
    <2>2. \A d \in Tasks : task[d] # "cancelling"
        BY <1>1, <2>1 DEF Halting
    <2> QED BY <2>1, <2>2, FlowKeeps
<1>6. CASE Pausing(t)
    <2>1. /\ task' = Moved(t, "waiting_for_input")
          /\ run' = "waiting_for_input" /\ clar' = "pending" /\ clar = "none" /\ t \in Gate
          /\ run \notin Stopped
          /\ Moved(t, "waiting_for_input")[t] = "waiting_for_input"
          /\ \A d \in Tasks \ {t} : Moved(t, "waiting_for_input")[d] = task[d]
        BY <1>1, <1>6, MovedIs DEF Pausing, TaskStatus
    <2>2. \A d \in Tasks : task[d] # "waiting_for_input" /\ task[d] # "cancelling"
        BY <1>1, <2>1 DEF Waiting, Halting, Stopped
    <2>3. \A d \in Tasks : task'[d] = "waiting_for_input" <=> d = t
        BY <2>1, <2>2
    <2>4. \A d \in Tasks : task'[d] # "cancelling"
        BY <2>1, <2>2
    <2> QED BY <2>1, <2>3, <2>4 DEF Waiting, CancellingOnlyThen
<1>7. CASE RetryTask(t)
    <2>1. /\ task[t] \in {"failed", "timed_out"} /\ task'[t] = "queued"
          /\ \A d \in Tasks \ {t} : \/ task'[d] = task[d]
                                    \/ task[d] = "skipped" /\ task'[d] = "blocked"
          /\ \/ run \in RunTerminal /\ run = "failed" /\ run' = "running"
             \/ run' = run
          /\ clar' = clar
        BY <1>1, <1>7, RetryIs DEF RetryTask
    <2>2. \A d \in Tasks : task'[d] = "cancelling" => task[d] = "cancelling" /\ run' = run
        BY <1>1, <2>1 DEF Halting
    <2> QED BY <2>1, <2>2, FlowKeeps DEF Executing
<1> QED
    BY <1>2, <1>3, <1>4, <1>5, <1>6, <1>7 DEF Kind

LEMMA FlowStep == FlowInv /\ [Next]_vars => (Halting /\ Waiting)'
<1> SUFFICES ASSUME FlowInv, [Next]_vars
             PROVE  CancellingOnlyThen' /\ Waiting' /\ CancelledIsIdle'
    BY DEF Halting, CancellingOnlyThen
<1>1. TypeInv /\ Halting /\ Waiting /\ run \in RunStatus /\ OneLiveAttempt
    BY DEF FlowInv, IInv, TypeInv, TypeOK
<1>2. CancelledIsIdle'
    BY IdleStep DEF FlowInv, CancelInv, Halting
<1>3. AnyKind
    BY <1>1, StepKinds
<1>4. CASE Untouched
    <2>1. clar' = clar /\ run' = run /\ \A d \in Tasks : task'[d] = task[d]
        BY <1>4 DEF Untouched
    <2> QED BY <1>2, <2>1, FlowKeeps
<1>5. CASE RepairRun
    <2>1. \/ run = "cancelling" /\ (Lingers(task) \/ Abandons(task))
          \/ run # "cancelling" /\ task' = task /\ (Stays \/ Closes)
        BY <1>1, <1>5, RepairIs
    <2>2. clar' = clar /\ run # "waiting_for_input"
        BY <1>5 DEF RepairRun, fixedVars
    <2>3. run' = run \/ run' \notin {"waiting_for_input", "queued"}
        BY <1>1, <2>1 DEF Stays, Closes, Lingers, Abandons, TypeInv, TypeOK
    <2>4. \A d \in Tasks : \/ task'[d] = task[d]
                           \/ task[d] \in {"blocked", "queued"} /\ task'[d] = "cancelled"
        BY <2>1 DEF Lingers, Abandons
    <2>5. \A d \in Tasks : task'[d] = "cancelling" => run' = run
        BY <1>1, <2>1, <2>4 DEF Halting, Lingers, Abandons, Executing, Stays, Closes
    <2>6. \A d \in Tasks :
            /\ task'[d] = "waiting_for_input" <=> task[d] = "waiting_for_input"
            /\ task'[d] = "cancelling" => task[d] = "cancelling" /\ run' = run
            /\ task'[d] \in Executing => task[d] \in Executing
        BY <2>4, <2>5 DEF Executing
    <2> QED BY <1>2, <2>2, <2>3, <2>6, FlowKeeps
<1>6. CASE ExpireClarification
    <2>1. /\ run' = "failed" /\ clar' = "expired"
          /\ \A d \in Tasks : task'[d] = ExpiredStatus(task[d])
        BY <1>6 DEF ExpireClarification
    <2>2. \A d \in Tasks : task'[d] # "waiting_for_input" /\ task'[d] # "cancelling"
        BY <1>1, <1>6, <2>1 DEF ExpireClarification, ExpiredStatus, Halting
    <2> QED BY <1>2, <2>1, <2>2 DEF Waiting, CancellingOnlyThen
<1>7. CASE AnswerProduct
    <2>1. run = "waiting_for_input" /\ run' = "running" /\ clar' = "answered"
        BY <1>7 DEF AnswerProduct
    <2>2. PICK g \in Gate : task[g] = "waiting_for_input" /\ EndsAs(g, "succeeded") /\ g \in Tasks
        BY <1>1, <1>7, AnswerIs
    <2>3. \A d \in Tasks : d # g => task[d] # "waiting_for_input"
        BY <1>1, <2>1, <2>2 DEF Waiting
    <2>4. \A d \in Tasks : task'[d] # "waiting_for_input" /\ task'[d] # "cancelling"
        BY <1>1, <2>1, <2>2, <2>3 DEF EndsAs, Halting
    <2> QED BY <1>2, <2>1, <2>4 DEF Waiting, CancellingOnlyThen
<1>8. CASE RequestCancellation
    <2>1. clar' # "pending"
        BY <1>8 DEF RequestCancellation
    <2>2. /\ \A d \in Tasks : Cancelled(task)[d] # "waiting_for_input"
          /\ Lingers(Cancelled(task)) \/ Abandons(Cancelled(task))
        BY <1>1, <1>8, CancellationIs
    <2>3. \A d \in Tasks : task'[d] # "waiting_for_input"
        BY <2>2 DEF Lingers, Abandons
    <2>4. run' \in Stopped /\ (run' = "cancelling" \/ \A d \in Tasks : task'[d] # "cancelling")
        BY <2>2 DEF Lingers, Abandons, Stopped, Executing
    <2> QED BY <1>2, <2>1, <2>3, <2>4 DEF Waiting, CancellingOnlyThen, Stopped
<1>9. ASSUME NEW m \in exec, PublishReport(m)
      PROVE  CancellingOnlyThen' /\ Waiting'
    BY <1>9, FlowKeeps DEF PublishReport
<1> QED
    BY <1>2, <1>3, <1>4, <1>5, <1>6, <1>7, <1>8, <1>9, FlowKind, QuietUntouched DEF AnyKind

\* The questions, cancellations and executions of a run fit its status.
THEOREM StatusesFit == Spec => []FlowInv
<1>1. Init => Halting /\ Waiting
    BY DEF Init, Halting, Waiting, CancelledIsIdle, Executing
<1>2. FlowInv /\ [Next]_vars => (Halting /\ Waiting)'
    BY FlowStep
<1> QED
    BY <1>1, <1>2, Inductive, PTL DEF Spec, FlowInv

-----------------------------------------------------------------------------
(* Legal moves *)

LEMMA LegalKind ==
    ASSUME FlowInv, NEW t \in Tasks, Kind(t)
    PROVE  LegalStep
<1>1. TypeInv /\ run \in RunStatus
    BY DEF FlowInv, IInv, TypeInv, TypeOK
<1>2. ASSUME NEW s \in EndStatus, NEW b \in BudgetStatus, Ending(t, s, b)
      PROVE  LegalStep
    <2>1. EndsAs(t, s) /\ task[t] \in {"running", "queued"} /\ (task[t] = "queued" => s # "succeeded")
        BY <1>1, <1>2, EndingIs DEF Ending
    <2>2. LegalRunMove(run, run')
        BY <1>2 DEF Ending, Commit
    <2>3. \A d \in Tasks : LegalTaskMove(task[d], task'[d])
        BY <2>1 DEF EndsAs, EndStatus, LegalTaskMove, TaskTransitions
    <2> QED BY <2>2, <2>3 DEF LegalStep
<1>3. CASE Dropping(t)
    <2>1. /\ task[t] \in {"blocked", "queued", "running", "cancelling"}
          /\ \/ Lingers(Moved(t, "cancelled")) \/ Abandons(Moved(t, "cancelled"))
             \/ task' = Moved(t, "cancelled")
          /\ Moved(t, "cancelled")[t] = "cancelled"
          /\ \A d \in Tasks \ {t} : Moved(t, "cancelled")[d] = task[d]
        BY <1>1, <1>3, DroppingIs DEF Dropping, Executing
    <2>2. LegalRunMove(run, run')
        BY <1>3 DEF Dropping, Commit
    <2>3. \A d \in Tasks : \/ task'[d] = task[d]
                           \/ /\ task[d] \in {"blocked", "queued", "running", "cancelling"}
                              /\ task'[d] = "cancelled"
        BY <2>1 DEF Lingers, Abandons
    <2>4. \A d \in Tasks : LegalTaskMove(task[d], task'[d])
        BY <2>3 DEF LegalTaskMove, TaskTransitions
    <2> QED BY <2>2, <2>4 DEF LegalStep
<1>4. CASE \/ \E s \in {"failed", "timed_out"} : Requeueing(t, s)
           \/ Claiming(t) \/ Pausing(t)
    <2>1. \/ task[t] = "running" /\ task' = Moved(t, "queued") /\ run' = run
          \/ task[t] = "queued" /\ task' = Moved(t, "running") /\ run' = IF run = "queued" THEN "running" ELSE run
          \/ task[t] = "running" /\ task' = Moved(t, "waiting_for_input") /\ LegalRunMove(run, run')
        BY <1>4 DEF Requeueing, Claiming, Pausing
    <2>2. /\ \A d \in Tasks \ {t} : task'[d] = task[d]
          /\ \/ task[t] = "running" /\ task'[t] \in {"queued", "waiting_for_input"}
             \/ task[t] = "queued" /\ task'[t] = "running"
        BY <1>1, <2>1, MovedIs DEF TaskStatus
    <2>3. LegalRunMove(run, run')
        BY <2>1 DEF LegalRunMove, RunTransitions
    <2>4. \A d \in Tasks : LegalTaskMove(task[d], task'[d])
        BY <2>2 DEF LegalTaskMove, TaskTransitions
    <2> QED BY <2>3, <2>4 DEF LegalStep
<1>5. CASE RetryTask(t)
    <2>1. /\ task[t] \in {"failed", "timed_out"} /\ task'[t] = "queued"
          /\ \A d \in Tasks \ {t} : \/ task'[d] = task[d]
                                    \/ task[d] = "skipped" /\ task'[d] = "blocked"
          /\ (run = "failed" /\ run' = "running") \/ run' = run
        BY <1>1, <1>5, RetryIs
    <2>2. LegalRunMove(run, run')
        BY <2>1 DEF LegalRunMove, RunTransitions
    <2>3. \A d \in Tasks : LegalTaskMove(task[d], task'[d])
        BY <2>1 DEF LegalTaskMove, TaskTransitions
    <2> QED BY <2>2, <2>3 DEF LegalStep
<1> QED
    BY <1>2, <1>3, <1>4, <1>5 DEF Kind

LEMMA LegalNext == FlowInv /\ [Next]_vars => LegalStep
<1> SUFFICES ASSUME FlowInv, [Next]_vars PROVE LegalStep
    OBVIOUS
<1>1. TypeInv /\ Halting /\ run \in RunStatus /\ OneLiveAttempt
    BY DEF FlowInv, IInv, TypeInv, TypeOK
<1>2. AnyKind
    BY <1>1, StepKinds
<1>3. CASE UNCHANGED <<run, task>>
    BY <1>3 DEF LegalStep, LegalRunMove, LegalTaskMove
<1>4. CASE RepairRun
    <2>1. LegalRunMove(run, run')
        BY <1>4 DEF RepairRun, Commit
    <2>2. \A d \in Tasks : \/ task'[d] = task[d]
                           \/ task[d] \in {"blocked", "queued"} /\ task'[d] = "cancelled"
        BY <1>1, <1>4, RepairIs DEF Lingers, Abandons
    <2>3. \A d \in Tasks : LegalTaskMove(task[d], task'[d])
        BY <2>2 DEF LegalTaskMove, TaskTransitions
    <2> QED BY <2>1, <2>3 DEF LegalStep
<1>5. CASE ExpireClarification
    <2>1. \A d \in Tasks : task'[d] = ExpiredStatus(task[d])
        BY <1>5 DEF ExpireClarification
    <2>2. \A d \in Tasks : LegalTaskMove(task[d], task'[d])
        BY <2>1 DEF ExpiredStatus, LegalTaskMove, TaskTransitions
    <2>3. LegalRunMove(run, run')
        BY <1>5 DEF ExpireClarification, LegalRunMove, RunTransitions
    <2> QED BY <2>2, <2>3 DEF LegalStep
<1>6. CASE AnswerProduct
    <2>1. PICK g \in Gate : task[g] = "waiting_for_input" /\ EndsAs(g, "succeeded") /\ g \in Tasks
        BY <1>1, <1>6, AnswerIs
    <2>2. \A d \in Tasks : LegalTaskMove(task[d], task'[d])
        BY <2>1 DEF EndsAs, LegalTaskMove, TaskTransitions
    <2>3. LegalRunMove(run, run')
        BY <1>6 DEF AnswerProduct, LegalRunMove, RunTransitions
    <2> QED BY <2>2, <2>3 DEF LegalStep
<1>7. CASE RequestCancellation
    <2>1. /\ \A t \in Tasks :
                Cancelled(task)[t] =
                   IF task[t] \in {"blocked", "queued", "waiting_for_input"} THEN "cancelled"
                   ELSE IF task[t] = "running" THEN "cancelling" ELSE task[t]
          /\ Lingers(Cancelled(task)) \/ Abandons(Cancelled(task))
        BY <1>1, <1>7, CancellationIs
    <2>2. \A d \in Tasks : task'[d] = Cancelled(task)[d]
        BY <2>1 DEF Lingers, Abandons
    <2>3. \A d \in Tasks : LegalTaskMove(task[d], task'[d])
        BY <2>1, <2>2 DEF LegalTaskMove, TaskTransitions
    <2>4. LegalRunMove(run, "cancelling") /\ run' \in {"cancelling", "cancelled"}
        BY <1>1, <1>7, <2>1 DEF RequestCancellation, LegalRunMove, RunTransitions, RunTerminal,
           RunStatus, Lingers, Abandons
    <2> QED BY <2>3, <2>4 DEF LegalStep
<1>8. ASSUME NEW m \in exec, PublishReport(m)
      PROVE  LegalStep
    BY <1>3, <1>8 DEF PublishReport
<1> QED
    BY <1>2, <1>3, <1>4, <1>5, <1>6, <1>7, <1>8, LegalKind, QuietUntouched DEF AnyKind, Untouched

\* Every status a transaction assigns is one the transition tables allow, so
\* require_task_transition and require_run_transition never refuse one.
THEOREM MovesAreLegal == Spec => LegalTransitions
<1>1. FlowInv /\ [Next]_vars => LegalStep
    BY LegalNext
<1> QED
    BY <1>1, StatusesFit, PTL DEF Spec, LegalTransitions

-----------------------------------------------------------------------------
(* Accepted results *)

\* What ending the live attempt of t as s does to the attempts.
LEMMA LiveEnds ==
    ASSUME TypeInv, OneLiveAttempt, NEW t \in Tasks, task[t] \in Executing,
           NEW s \in AttemptStatus, EndAttempt(Live(t), s)
    PROVE  /\ Current(t) \in Nat \ {0}
           /\ \A d \in Tasks : Len(attempts'[d]) = Current(d)
           /\ \A d \in Tasks \ {t} : attempts'[d] = attempts[d]
           /\ \A n \in 1..Current(t) :
                 attempts'[t][n] = IF n = Current(t) THEN s ELSE attempts[t][n]
<1>1. HasRunning(t)
    BY DEF OneLiveAttempt, Executing
<1>2. /\ Live(t) \in Delivery /\ Live(t)[1] = t /\ Live(t)[2] = Current(t)
      /\ Live(t)[2] <= Current(Live(t)[1]) /\ Current(t) \in Nat \ {0}
    BY <1>1, LiveDelivery, Indexes DEF HasRunning, Live
<1>3. /\ \A d \in Tasks : Len(attempts'[d]) = Current(d)
      /\ \A d \in Tasks : d # Live(t)[1] => attempts'[d] = attempts[d]
      /\ \A n \in 1..Current(Live(t)[1]) :
            attempts'[Live(t)[1]][n] = IF n = Live(t)[2] THEN s ELSE attempts[Live(t)[1]][n]
    BY <1>2, EndAttemptType DEF TypeInv, TypeOK
<1> QED
    BY <1>2, <1>3

\* A success is an old one, or the latest of a task that succeeds with it.
NewSuccesses ==
    \A d \in Tasks \ Gate : \A n \in DOMAIN attempts'[d] :
        attempts'[d][n] = "succeeded" =>
            \/ /\ n \in DOMAIN attempts[d] /\ attempts[d][n] = "succeeded"
               /\ Len(attempts'[d]) = Current(d)
            \/ n = Len(attempts'[d]) /\ task'[d] = "succeeded"

LEMMA SuccessesEnd ==
    ASSUME TypeInv, TypeInv', OneLiveAttempt, NEW t \in Tasks, task[t] \in Executing,
           NEW s \in AttemptStatus, EndAttempt(Live(t), s),
           s = "succeeded" /\ t \notin Gate => task'[t] = "succeeded"
    PROVE  NewSuccesses
<1> SUFFICES ASSUME NEW d \in Tasks \ Gate, NEW n \in DOMAIN attempts'[d],
                    attempts'[d][n] = "succeeded"
             PROVE  \/ /\ n \in DOMAIN attempts[d] /\ attempts[d][n] = "succeeded"
                       /\ Len(attempts'[d]) = Current(d)
                    \/ n = Len(attempts'[d]) /\ task'[d] = "succeeded"
    BY DEF NewSuccesses
<1>1. /\ Len(attempts'[d]) = Current(d)
      /\ d # t => attempts'[d] = attempts[d]
      /\ Current(t) \in Nat \ {0}
      /\ \A k \in 1..Current(t) :
            attempts'[t][k] = IF k = Current(t) THEN s ELSE attempts[t][k]
    BY LiveEnds
<1>2. DOMAIN attempts'[d] = 1..Len(attempts'[d]) /\ DOMAIN attempts[d] = 1..Current(d)
    BY LenProperties DEF TypeInv, TypeOK, Current
<1>3. CASE d # t
    BY <1>1, <1>2, <1>3
<1>4. CASE d = t /\ n # Current(t)
    BY <1>1, <1>2, <1>4
<1>5. CASE d = t /\ n = Current(t)
    BY <1>1, <1>2, <1>5
<1> QED
    BY <1>3, <1>4, <1>5

LEMMA SuccessesKind ==
    ASSUME TypeInv, TypeInv', OneLiveAttempt, OneAcceptedResult, NEW t \in Tasks, Kind(t)
    PROVE  NewSuccesses
<1>1. CASE attempts' = attempts
    BY <1>1 DEF NewSuccesses, Current
<1>2. ASSUME NEW s \in EndStatus, NEW b \in BudgetStatus, Ending(t, s, b)
      PROVE  NewSuccesses
    <2>1. task'[t] = s
        BY <1>2, EndingIs DEF EndsAs
    <2>2. CASE task[t] = "running" /\ EndAttempt(Live(t), s)
        BY <2>1, <2>2, SuccessesEnd DEF Executing, EndStatus, AttemptStatus
    <2> QED BY <1>1, <1>2, <2>2 DEF Ending
<1>3. CASE Dropping(t)
    <2>1. CASE task[t] \in Executing /\ EndAttempt(Live(t), "cancelled")
        BY <2>1, SuccessesEnd DEF AttemptStatus
    <2> QED BY <1>1, <1>3, <2>1 DEF Dropping
<1>4. ASSUME NEW s \in {"failed", "timed_out"}, Requeueing(t, s)
      PROVE  NewSuccesses
    BY <1>4, SuccessesEnd DEF Requeueing, Executing, AttemptStatus
<1>5. CASE Claiming(t)
    <2>1. StartsLive(t)
        BY <1>5 DEF Claiming, StartsLive, Moved
    <2>2. /\ Current(t) \in Nat
          /\ Len(attempts'[t]) = Current(t) + 1
          /\ \A d \in Tasks \ {t} : attempts'[d] = attempts[d]
          /\ \A n \in 1..Current(t) : attempts'[t][n] = attempts[t][n]
          /\ attempts'[t][Current(t) + 1] = "running"
        BY <2>1, StartsLiveAttempts
    <2>3. \A d \in Tasks : DOMAIN attempts'[d] = 1..Len(attempts'[d]) /\ DOMAIN attempts[d] = 1..Current(d)
        BY LenProperties DEF TypeInv, TypeOK, Current
    <2>4. \A n \in 1..Current(t) : t \notin Gate => attempts[t][n] # "succeeded"
        BY <2>1, <2>3 DEF OneAcceptedResult, StartsLive
    <2>5. \A n \in DOMAIN attempts'[t] : t \notin Gate => attempts'[t][n] # "succeeded"
        <3>1. DOMAIN attempts'[t] = 1..(Current(t) + 1)
            BY <2>2, <2>3
        <3>2. \A n \in 1..(Current(t) + 1) : n \in 1..Current(t) \/ n = Current(t) + 1
            BY <2>2
        <3> QED BY <2>2, <2>4, <3>1, <3>2
    <2>6. \A d \in Tasks \ {t} : attempts'[d] = attempts[d] /\ Len(attempts'[d]) = Current(d)
        BY <2>2 DEF Current
    <2> QED BY <2>5, <2>6 DEF NewSuccesses
<1>6. CASE Pausing(t)
    BY <1>6, SuccessesEnd DEF Pausing, Executing, AttemptStatus
<1>7. CASE RetryTask(t)
    BY <1>1, <1>7 DEF RetryTask
<1> QED
    BY <1>2, <1>3, <1>4, <1>5, <1>6, <1>7 DEF Kind

LEMMA SuccessesNext ==
    ASSUME FlowInv, FlowInv', OneAcceptedResult, [Next]_vars
    PROVE  NewSuccesses
<1>1. TypeInv /\ TypeInv' /\ OneLiveAttempt /\ Halting
    BY DEF FlowInv, IInv
<1>2. AnyKind
    BY <1>1, StepKinds
<1>3. CASE attempts' = attempts
    BY <1>3 DEF NewSuccesses, Current
<1>4. CASE RepairRun \/ ExpireClarification \/ AnswerProduct \/ RequestCancellation
    BY <1>3, <1>4 DEF RepairRun, ExpireClarification, AnswerProduct, RequestCancellation
<1>5. ASSUME NEW m \in exec, PublishReport(m)
      PROVE  NewSuccesses
    BY <1>3, <1>5 DEF PublishReport
<1> QED
    BY <1>1, <1>2, <1>3, <1>4, <1>5, SuccessesKind, QuietUntouched DEF AnyKind, Untouched

LEMMA AcceptedStep ==
    FlowInv /\ FlowInv' /\ OneAcceptedResult /\ [Next]_vars => OneAcceptedResult'
<1> SUFFICES ASSUME FlowInv, FlowInv', OneAcceptedResult, [Next]_vars,
                    NEW d \in Tasks \ Gate, NEW n \in DOMAIN attempts'[d],
                    attempts'[d][n] = "succeeded"
             PROVE  n = Len(attempts'[d]) /\ task'[d] = "succeeded"
    BY DEF OneAcceptedResult, Current
<1>1. NewSuccesses /\ SuccessKept
    BY SuccessesNext, SuccessStep DEF FlowInv
<1>2. CASE n = Len(attempts'[d]) /\ task'[d] = "succeeded"
    BY <1>2
<1>3. CASE /\ n \in DOMAIN attempts[d] /\ attempts[d][n] = "succeeded"
           /\ Len(attempts'[d]) = Current(d)
    BY <1>1, <1>3 DEF OneAcceptedResult, SuccessKept
<1> QED
    BY <1>1, <1>2, <1>3 DEF NewSuccesses

\* No result is accepted twice, and none is lost (_complete_attempt_success,
\* fail_active_attempt, recover_stale_attempts).
THEOREM ResultsAcceptedOnce == Spec => []OneAcceptedResult
<1>1. Init => OneAcceptedResult
    BY DEF Init, OneAcceptedResult
<1>2. FlowInv /\ FlowInv' /\ OneAcceptedResult /\ [Next]_vars => OneAcceptedResult'
    BY AcceptedStep
<1> QED
    BY <1>1, <1>2, StatusesFit, PTL DEF Spec

-----------------------------------------------------------------------------
(* The gate *)

LEMMA AncestorsClosed ==
    ASSUME NEW u \in Tasks
    PROVE  /\ Deps[u] \subseteq Ancestors(u)
           /\ \A t \in Ancestors(u) : t \in Tasks /\ Deps[t] \subseteq Ancestors(u)
<1>1. \A t \in Tasks : Deps[t] \subseteq Tasks
    BY GraphAssumption
<1>2. Deps[u] \subseteq Ancestors(u)
    BY <1>1 DEF Ancestors
<1>3. ASSUME NEW t \in Ancestors(u), NEW d \in Deps[t]
      PROVE  d \in Ancestors(u)
    <2>1. t \in Tasks /\ d \in Tasks
        BY <1>1, <1>3 DEF Ancestors
    <2>2. ASSUME NEW S \in SUBSET Tasks, Deps[u] \subseteq S, \A e \in S : Deps[e] \subseteq S
          PROVE  d \in S
        <3>1. t \in S
            BY <2>2 DEF Ancestors
        <3> QED BY <2>2, <3>1
    <2> QED BY <2>1, <2>2 DEF Ancestors
<1>4. \A t \in Ancestors(u) : t \in Tasks
    BY DEF Ancestors
<1> QED
    BY <1>2, <1>3, <1>4

\* Nothing behind a gate that has not succeeded has been let go.
LEMMA GateOpens ==
    ASSUME DependenciesHold, GateSeparates, NEW g \in Gate, task[g] # "succeeded"
    PROVE  \A t \in Later(g) : task[t] \in Held
<1> DEFINE S == {t \in Later(g) : task[t] \notin Held}
<1>1. Later(g) \subseteq Tasks
    BY DEF Later
<1>2. SUFFICES ASSUME S # {} PROVE FALSE
    OBVIOUS
<1>3. PICK t \in S : Deps[t] \cap S = {}
    BY <1>1, <1>2, GraphAssumption DEF Acyclic
<1>4. t \in Tasks /\ t \in Later(g) /\ task[t] \notin Held
    BY <1>1
<1>5. /\ Deps[t] \cap (Later(g) \cup {g}) # {}
      /\ t \in FanIn => Deps[t] \subseteq Later(g) \cup {g}
    BY <1>4 DEF GateSeparates
<1>6. Satisfied(task, t)
    BY <1>4, <1>5 DEF DependenciesHold, Held
<1>7. \E u \in Deps[t] \cap (Later(g) \cup {g}) : task[u] = "succeeded"
    <2>1. CASE t \notin FanIn
        BY <1>5, <1>6, <2>1 DEF Satisfied
    <2>2. CASE t \in FanIn
        <3>1. MinSuccess[t] \in Nat /\ MinSuccess[t] > 0
            BY <1>4, <2>2, GraphAssumption
        <3>2. Cardinality(Succeeded(task, t)) >= MinSuccess[t]
            BY <1>6, <2>2 DEF Satisfied
        <3>3. Succeeded(task, t) # {}
            <4>1. SUFFICES ASSUME Succeeded(task, t) = {} PROVE FALSE
                OBVIOUS
            <4>2. Cardinality(Succeeded(task, t)) = 0
                BY <4>1, FS_EmptySet
            <4> QED BY <3>1, <3>2, <4>2
        <3> QED BY <1>5, <2>2, <3>3 DEF Succeeded
    <2> QED BY <2>1, <2>2
<1>8. PICK u \in Deps[t] : u \in Later(g) /\ task[u] = "succeeded"
    BY <1>7
<1>9. u \in S
    BY <1>8 DEF Held
<1> QED
    BY <1>3, <1>8, <1>9

\* Everything before a gate that was let go has succeeded.
LEMMA GatePast ==
    ASSUME DependenciesHold, GateSeparates, NEW g \in Gate, task[g] \notin Held
    PROVE  \A t \in Ancestors(g) : task[t] = "succeeded"
<1> DEFINE S == {t \in Ancestors(g) : task[t] = "succeeded"}
<1>1. g \in Tasks /\ (Ancestors(g) \cup {g}) \cap FanIn = {}
    BY RuntimeAssumption DEF GateSeparates
<1>2. /\ Deps[g] \subseteq Ancestors(g)
      /\ \A t \in Ancestors(g) : t \in Tasks /\ Deps[t] \subseteq Ancestors(g)
    BY <1>1, AncestorsClosed
<1>3. ASSUME NEW t \in Ancestors(g) \cup {g}, task[t] \notin Held
      PROVE  Deps[t] \subseteq S
    <2>1. t \in Tasks /\ t \notin FanIn /\ Deps[t] \subseteq Ancestors(g)
        BY <1>1, <1>2
    <2>2. Deps[t] # {} => Satisfied(task, t)
        BY <1>3, <2>1 DEF DependenciesHold, Held
    <2>3. \A u \in Deps[t] : task[u] = "succeeded"
        BY <2>1, <2>2 DEF Satisfied
    <2> QED BY <2>1, <2>3
<1>4. S \in SUBSET Tasks /\ Deps[g] \subseteq S /\ \A t \in S : Deps[t] \subseteq S
    BY <1>2, <1>3 DEF Held
<1> HIDE DEF S
<1>5. \A t \in Ancestors(g) : t \in S
    BY <1>4 DEF Ancestors
<1> QED
    BY <1>5 DEF S

\* While a gate is under way it is under way alone.
LEMMA GateAlone ==
    ASSUME DependenciesHold, GateSeparates, NEW g \in Gate,
           task[g] \notin Held \cup {"succeeded"}
    PROVE  \A t \in Tasks \ {g} : task[t] \in Held \cup {"succeeded"}
BY GateOpens, GatePast DEF Later

-----------------------------------------------------------------------------
(* Ended runs *)

\* A report stands on audits that succeeded and still count.
Audited == report # "none" => \A a \in Auditor : task[a] = "succeeded"

Ended == run \in RunTerminal => Unfinished(task) = {} /\ budget # "active"

LEMMA AuditedStep ==
    FlowInv /\ OneAcceptedResult /\ Audited /\ [Next]_vars => Audited'
<1> SUFFICES ASSUME FlowInv, OneAcceptedResult, Audited, [Next]_vars,
                    report' # "none", NEW a \in Auditor
             PROVE  task'[a] = "succeeded"
    BY DEF Audited
<1>1. a \in Tasks \ Gate
    BY GraphAssumption, RuntimeAssumption
<1>2. SuccessKept /\ AnyKind
    BY SuccessStep, StepKinds DEF FlowInv, IInv
<1>3. CASE report # "none"
    BY <1>1, <1>2, <1>3 DEF Audited, SuccessKept
<1>4. CASE report' = report
    BY <1>3, <1>4
<1>5. ASSUME NEW m \in exec, PublishReport(m)
      PROVE  task'[a] = "succeeded"
    <2>1. \E n \in DOMAIN attempts[a] : attempts[a][n] = "succeeded"
        BY <1>5 DEF PublishReport
    <2>2. task[a] = "succeeded"
        BY <1>1, <2>1 DEF OneAcceptedResult
    <2> QED BY <1>1, <1>2, <2>2 DEF SuccessKept
<1>6. ASSUME NEW t \in Tasks, Kind(t)
      PROVE  report' = report
    BY <1>6 DEF Kind, Ending, Dropping, Requeueing, Claiming, Pausing, RetryTask, About
<1>7. ASSUME RepairRun \/ ExpireClarification \/ AnswerProduct \/ RequestCancellation
      PROVE  report' = report
    BY <1>7 DEF RepairRun, ExpireClarification, AnswerProduct, RequestCancellation, fixedVars
<1> QED
    BY <1>2, <1>4, <1>5, <1>6, <1>7, QuietUntouched DEF AnyKind, Untouched

\* Nothing happens to the tasks of an ended run until one is retried.
LEMMA EndedRests ==
    ASSUME FlowInv, Ended, [Next]_vars, run \in RunTerminal
    PROVE  \/ UNCHANGED <<run, task, budget>>
           \/ run' \notin RunTerminal
<1>1. TypeInv /\ OneLiveAttempt /\ Halting /\ Waiting
    BY DEF FlowInv, IInv
<1>2. AnyKind
    BY <1>1, StepKinds
<1>3. \A t \in Tasks : task[t] \in TaskTerminal
    BY DEF Ended, Unfinished
<1>4. ASSUME NEW t \in Tasks, Kind(t)
      PROVE  run' \notin RunTerminal
    <2>1. task[t] \notin {"blocked", "queued", "running", "cancelling"}
        BY <1>3 DEF TaskTerminal
    <2>2. RetryTask(t)
        BY <1>4, <2>1 DEF Kind, Ending, Dropping, Requeueing, Claiming, Pausing, Executing
    <2>3. run' = "running"
        BY <2>2 DEF RetryTask
    <2> QED BY <2>3 DEF RunTerminal
<1>5. ~RepairRun /\ ~ExpireClarification /\ ~AnswerProduct /\ ~RequestCancellation
    BY DEF RepairRun, ExpireClarification, AnswerProduct, RequestCancellation, RunTerminal
<1>6. ASSUME NEW m \in exec, PublishReport(m)
      PROVE  UNCHANGED <<run, task, budget>>
    BY <1>6 DEF PublishReport
<1> QED
    BY <1>2, <1>4, <1>5, <1>6, QuietUntouched DEF AnyKind, Untouched

\* A cancellation that is carried out leaves nothing unfinished.
LEMMA AbandonsAll ==
    ASSUME NEW ts \in Statuses, Abandons(ts), \A t \in Tasks : ts[t] # "waiting_for_input"
    PROVE  Ended'
<1>1. \A t \in Tasks : task'[t] \in TaskTerminal
    BY DEF Abandons, Statuses, TaskStatus, TaskTerminal, Executing
<1> QED
    BY <1>1 DEF Ended, Unfinished, Abandons

LEMMA EndedStep ==
    FlowInv /\ DependenciesHold /\ GateSeparates /\ Ended /\ [Next]_vars => Ended'
<1> SUFFICES ASSUME FlowInv, DependenciesHold, GateSeparates, Ended, [Next]_vars
             PROVE  Ended'
    OBVIOUS
<1>1. TypeInv /\ OneLiveAttempt /\ Halting /\ Waiting /\ task \in Statuses
    BY DEF FlowInv, IInv, TypeInv, TypeOK, Statuses
<1>2. AnyKind
    BY <1>1, StepKinds
<1>3. CASE run \in RunTerminal
    BY <1>3, EndedRests DEF Ended, Unfinished
<1>4. CASE run' \notin RunTerminal
    BY <1>4 DEF Ended
<1>5. CASE run \notin RunTerminal /\ run' = run
    BY <1>4, <1>5
<1>6. ASSUME run \notin RunTerminal, Stays \/ Closes
      PROVE  Ended'
    BY <1>5, <1>6 DEF Stays, Closes, Ended, Unfinished
<1>7. ASSUME run \notin RunTerminal, NEW t \in Tasks, Kind(t)
      PROVE  Ended'
    <2>1. ASSUME NEW s \in EndStatus, NEW b \in BudgetStatus, Ending(t, s, b)
          PROVE  Ended'
        BY <1>1, <1>6, <1>7, <2>1, EndingIs
    <2>2. CASE Dropping(t)
        <3>1. /\ Moved(t, "cancelled") \in Statuses
              /\ Moved(t, "cancelled")[t] = "cancelled"
              /\ \A d \in Tasks \ {t} : Moved(t, "cancelled")[d] = task[d]
              /\ \/ Lingers(Moved(t, "cancelled"))
                 \/ run = "cancelling" /\ Abandons(Moved(t, "cancelled"))
                 \/ Stays \/ Closes
            BY <1>1, <2>2, DroppingIs
        <3>2. run = "cancelling" => \A d \in Tasks : Moved(t, "cancelled")[d] # "waiting_for_input"
            BY <1>1, <3>1 DEF Waiting
        <3> QED BY <1>4, <1>6, <1>7, <3>1, <3>2, AbandonsAll DEF Lingers, RunTerminal
    <2>3. CASE \/ \E s \in {"failed", "timed_out"} : Requeueing(t, s)
               \/ Claiming(t) \/ Pausing(t)
        <3>1. run' \in {run, "running", "waiting_for_input"}
            BY <2>3 DEF Requeueing, Claiming, Pausing
        <3> QED BY <1>4, <1>7, <3>1 DEF RunTerminal
    <2>4. CASE RetryTask(t)
        BY <1>5, <1>7, <2>4 DEF RetryTask
    <2> QED BY <1>7, <2>1, <2>2, <2>3, <2>4 DEF Kind
<1>8. CASE RepairRun
    <2>1. run \notin RunTerminal
        BY <1>8 DEF RepairRun, RunTerminal
    <2>2. \/ Lingers(task)
          \/ run = "cancelling" /\ Abandons(task)
          \/ Stays \/ Closes
        BY <1>1, <1>8, RepairIs
    <2>3. run = "cancelling" => \A d \in Tasks : task[d] # "waiting_for_input"
        BY <1>1 DEF Waiting
    <2> QED BY <1>1, <1>4, <1>6, <2>1, <2>2, <2>3, AbandonsAll DEF Lingers, RunTerminal
<1>9. CASE ExpireClarification
    <2>1. PICK g \in Gate : \A t \in Tasks : task[t] = "waiting_for_input" <=> t = g
        BY <1>1, <1>9 DEF Waiting, ExpireClarification
    <2>2. g \in Tasks /\ task[g] = "waiting_for_input"
        BY <2>1, RuntimeAssumption
    <2>3. \A t \in Tasks \ {g} : task[t] \in Held \cup {"succeeded"}
        BY <2>2, GateAlone DEF Held
    <2>4. \A t \in Tasks : task'[t] = ExpiredStatus(task[t])
        BY <1>9 DEF ExpireClarification
    <2>5. \A t \in Tasks : task'[t] \in TaskTerminal
        BY <2>2, <2>3, <2>4 DEF ExpiredStatus, Held, TaskTerminal
    <2>6. budget' # "active"
        BY <1>9 DEF ExpireClarification, ClosedBudget
    <2> QED BY <2>5, <2>6 DEF Ended, Unfinished
<1>10. CASE AnswerProduct
    BY <1>4, <1>10 DEF AnswerProduct, RunTerminal
<1>11. CASE RequestCancellation
    <2>1. /\ \A t \in Tasks :
                Cancelled(task)[t] =
                   IF task[t] \in {"blocked", "queued", "waiting_for_input"} THEN "cancelled"
                   ELSE IF task[t] = "running" THEN "cancelling" ELSE task[t]
          /\ Lingers(Cancelled(task)) \/ Abandons(Cancelled(task))
        BY <1>1, <1>11, CancellationIs
    <2>2. Cancelled(task) \in Statuses
        BY <1>1 DEF Cancelled, CancelledStatus, Statuses, TaskStatus
    <2>3. \A t \in Tasks : Cancelled(task)[t] # "waiting_for_input"
        BY <2>1
    <2> QED BY <1>4, <2>1, <2>2, <2>3, AbandonsAll DEF Lingers, RunTerminal
<1>12. ASSUME NEW m \in exec, PublishReport(m)
      PROVE  run' = run
    BY <1>12 DEF PublishReport
<1> QED
    BY <1>2, <1>3, <1>5, <1>7, <1>8, <1>9, <1>10, <1>11, <1>12, QuietUntouched
    DEF AnyKind, Untouched

\* A report stands on the audits it needs; nothing of an ended run is left to
\* run, to ask or to spend (_finalize_run, expire_pending, request_cancellation).
THEOREM RunsEndInOrder == GateSeparates => (Spec => []EndsInOrder)
<1> SUFFICES ASSUME GateSeparates PROVE Spec => []EndsInOrder
    OBVIOUS
<1>1. Init => Audited /\ Ended
    BY DEF Init, Audited, Ended, RunTerminal
<1>2. FlowInv /\ OneAcceptedResult /\ Audited /\ [Next]_vars => Audited'
    BY AuditedStep
<1>3. FlowInv /\ DependenciesHold /\ Ended /\ [Next]_vars => Ended'
    BY EndedStep
<1>4. FlowInv /\ Audited /\ Ended => EndsInOrder
    BY DEF FlowInv, Waiting, Audited, Ended, EndsInOrder, RunTerminal
<1> QED
    BY <1>1, <1>2, <1>3, <1>4, StatusesFit, ResultsAcceptedOnce, DependenciesAlwaysHold, PTL DEF Spec

-----------------------------------------------------------------------------
(* Dispatches *)

\* A task has a dispatch ahead of its attempts exactly while it is queued,
\* unless it has ended.
Rows ==
    \A t \in Tasks : task[t] \notin TaskTerminal =>
        Len(dispatch[t]) = IF task[t] = "queued" THEN Current(t) + 1 ELSE Current(t)

\* The dispatch of t is in the broker, or has a row that was not published
\* and that no relay is about to publish without having sent it.
OnItsWay(t) ==
    \/ <<t, Current(t) + 1>> \in broker
    \/ /\ dispatch[t][Current(t) + 1] # "published"
       /\ \A r \in relaying : r.msg = <<t, Current(t) + 1>> => r.step # "done"

Sent == run \notin Stopped => \A t \in Tasks : task[t] = "queued" => OnItsWay(t)

DispatchInv == retries = 0 => Rows /\ Sent

\* A run that waits for an answer has nothing queued.
LEMMA WaitsIdle ==
    ASSUME FlowInv, DependenciesHold, GateSeparates, run = "waiting_for_input"
    PROVE  \A t \in Tasks : task[t] # "queued"
<1>1. PICK g \in Gate : \A t \in Tasks : task[t] = "waiting_for_input" <=> t = g
    BY DEF FlowInv, Waiting
<1>2. g \in Tasks /\ task[g] = "waiting_for_input"
    BY <1>1, RuntimeAssumption
<1>3. \A t \in Tasks \ {g} : task[t] \in Held \cup {"succeeded"}
    BY <1>2, GateAlone DEF Held
<1> QED
    BY <1>2, <1>3 DEF Held

\* Tasks are queued by an evaluation: each gets a row nobody has touched.
LEMMA QueueingSends ==
    ASSUME TypeInv, Rows, Sent, run \notin Stopped,
           NEW t \in Tasks, task[t] \notin TaskTerminal,
           task'[t] \in TaskTerminal \/ (task'[t] = "queued" /\ task[t] # "queued"),
           \A d \in Tasks \ {t} :
              \/ task'[d] = task[d] /\ attempts'[d] = attempts[d]
              \/ task[d] = "blocked" /\ task'[d] \in {"queued", "skipped"},
           \A d \in Tasks : Len(attempts'[d]) = Current(d),
           QueueDispatches(task'),
           relaying' = relaying,
           \A m \in broker : m[1] # t => m \in broker'
    PROVE  (Rows /\ Sent)'
<1> SUFFICES ASSUME NEW d \in Tasks, task'[d] \notin TaskTerminal
             PROVE  /\ Len(dispatch'[d]) = IF task'[d] = "queued" THEN Len(attempts'[d]) + 1
                                           ELSE Len(attempts'[d])
                    /\ task'[d] = "queued" => OnItsWay(d)'
    BY DEF Rows, Sent, Current, TaskTerminal
<1>1. /\ dispatch'[d] = IF task'[d] = "queued" /\ task[d] # "queued"
                        THEN WithDispatch(dispatch[d], Current(d)) ELSE dispatch[d]
      /\ Len(attempts'[d]) = Current(d)
      /\ Current(d) \in Nat
    BY Indexes DEF QueueDispatches
<1>2. CASE ~(task'[d] = "queued" /\ task[d] # "queued")
    <2>1. d # t /\ task'[d] = task[d] /\ attempts'[d] = attempts[d] /\ dispatch'[d] = dispatch[d]
        BY <1>1, <1>2 DEF TaskTerminal
    <2>2. Len(dispatch'[d]) = IF task'[d] = "queued" THEN Len(attempts'[d]) + 1
                              ELSE Len(attempts'[d])
        BY <2>1 DEF Rows, Current
    <2>3. ASSUME task'[d] = "queued" PROVE OnItsWay(d)'
        <3>1. OnItsWay(d)
            BY <2>1, <2>3 DEF Sent
        <3>2. <<d, Current(d) + 1>> \in broker => <<d, Current(d) + 1>> \in broker'
            BY <2>1
        <3> QED BY <2>1, <3>1, <3>2 DEF OnItsWay, Current
    <2> QED BY <2>2, <2>3
<1>3. CASE task'[d] = "queued" /\ task[d] # "queued"
    <2>1. task[d] \notin TaskTerminal
        BY <1>3 DEF TaskTerminal
    <2>2. Len(dispatch[d]) = Current(d) /\ dispatch[d] \in Seq(OutboxStatus)
        BY <1>3, <2>1 DEF Rows, TypeInv, TypeOK
    <2>3. dispatch'[d] = Append(dispatch[d], "pending")
        BY <1>1, <1>3, <2>2 DEF WithDispatch
    <2>4. Len(dispatch'[d]) = Current(d) + 1 /\ dispatch'[d][Current(d) + 1] = "pending"
        BY <2>2, <2>3, AppendProperties DEF OutboxStatus
    <2>5. \A r \in relaying : r.msg # <<d, Current(d) + 1>>
        <3> SUFFICES ASSUME NEW r \in relaying, r.msg = <<d, Current(d) + 1>> PROVE FALSE
            OBVIOUS
        <3>1. r.msg[2] \in 1..Len(dispatch[r.msg[1]])
            BY Indexes
        <3> QED BY <1>1, <2>2, <3>1
    <2>6. OnItsWay(d)'
        BY <1>1, <2>4, <2>5 DEF OnItsWay, Current
    <2> QED BY <1>1, <1>3, <2>4, <2>6
<1> QED
    BY <1>2, <1>3

\* A step that queues nothing, and touches nothing of what is still queued.
LEMMA NothingQueued ==
    ASSUME Rows, Sent, run \in Stopped => run' \in Stopped, relaying' = relaying,
           \A d \in Tasks : task'[d] = "queued" =>
              /\ task[d] = "queued" /\ attempts'[d] = attempts[d] /\ dispatch'[d] = dispatch[d]
              /\ <<d, Current(d) + 1>> \in broker => <<d, Current(d) + 1>> \in broker',
           \A d \in Tasks : task'[d] \notin TaskTerminal \cup {"queued"} =>
              Len(dispatch'[d]) = Len(attempts'[d])
    PROVE  (Rows /\ Sent)'
<1>1. ASSUME NEW d \in Tasks, task'[d] \notin TaskTerminal
      PROVE  Len(dispatch'[d]) = IF task'[d] = "queued" THEN Len(attempts'[d]) + 1
                                 ELSE Len(attempts'[d])
    BY <1>1 DEF Rows, Current
<1>2. ASSUME NEW d \in Tasks, task'[d] = "queued", run' \notin Stopped
      PROVE  OnItsWay(d)'
    <2>1. OnItsWay(d)
        BY <1>2 DEF Sent
    <2> QED BY <1>2, <2>1 DEF OnItsWay, Current
<1> QED
    BY <1>1, <1>2 DEF Rows, Sent, Current

\* A relay publishes no row it has not sent.
LEMMA RelaySends ==
    ASSUME TypeInv, Rows, Sent, Relay,
           run = "waiting_for_input" => \A t \in Tasks : task[t] # "queued"
    PROVE  (Rows /\ Sent)'
<1>0. UNCHANGED <<run, task, attempts>>
    BY DEF Relay, RelayClaim, RelayCheck, RelaySend, RelayMark, RelayFail, RelayCrash, RelayRevoke
<1> DEFINE next(t) == <<t, Current(t) + 1>>
<1>s. SUFFICES /\ \A t \in Tasks : Len(dispatch'[t]) = Len(dispatch[t])
               /\ \A t \in Tasks : task[t] = "queued" /\ run \notin Stopped =>
                    \/ next(t) \in broker'
                    \/ /\ dispatch'[t][Current(t) + 1] # "published"
                       /\ \A r \in relaying' : r.msg = next(t) => r.step # "done"
    <2>1. \A t \in Tasks : Len(attempts'[t]) = Current(t) /\ task'[t] = task[t]
        BY <1>0 DEF Current
    <2>2. Rows'
        BY <1>s, <2>1 DEF Rows, Current
    <2>3. Sent'
        BY <1>0, <1>s, <2>1 DEF Sent, OnItsWay, Current
    <2> QED BY <2>2, <2>3
<1>1. \A t \in Tasks : task[t] = "queued" /\ run \notin Stopped =>
         \/ next(t) \in broker
         \/ /\ dispatch[t][Current(t) + 1] # "published"
            /\ \A r \in relaying : r.msg = next(t) => r.step # "done"
    BY DEF Sent, OnItsWay
<1>2. \A r \in relaying : /\ r \in [msg : Delivery, step : RelayStep]
                          /\ r.msg \in Delivery /\ r.msg[1] \in Tasks
                          /\ r.msg = <<r.msg[1], r.msg[2]>>
                          /\ r.msg[2] \in 1..Len(dispatch[r.msg[1]])
    BY Indexes DEF TypeInv, TypeOK
<1>3. ASSUME NEW u \in Tasks, NEW n \in 1..Len(dispatch[u]), NEW s \in OutboxStatus,
             dispatch' = [dispatch EXCEPT ![u][n] = s]
      PROVE  \A t \in Tasks : /\ Len(dispatch'[t]) = Len(dispatch[t])
                              /\ \A k \in 1..Len(dispatch[t]) :
                                    dispatch'[t][k] = IF t = u /\ k = n THEN s ELSE dispatch[t][k]
    <2> DEFINE old == dispatch[u]
               new == [old EXCEPT ![n] = s]
    <2>1. old \in Seq(OutboxStatus) /\ dispatch \in [Tasks -> Seq(OutboxStatus)]
        BY DEF TypeInv, TypeOK
    <2>2. Len(new) = Len(old) /\ \A k \in 1..Len(old) : new[k] = IF k = n THEN s ELSE old[k]
        BY <2>1, ExceptSeq
    <2>3. dispatch' = [dispatch EXCEPT ![u] = new]
        BY <1>3
    <2> HIDE DEF new
    <2> QED BY <2>1, <2>2, <2>3
<1>4. \A t \in Tasks : task[t] = "queued" => Current(t) + 1 \in 1..Len(dispatch[t])
    <2> SUFFICES ASSUME NEW t \in Tasks, task[t] = "queued"
                 PROVE  Current(t) + 1 \in 1..Len(dispatch[t])
        OBVIOUS
    <2>1. Len(dispatch[t]) = Current(t) + 1 /\ Current(t) \in Nat
        BY Indexes DEF Rows, TaskTerminal
    <2> QED BY <2>1
<1> HIDE DEF next
<1>5. ASSUME NEW u \in Tasks, NEW n \in DOMAIN dispatch[u], RelayClaim(u, n)
      PROVE  /\ \A t \in Tasks : Len(dispatch'[t]) = Len(dispatch[t])
             /\ \A t \in Tasks : task[t] = "queued" /\ run \notin Stopped =>
                    \/ next(t) \in broker'
                    \/ /\ dispatch'[t][Current(t) + 1] # "published"
                       /\ \A r \in relaying' : r.msg = next(t) => r.step # "done"
    <2>1. n \in 1..Len(dispatch[u]) /\ "processing" \in OutboxStatus
        BY LenProperties DEF TypeInv, TypeOK, OutboxStatus
    <2>2. /\ dispatch' = [dispatch EXCEPT ![u][n] = "processing"]
          /\ relaying' = relaying \cup {[msg |-> <<u, n>>, step |-> "claimed"]}
          /\ broker' = broker
        BY <1>5 DEF RelayClaim
    <2>3. \A t \in Tasks : /\ Len(dispatch'[t]) = Len(dispatch[t])
                           /\ \A k \in 1..Len(dispatch[t]) :
                                 dispatch'[t][k] = IF t = u /\ k = n THEN "processing" ELSE dispatch[t][k]
        BY <1>3, <2>1, <2>2
    <2>4. \A t \in Tasks : task[t] = "queued" =>
             dispatch'[t][Current(t) + 1] \in {"processing", dispatch[t][Current(t) + 1]}
        BY <1>4, <2>3
    <2>5. \A r \in relaying' : r \in relaying \/ r.step = "claimed"
        BY <2>2
    <2> QED BY <1>1, <2>2, <2>3, <2>4, <2>5
<1>6. ASSUME NEW r \in relaying, RelayCheck(r)
      PROVE  /\ dispatch' = dispatch /\ broker' = broker
             /\ \A t \in Tasks : task[t] = "queued" /\ run \notin Stopped =>
                    \A q \in relaying' : q \notin relaying /\ q.msg = next(t) => q.step # "done"
    <2> DEFINE s == IF Dispatchable(r.msg) THEN "cleared" ELSE "done"
    <2>1. relaying' = (relaying \ {r}) \cup {[r EXCEPT !.step = s]}
        BY <1>6 DEF RelayCheck, RelayMoves
    <2> HIDE DEF s
    <2>2. \A q \in relaying' : q \in relaying \/ (q.msg = r.msg /\ q.step = s)
        BY <1>2, <2>1
    <2>3. ASSUME NEW t \in Tasks, task[t] = "queued", run \notin Stopped, r.msg = next(t)
          PROVE  s # "done"
        BY <2>3 DEF s, Dispatchable, Stopped, next
    <2> QED BY <1>6, <2>2, <2>3 DEF RelayCheck
<1>7. ASSUME NEW r \in relaying, RelaySend(r)
      PROVE  /\ dispatch' = dispatch /\ broker' = broker \cup {r.msg}
             /\ \A q \in relaying' : q \in relaying \/ q.msg = r.msg
    <2>1. /\ relaying' = (relaying \ {r}) \cup {[r EXCEPT !.step = "done"]}
          /\ dispatch' = dispatch /\ broker' = broker \cup {r.msg}
        BY <1>7 DEF RelaySend, RelayMoves
    <2>2. \A q \in relaying' : q \in relaying \/ q.msg = r.msg
        BY <1>2, <2>1
    <2> QED BY <2>1, <2>2
<1>8. ASSUME NEW r \in relaying, NEW s \in {"published", "pending"},
             dispatch' = Marked(r.msg, s), relaying' = relaying \ {r}, broker' = broker,
             s = "published" => r.step = "done"
      PROVE  /\ \A t \in Tasks : Len(dispatch'[t]) = Len(dispatch[t])
             /\ \A t \in Tasks : task[t] = "queued" /\ run \notin Stopped =>
                    \/ next(t) \in broker'
                    \/ /\ dispatch'[t][Current(t) + 1] # "published"
                       /\ \A q \in relaying' : q.msg = next(t) => q.step # "done"
    <2>1. CASE dispatch' = dispatch
        BY <1>1, <1>8, <2>1
    <2>2. CASE dispatch' = [dispatch EXCEPT ![r.msg[1]][r.msg[2]] = s]
        <3>1. \A t \in Tasks : /\ Len(dispatch'[t]) = Len(dispatch[t])
                               /\ \A k \in 1..Len(dispatch[t]) :
                                     dispatch'[t][k] = IF t = r.msg[1] /\ k = r.msg[2] THEN s
                                                       ELSE dispatch[t][k]
            <4>1. /\ r.msg[1] \in Tasks /\ r.msg[2] \in 1..Len(dispatch[r.msg[1]])
                  /\ s \in OutboxStatus
                BY <1>2 DEF OutboxStatus
            <4> QED BY <1>3, <2>2, <4>1
        <3>2. ASSUME NEW t \in Tasks, task[t] = "queued", run \notin Stopped, next(t) \notin broker
              PROVE  dispatch'[t][Current(t) + 1] # "published"
            <4>1. dispatch[t][Current(t) + 1] # "published" /\ (r.msg = next(t) => r.step # "done")
                BY <1>1, <3>2
            <4>2. t = r.msg[1] /\ Current(t) + 1 = r.msg[2] => r.msg = next(t)
                BY <1>2 DEF next
            <4> QED BY <1>4, <1>8, <3>1, <3>2, <4>1, <4>2
        <3> QED BY <1>1, <1>8, <3>1, <3>2
    <2> QED BY <1>8, <2>1, <2>2 DEF Marked
<1>9. ASSUME NEW m \in revokes, RelayRevoke(m)
      PROVE  UNCHANGED <<dispatch, relaying>> /\ \A t \in Tasks : next(t) \in broker => next(t) \in broker'
    <2>1. m[2] \in 1..Current(m[1]) /\ m[1] \in Tasks
        BY Indexes
    <2>2. \A t \in Tasks : m # next(t)
        BY <2>1, Indexes DEF next
    <2> QED BY <1>9, <2>2 DEF RelayRevoke
<1>10. ASSUME NEW r \in relaying, RelayMark(r) \/ RelayFail(r)
       PROVE  \E s \in {"published", "pending"} :
                 /\ dispatch' = Marked(r.msg, s) /\ relaying' = relaying \ {r} /\ broker' = broker
                 /\ s = "published" => r.step = "done"
    BY <1>10 DEF RelayMark, RelayFail
<1>11. ASSUME NEW r \in relaying, RelayCrash(r)
       PROVE  UNCHANGED <<dispatch, broker>> /\ relaying' \subseteq relaying
    BY <1>11 DEF RelayCrash
<1>12. CASE \E r \in relaying : RelayMark(r) \/ RelayFail(r)
    BY <1>8, <1>10, <1>12
<1>13. CASE \E r \in relaying : RelayCheck(r) \/ RelayCrash(r)
    BY <1>1, <1>6, <1>11, <1>13
<1>14. CASE \E r \in relaying : RelaySend(r)
    BY <1>1, <1>7, <1>14
<1>15. CASE \E m \in revokes : RelayRevoke(m)
    BY <1>1, <1>9, <1>15
<1> QED
    BY <1>5, <1>12, <1>13, <1>14, <1>15 DEF Relay

LEMMA SentKind ==
    ASSUME FlowInv, Rows, Sent, run \in Stopped => run' \in Stopped, retries' = 0,
           NEW t \in Tasks, Kind(t)
    PROVE  (Rows /\ Sent)'
<1>1. TypeInv /\ OneLiveAttempt /\ \A d \in Tasks : Current(d) \in Nat
    BY Indexes DEF FlowInv, IInv
<1>2. ASSUME NEW s \in EndStatus, NEW b \in BudgetStatus, Ending(t, s, b)
      PROVE  (Rows /\ Sent)'
    <2>1. EndsAs(t, s) /\ task' = EvaluateDependents(Moved(t, s), t)
        BY <1>1, <1>2, EndingIs
    <2>2. /\ \A d \in Tasks : Len(attempts'[d]) = Current(d)
          /\ \A d \in Tasks \ {t} : attempts'[d] = attempts[d]
        <3>1. CASE attempts' = attempts
            BY <3>1 DEF Current
        <3>2. CASE task[t] = "running" /\ EndAttempt(Live(t), s)
            BY <1>1, <3>2, LiveEnds DEF Executing, EndStatus, AttemptStatus
        <3> QED BY <1>2, <3>1, <3>2 DEF Ending
    <2>3. task[t] \notin TaskTerminal /\ task'[t] \in TaskTerminal /\ run \notin Stopped
        BY <1>2, <2>1 DEF Ending, EndsAs, EndStatus, TaskTerminal
    <2>4. QueueDispatches(task')
        BY <1>2, <2>1 DEF Ending
    <2>5. relaying' = relaying /\ \A m \in broker : m[1] # t => m \in broker'
        BY <1>2 DEF Ending, About
    <2>6. \A d \in Tasks \ {t} :
              \/ task'[d] = task[d] /\ attempts'[d] = attempts[d]
              \/ task[d] = "blocked" /\ task'[d] \in {"queued", "skipped"}
        BY <2>1, <2>2 DEF EndsAs
    <2> QED BY <1>1, <2>2, <2>3, <2>4, <2>5, <2>6, QueueingSends
<1>3. CASE Dropping(t)
    <2>1. \A d \in Tasks : \/ task'[d] = task[d] /\ d # t
                           \/ task'[d] = "cancelled"
        BY <1>1, <1>3, DroppingIs DEF Lingers, Abandons
    <2>2. /\ \A d \in Tasks : Len(attempts'[d]) = Current(d)
          /\ \A d \in Tasks \ {t} : attempts'[d] = attempts[d]
        <3>1. CASE attempts' = attempts
            BY <3>1 DEF Current
        <3>2. CASE task[t] \in Executing /\ EndAttempt(Live(t), "cancelled")
            BY <1>1, <3>2, LiveEnds DEF AttemptStatus
        <3> QED BY <1>3, <3>1, <3>2 DEF Dropping
    <2>3. dispatch' = dispatch /\ relaying' = relaying /\ \A m \in broker : m[1] # t => m \in broker'
        BY <1>3 DEF Dropping, About
    <2>4. \A d \in Tasks : task'[d] = "queued" =>
              /\ task[d] = "queued" /\ attempts'[d] = attempts[d]
              /\ <<d, Current(d) + 1>> \in broker => <<d, Current(d) + 1>> \in broker'
        BY <2>1, <2>2, <2>3
    <2>5. \A d \in Tasks : task'[d] \notin TaskTerminal \cup {"queued"} =>
              Len(dispatch'[d]) = Len(attempts'[d])
        BY <2>1, <2>2, <2>3 DEF Rows, TaskTerminal
    <2> QED BY <2>3, <2>4, <2>5, NothingQueued
<1>4. ASSUME NEW s \in {"failed", "timed_out"}, Requeueing(t, s)
      PROVE  (Rows /\ Sent)'
    <2>1. /\ task' = Moved(t, "queued") /\ task[t] = "running" /\ run \notin Stopped
          /\ Moved(t, "queued")[t] = "queued"
          /\ \A d \in Tasks \ {t} : Moved(t, "queued")[d] = task[d]
        BY <1>1, <1>4, MovedIs DEF Requeueing, TaskStatus
    <2>2. /\ \A d \in Tasks : Len(attempts'[d]) = Current(d)
          /\ \A d \in Tasks \ {t} : attempts'[d] = attempts[d]
        BY <1>1, <1>4, LiveEnds DEF Requeueing, Executing, AttemptStatus
    <2>3. /\ QueueDispatches(task') /\ relaying' = relaying
          /\ \A m \in broker : m[1] # t => m \in broker'
        BY <1>4, <2>1 DEF Requeueing, About
    <2>4. /\ task[t] \notin TaskTerminal
          /\ task'[t] \in TaskTerminal \/ (task'[t] = "queued" /\ task[t] # "queued")
          /\ \A d \in Tasks \ {t} :
                \/ task'[d] = task[d] /\ attempts'[d] = attempts[d]
                \/ task[d] = "blocked" /\ task'[d] \in {"queued", "skipped"}
        BY <2>1, <2>2 DEF TaskTerminal
    <2> QED BY <1>1, <2>1, <2>2, <2>3, <2>4, QueueingSends
<1>5. CASE Claiming(t)
    <2>1. /\ task' = Moved(t, "running") /\ task[t] = "queued" /\ StartsLive(t)
          /\ Moved(t, "running")[t] = "running"
          /\ \A d \in Tasks \ {t} : Moved(t, "running")[d] = task[d]
          /\ dispatch' = dispatch /\ relaying' = relaying
          /\ \A m \in broker : m[1] # t => m \in broker'
        BY <1>1, <1>5, MovedIs DEF Claiming, About, StartsLive, Moved, TaskStatus
    <2>2. /\ Len(attempts'[t]) = Current(t) + 1
          /\ \A d \in Tasks \ {t} : attempts'[d] = attempts[d]
        BY <1>1, <2>1, StartsLiveAttempts
    <2>3. \A d \in Tasks : task'[d] = "queued" =>
              /\ task[d] = "queued" /\ attempts'[d] = attempts[d]
              /\ <<d, Current(d) + 1>> \in broker => <<d, Current(d) + 1>> \in broker'
        BY <2>1, <2>2
    <2>4. \A d \in Tasks : task'[d] \notin TaskTerminal \cup {"queued"} =>
              Len(dispatch'[d]) = Len(attempts'[d])
        BY <2>1, <2>2 DEF Rows, TaskTerminal, Current
    <2> QED BY <2>1, <2>3, <2>4, NothingQueued
<1>6. CASE Pausing(t)
    <2>1. /\ task' = Moved(t, "waiting_for_input") /\ task[t] = "running"
          /\ Moved(t, "waiting_for_input")[t] = "waiting_for_input"
          /\ \A d \in Tasks \ {t} : Moved(t, "waiting_for_input")[d] = task[d]
          /\ UNCHANGED <<dispatch, relaying, broker>>
        BY <1>1, <1>6, MovedIs DEF Pausing, TaskStatus
    <2>2. /\ \A d \in Tasks : Len(attempts'[d]) = Current(d)
          /\ \A d \in Tasks \ {t} : attempts'[d] = attempts[d]
        BY <1>1, <1>6, LiveEnds DEF Pausing, Executing, AttemptStatus
    <2>3. \A d \in Tasks : task'[d] = "queued" =>
              /\ task[d] = "queued" /\ attempts'[d] = attempts[d]
              /\ <<d, Current(d) + 1>> \in broker => <<d, Current(d) + 1>> \in broker'
        BY <2>1, <2>2
    <2>4. \A d \in Tasks : task'[d] \notin TaskTerminal \cup {"queued"} =>
              Len(dispatch'[d]) = Len(attempts'[d])
        BY <2>1, <2>2 DEF Rows, TaskTerminal
    <2> QED BY <2>1, <2>3, <2>4, NothingQueued
<1>7. ~RetryTask(t)
    BY <1>1 DEF RetryTask, TypeInv, TypeOK
<1> QED
    BY <1>2, <1>3, <1>4, <1>5, <1>6, <1>7 DEF Kind

LEMMA SentStep ==
    /\ FlowInv /\ DependenciesHold /\ GateSeparates /\ "abort" \notin Faults
    /\ DispatchInv /\ [Next]_vars
    => DispatchInv'
<1> SUFFICES ASSUME FlowInv, DependenciesHold, GateSeparates, "abort" \notin Faults,
                    DispatchInv, [Next]_vars, retries' = 0
             PROVE  (Rows /\ Sent)'
    BY DEF DispatchInv
<1>1. TypeInv /\ OneLiveAttempt /\ Halting /\ Waiting /\ task \in Statuses
      /\ \A d \in Tasks : Current(d) \in Nat
    BY Indexes DEF FlowInv, IInv, TypeInv, TypeOK, Statuses
<1>2. AnyKind /\ CancelStep
    BY <1>1, StepKinds, CancelNext DEF FlowInv, CancelInv, Halting
<1>3. run \in Stopped => run' \in Stopped
    BY <1>2 DEF CancelStep, Stopped
<1>4. retries = 0
    <2>1. retries' = retries \/ retries' = retries + 1
        <3>1. ASSUME NEW t \in Tasks, Kind(t)
              PROVE  retries' = retries \/ retries' = retries + 1
            BY <3>1 DEF Kind, Ending, Dropping, Requeueing, Claiming, Pausing, RetryTask, About
        <3>2. ASSUME \/ RepairRun \/ ExpireClarification \/ AnswerProduct \/ RequestCancellation
                     \/ \E m \in exec : PublishReport(m)
              PROVE  retries' = retries
            BY <3>2 DEF RepairRun, ExpireClarification, AnswerProduct, RequestCancellation,
               PublishReport, fixedVars
        <3> QED BY <1>2, <3>1, <3>2, QuietUntouched DEF AnyKind, Untouched
    <2> QED BY <1>1, <2>1 DEF TypeInv, TypeOK
<1>5. Rows /\ Sent
    BY <1>4 DEF DispatchInv
<1>6. run = "waiting_for_input" => \A t \in Tasks : task[t] # "queued"
    BY WaitsIdle
<1>7. CASE Relay
    BY <1>1, <1>5, <1>6, <1>7, RelaySends
<1>8. ASSUME UNCHANGED <<run, task, attempts, dispatch, relaying>>,
             \A d \in Tasks : run \notin Stopped /\ task[d] = "queued" /\ <<d, Current(d) + 1>> \in broker =>
                <<d, Current(d) + 1>> \in broker'
      PROVE  (Rows /\ Sent)'
    <2>1. Rows'
        BY <1>5, <1>8 DEF Rows, Current
    <2>2. ASSUME run' \notin Stopped, NEW d \in Tasks, task'[d] = "queued"
          PROVE  OnItsWay(d)'
        <3>1. OnItsWay(d) /\ run \notin Stopped /\ task[d] = "queued"
            BY <1>5, <1>8, <2>2 DEF Sent
        <3> QED BY <1>8, <3>1 DEF OnItsWay, Current
    <2> QED BY <2>1, <2>2 DEF Sent
<1>9. CASE Idle \/ \E m \in exec : PublishReport(m)
    BY <1>8, <1>9 DEF Idle, Untouched, PublishReport, queueVars
<1>10. ASSUME NEW m \in broker, Dequeues(m)
       PROVE  (Rows /\ Sent)'
    <2>1. ~Claimable(m) /\ broker' = broker \ {m}
        BY <1>10 DEF Dequeues
    <2>2. \A d \in Tasks : run \notin Stopped /\ task[d] = "queued" => m # <<d, Current(d) + 1>>
        BY <1>6, <2>1 DEF Claimable, Stopped
    <2> QED BY <1>8, <1>10, <2>1, <2>2 DEF Dequeues, Untouched
<1>11. CASE RepairRun
    <2>1. \A d \in Tasks : \/ task'[d] = task[d]
                           \/ task[d] \in {"blocked", "queued"} /\ task'[d] = "cancelled"
        BY <1>1, <1>11, RepairIs DEF Lingers, Abandons
    <2>2. \A d \in Tasks : dispatch'[d] = dispatch[d]
        <3> TAKE d \in Tasks
        <3>1. dispatch'[d] = dispatch[d] \/ (task[d] = "queued" /\ dispatch'[d] = WithDispatch(dispatch[d], Current(d)))
            BY <1>11 DEF RepairRun
        <3>2. task[d] = "queued" => Len(dispatch[d]) = Current(d) + 1
            BY <1>5 DEF Rows, TaskTerminal
        <3> QED BY <1>1, <3>1, <3>2 DEF WithDispatch
    <2>3. UNCHANGED <<attempts, relaying, broker>>
        BY <1>11 DEF RepairRun, queueVars
    <2>4. \A d \in Tasks : task'[d] = "queued" =>
              /\ task[d] = "queued" /\ attempts'[d] = attempts[d] /\ dispatch'[d] = dispatch[d]
              /\ <<d, Current(d) + 1>> \in broker => <<d, Current(d) + 1>> \in broker'
        BY <2>1, <2>2, <2>3
    <2>5. \A d \in Tasks : task'[d] \notin TaskTerminal \cup {"queued"} =>
              Len(dispatch'[d]) = Len(attempts'[d])
        BY <1>5, <2>1, <2>2, <2>3 DEF Rows, TaskTerminal, Current
    <2> QED BY <1>3, <1>5, <2>3, <2>4, <2>5, NothingQueued
<1>12. CASE ExpireClarification
    <2>1. \A d \in Tasks : task'[d] = ExpiredStatus(task[d])
        BY <1>12 DEF ExpireClarification
    <2>2. \A d \in Tasks : task'[d] # "queued"
                           /\ (task'[d] \notin TaskTerminal => task[d] = task'[d])
        BY <2>1 DEF ExpiredStatus, TaskTerminal
    <2>3. UNCHANGED <<attempts, dispatch, relaying>>
        BY <1>12 DEF ExpireClarification, queueVars
    <2>4. \A d \in Tasks : task'[d] \notin TaskTerminal \cup {"queued"} =>
              Len(dispatch'[d]) = Len(attempts'[d])
        BY <1>5, <2>2, <2>3 DEF Rows, Current
    <2> QED BY <1>3, <1>5, <2>2, <2>3, <2>4, NothingQueued
<1>13. CASE AnswerProduct
    <2>1. PICK g \in Gate : /\ g \in Tasks /\ task[g] = "waiting_for_input"
                            /\ EndsAs(g, "succeeded") /\ QueueDispatches(task')
        BY <1>1, <1>13, AnswerIs
    <2>2. UNCHANGED <<attempts, relaying, broker>> /\ run = "waiting_for_input"
        BY <1>13 DEF AnswerProduct, queueVars
    <2>3. /\ task[g] \notin TaskTerminal /\ task'[g] \in TaskTerminal /\ run \notin Stopped
          /\ \A d \in Tasks : Len(attempts'[d]) = Current(d)
          /\ \A d \in Tasks \ {g} :
                \/ task'[d] = task[d] /\ attempts'[d] = attempts[d]
                \/ task[d] = "blocked" /\ task'[d] \in {"queued", "skipped"}
        BY <2>1, <2>2 DEF EndsAs, TaskTerminal, Stopped, Current
    <2> QED BY <1>1, <1>5, <2>1, <2>2, <2>3, QueueingSends
<1>14. CASE RequestCancellation
    <2>1. /\ \A t \in Tasks :
                Cancelled(task)[t] =
                   IF task[t] \in {"blocked", "queued", "waiting_for_input"} THEN "cancelled"
                   ELSE IF task[t] = "running" THEN "cancelling" ELSE task[t]
          /\ Lingers(Cancelled(task)) \/ Abandons(Cancelled(task))
        BY <1>1, <1>14, CancellationIs
    <2>2. \A d \in Tasks : task'[d] = Cancelled(task)[d]
        BY <2>1 DEF Lingers, Abandons
    <2>3. \A d \in Tasks : /\ task'[d] # "queued"
                           /\ task'[d] \notin TaskTerminal => task[d] \notin TaskTerminal \cup {"queued"}
        BY <2>1, <2>2 DEF TaskTerminal
    <2>4. UNCHANGED <<attempts, dispatch, relaying>>
        BY <1>14 DEF RequestCancellation
    <2>5. \A d \in Tasks : task'[d] \notin TaskTerminal \cup {"queued"} =>
              Len(dispatch'[d]) = Len(attempts'[d])
        BY <1>5, <2>3, <2>4 DEF Rows, Current
    <2> QED BY <1>3, <1>5, <2>3, <2>4, <2>5, NothingQueued
<1>15. ASSUME NEW t \in Tasks, Kind(t)
       PROVE  (Rows /\ Sent)'
    BY <1>3, <1>5, <1>15, SentKind
<1> QED
    BY <1>2, <1>7, <1>9, <1>10, <1>11, <1>12, <1>13, <1>14, <1>15 DEF AnyKind

\* No queued task of a live run is without a delivery on its way, as long as
\* no transaction of a worker is aborted and nobody has retried a task
\* (queue_task_dispatch, _publish_task_dispatch, relay_runtime_outbox).
THEOREM DispatchesArrive ==
    GateSeparates /\ "abort" \notin Faults => (Spec => [](retries = 0 => NoLostDispatch))
<1> SUFFICES ASSUME GateSeparates, "abort" \notin Faults
             PROVE  Spec => [](retries = 0 => NoLostDispatch)
    OBVIOUS
<1>1. Init => DispatchInv
    <2> SUFFICES ASSUME Init PROVE Rows /\ Sent
        BY DEF DispatchInv
    <2>1. \A t \in Tasks : /\ Current(t) = 0
                           /\ task[t] \in {"queued", "blocked"}
                           /\ task[t] = "queued" => dispatch[t] = <<"pending">>
                           /\ task[t] = "blocked" => dispatch[t] = <<>>
        BY DEF Init, Current
    <2>2. Rows
        <3>1. Len(<<"pending">>) = 1 /\ Len(<<>>) = 0
            OBVIOUS
        <3>2. \A t \in Tasks : Len(dispatch[t]) = IF task[t] = "queued" THEN 1 ELSE 0
            BY <2>1, <3>1
        <3>3. \A t \in Tasks : Len(dispatch[t]) = IF task[t] = "queued" THEN Current(t) + 1 ELSE Current(t)
            BY <2>1, <3>2
        <3> QED BY <3>3 DEF Rows
    <2>3. relaying = {} /\ \A t \in Tasks : task[t] = "queued" => dispatch[t][1] = "pending"
        BY <2>1 DEF Init
    <2> QED BY <2>1, <2>2, <2>3 DEF Sent, OnItsWay
<1>2. FlowInv /\ DependenciesHold /\ DispatchInv /\ [Next]_vars => DispatchInv'
    BY SentStep
<1>3. FlowInv /\ DispatchInv => (retries = 0 => NoLostDispatch)
    <2> SUFFICES ASSUME FlowInv, DispatchInv, retries = 0, NEW t \in Tasks,
                        run \in {"queued", "running"}, task[t] = "queued",
                        <<t, Current(t) + 1>> \notin broker
                 PROVE  /\ Current(t) + 1 \in DOMAIN dispatch[t]
                        /\ dispatch[t][Current(t) + 1] \in {"pending", "processing"}
        BY DEF NoLostDispatch
    <2>1. /\ Current(t) \in Nat /\ Len(dispatch[t]) = Current(t) + 1
          /\ dispatch[t] \in Seq(OutboxStatus)
        BY Indexes DEF FlowInv, IInv, TypeInv, TypeOK, DispatchInv, Rows, TaskTerminal
    <2>2. Current(t) + 1 \in DOMAIN dispatch[t] /\ dispatch[t][Current(t) + 1] \in OutboxStatus
        BY <2>1, LenProperties
    <2>3. dispatch[t][Current(t) + 1] # "published"
        BY DEF DispatchInv, Sent, OnItsWay, Stopped
    <2> QED BY <2>2, <2>3 DEF OutboxStatus
<1> QED
    BY <1>1, <1>2, <1>3, StatusesFit, DependenciesAlwaysHold, PTL DEF Spec

-----------------------------------------------------------------------------
(* Work that is left *)

\* A task that is doomed stays so while its ended upstreams stay as they are.
LEMMA DoomedKept ==
    ASSUME NEW ts, NEW us, NEW d \in Tasks, Doomed(ts, d),
           \A e \in Deps[d] : ts[e] \in TaskTerminal => us[e] = ts[e]
    PROVE  Doomed(us, d)
<1>1. CASE d \notin FanIn
    BY <1>1 DEF Doomed, TaskTerminal
<1>2. CASE d \in FanIn
    <2>1. Deps[d] # {} /\ AllTerminal(ts, d) /\ ~Satisfied(ts, d)
        BY <1>2 DEF Doomed
    <2>2. \A e \in Deps[d] : us[e] = ts[e]
        BY <2>1 DEF AllTerminal
    <2>3. AllTerminal(us, d)
        BY <2>1, <2>2 DEF AllTerminal
    <2>4. Succeeded(us, d) = Succeeded(ts, d)
        BY <2>2 DEF Succeeded
    <2>5. AuditFailed(us, d) <=> AuditFailed(ts, d)
        BY <2>2 DEF AuditFailed
    <2>6. ~Satisfied(us, d)
        BY <1>2, <2>1, <2>4, <2>5 DEF Satisfied
    <2> QED BY <1>2, <2>1, <2>3, <2>6 DEF Doomed
<1> QED
    BY <1>1, <1>2

\* A task whose upstreams have all succeeded is not doomed.
LEMMA NotDoomed ==
    ASSUME Attainable, NEW ts, NEW d \in Tasks, \A e \in Deps[d] : ts[e] = "succeeded"
    PROVE  ~Doomed(ts, d)
<1>1. CASE d \notin FanIn
    BY <1>1 DEF Doomed
<1>2. CASE d \in FanIn /\ Deps[d] # {}
    <2>1. Succeeded(ts, d) = Deps[d]
        BY DEF Succeeded
    <2>2. IsFiniteSet(Deps[d])
        BY GraphAssumption, FS_Subset
    <2>3. Cardinality(Deps[d]) \in Nat /\ MinSuccess[d] \in Nat
        BY <2>2, FS_CardinalityType, GraphAssumption
    <2>4. Cardinality(Succeeded(ts, d)) >= MinSuccess[d]
        BY <1>2, <2>1, <2>3 DEF Attainable
    <2>5. ~AuditFailed(ts, d)
        BY DEF AuditFailed
    <2> QED BY <1>2, <2>4, <2>5 DEF Doomed, Satisfied
<1>3. CASE d \in FanIn /\ Deps[d] = {}
    BY <1>3 DEF Doomed
<1> QED
    BY <1>1, <1>2, <1>3

LEMMA SkipIs ==
    ASSUME NEW ts, NEW S, NEW d \in Tasks
    PROVE  Skip(ts, S)[d] = IF d \in S THEN "skipped" ELSE ts[d]
BY DEF Skip

\* The more is skipped, the more is doomed.
LEMMA DoomedGrows ==
    ASSUME NEW ts, NEW S \in SUBSET Blocked(ts), NEW R \in SUBSET S,
           NEW d \in Tasks, Doomed(Skip(ts, R), d)
    PROVE  Doomed(Skip(ts, S), d)
<1>1. \A e \in Deps[d] : e \in Tasks
    BY GraphAssumption
<1>2. ASSUME NEW e \in Deps[d], Skip(ts, R)[e] \in TaskTerminal
      PROVE  Skip(ts, S)[e] = Skip(ts, R)[e]
    <2>1. CASE e \in R
        BY <1>1, <2>1, SkipIs
    <2>2. CASE e \notin R
        <3>1. ts[e] \in TaskTerminal
            BY <1>1, <1>2, <2>2, SkipIs
        <3>2. e \notin S
            BY <3>1 DEF Blocked, TaskTerminal
        <3> QED BY <1>1, <2>2, <3>2, SkipIs
    <2> QED BY <2>1, <2>2
<1> QED
    BY <1>2, DoomedKept

\* What the recursion of _evaluate_dependents skips is closed, and nothing in
\* it is skipped without being doomed by the rest.
LEMMA SkippedIsLeast ==
    ASSUME NEW ts, NEW u
    PROVE  /\ SkippedBy(ts, u) \subseteq Blocked(ts)
           /\ SkipClosed(ts, u, SkippedBy(ts, u))
           /\ \A d \in SkippedBy(ts, u) : Doomed(Skip(ts, SkippedBy(ts, u)), d)
<1> DEFINE S == SkippedBy(ts, u)
<1>1. S \subseteq Blocked(ts) /\ Blocked(ts) \subseteq Tasks
    BY DEF SkippedBy, Blocked
<1>2. \A R \in SUBSET Blocked(ts) : SkipClosed(ts, u, R) => S \subseteq R
    BY DEF SkippedBy
<1>3. \A d \in Blocked(ts) : (\A R \in SUBSET Blocked(ts) : SkipClosed(ts, u, R) => d \in R) => d \in S
    BY DEF SkippedBy
<1> HIDE DEF S
<1>4. ASSUME NEW d \in Blocked(ts), Deps[d] \cap ({u} \cup S) # {}, Doomed(Skip(ts, S), d)
      PROVE  d \in S
    <2>1. ASSUME NEW R \in SUBSET Blocked(ts), SkipClosed(ts, u, R)
          PROVE  d \in R
        <3>1. S \subseteq R
            BY <1>2, <2>1
        <3>2. Doomed(Skip(ts, R), d)
            BY <1>1, <1>4, <3>1, DoomedGrows
        <3>3. Deps[d] \cap ({u} \cup R) # {}
            BY <1>4, <3>1
        <3> QED BY <2>1, <3>2, <3>3 DEF SkipClosed
    <2> QED BY <1>3, <2>1
<1>5. SkipClosed(ts, u, S)
    BY <1>4 DEF SkipClosed
<1> DEFINE D == {d \in S : Doomed(Skip(ts, S), d)}
<1>6. ASSUME NEW d \in Blocked(ts), Deps[d] \cap ({u} \cup D) # {}, Doomed(Skip(ts, D), d)
      PROVE  d \in D
    <2>1. Doomed(Skip(ts, S), d)
        BY <1>1, <1>6, DoomedGrows
    <2>2. Deps[d] \cap ({u} \cup S) # {}
        BY <1>6
    <2>3. d \in S
        BY <1>4, <2>1, <2>2
    <2> QED BY <2>1, <2>3
<1>7. D \in SUBSET Blocked(ts) /\ SkipClosed(ts, u, D)
    BY <1>1, <1>6 DEF SkipClosed
<1>8. S \subseteq D
    BY <1>2, <1>7
<1> QED
    BY <1>1, <1>5, <1>8 DEF S

\* Every task that was decided has been decided rightly: none is cancelled,
\* the skipped ones are doomed, and the blocked ones wait for something.
Settled(ts) ==
    \A t \in Tasks :
        /\ ts[t] # "cancelled"
        /\ ts[t] = "skipped" => Doomed(ts, t)
        /\ ts[t] = "blocked" => \E u \in Deps[t] : ts[u] \notin TaskTerminal

LEMMA EvaluationSettles ==
    ASSUME TypeInv, Settled(task), NEW t \in Tasks, task[t] \notin TaskTerminal,
           NEW s \in EndStatus
    PROVE  Settled(EvaluateDependents(Moved(t, s), t))
<1> DEFINE ts  == Moved(t, s)
           S   == SkippedBy(ts, t)
           mid == Skip(ts, S)
           us  == EvaluateDependents(ts, t)
<1>1. /\ ts \in Statuses /\ ts[t] = s /\ \A d \in Tasks \ {t} : ts[d] = task[d]
      /\ s \in {"succeeded", "failed", "timed_out"}
    BY MovedIs DEF EndStatus, TaskStatus
<1>2. /\ S \subseteq Blocked(ts) /\ SkipClosed(ts, t, S)
      /\ \A d \in S : Doomed(mid, d)
    BY SkippedIsLeast
<1>3. \A d \in Tasks : mid[d] = IF d \in S THEN "skipped" ELSE ts[d]
    BY SkipIs
<1>4. \A d \in Tasks : us[d] = IF /\ mid[d] = "blocked"
                                  /\ Deps[d] \cap ({t} \cup S) # {}
                                  /\ Ready(mid, d)
                               THEN "queued" ELSE mid[d]
    BY DEF EvaluateDependents
<1>5. \A d \in S : d \in Tasks /\ ts[d] = "blocked"
    BY <1>2 DEF Blocked
<1>d. \A d \in Tasks : Deps[d] \subseteq Tasks
    BY GraphAssumption
<1> HIDE DEF us, mid, S, ts
<1>6. ASSUME NEW d \in Tasks
      PROVE  us[d] # "cancelled"
    BY <1>1, <1>3, <1>4 DEF Settled
<1>7. ASSUME NEW d \in Tasks, us[d] = "skipped"
      PROVE  Doomed(us, d)
    <2>1. CASE d \in S
        <3>1. \A e \in Deps[d] : mid[e] \in TaskTerminal => us[e] = mid[e]
            BY <1>4, <1>d DEF TaskTerminal
        <3> QED BY <1>2, <2>1, <3>1, DoomedKept
    <2>2. CASE d \notin S
        <3>1. d # t /\ task[d] = "skipped"
            BY <1>1, <1>3, <1>4, <1>7, <2>2
        <3>2. Doomed(task, d)
            BY <3>1 DEF Settled
        <3>3. ASSUME NEW e \in Deps[d], task[e] \in TaskTerminal
              PROVE  us[e] = task[e]
            <4>1. e \in Tasks /\ e # t
                BY <1>d, <3>3
            <4>2. ts[e] = task[e] /\ e \notin S
                BY <1>1, <1>5, <3>3, <4>1 DEF TaskTerminal
            <4> QED BY <1>3, <1>4, <3>3, <4>1, <4>2 DEF TaskTerminal
        <3> QED BY <3>2, <3>3, DoomedKept
    <2> QED BY <2>1, <2>2
<1>8. ASSUME NEW d \in Tasks, us[d] = "blocked"
      PROVE  \E u \in Deps[d] : us[u] \notin TaskTerminal
    <2>1. mid[d] = "blocked" /\ d \notin S /\ ts[d] = "blocked" /\ task[d] = "blocked"
        BY <1>1, <1>3, <1>4, <1>8
    <2>2. SUFFICES ASSUME \A u \in Deps[d] : us[u] \in TaskTerminal PROVE FALSE
        OBVIOUS
    <2>3. AllTerminal(mid, d)
        BY <1>4, <1>d, <2>2 DEF AllTerminal, TaskTerminal
    <2>4. PICK v \in Deps[d] : task[v] \notin TaskTerminal
        BY <2>1 DEF Settled
    <2>5. v \in {t} \cup S
        BY <1>1, <1>3, <1>d, <2>3, <2>4 DEF AllTerminal
    <2>6. Deps[d] \cap ({t} \cup S) # {}
        BY <2>4, <2>5
    <2>7. ~Ready(mid, d)
        BY <1>4, <1>8, <2>1, <2>6
    <2>8. ~Doomed(mid, d)
        BY <1>2, <2>1, <2>6 DEF SkipClosed, Blocked, mid
    <2>9. Satisfied(mid, d)
        <3>1. CASE d \in FanIn
            BY <2>3, <2>4, <2>8, <3>1 DEF Doomed
        <3>2. CASE d \notin FanIn
            BY <2>3, <2>8, <3>2 DEF Doomed, Satisfied, AllTerminal, TaskTerminal
        <3> QED BY <3>1, <3>2
    <2> QED BY <2>3, <2>4, <2>7, <2>9 DEF Ready
<1> QED
    BY <1>6, <1>7, <1>8 DEF Settled, us, ts

\* When everything has ended and nothing failed, everything succeeded.
LEMMA AllSucceed ==
    ASSUME Attainable, NEW ts \in Statuses, Settled(ts), Unfinished(ts) = {},
           \A t \in Tasks : ts[t] \notin {"failed", "timed_out"}
    PROVE  \A t \in Tasks : ts[t] = "succeeded"
<1> DEFINE S == {t \in Tasks : ts[t] # "succeeded"}
<1>1. SUFFICES ASSUME S # {} PROVE FALSE
    OBVIOUS
<1>2. PICK t \in S : Deps[t] \cap S = {}
    BY <1>1, GraphAssumption DEF Acyclic
<1>3. t \in Tasks /\ ts[t] = "skipped"
    BY DEF Unfinished, TaskTerminal, Settled
<1>4. \A e \in Deps[t] : ts[e] = "succeeded"
    BY <1>2, <1>3, GraphAssumption
<1> QED
    BY <1>3, <1>4, NotDoomed DEF Settled

LeftToDo == run \in {"queued", "running"} => Unfinished(task) # {}

Open == {"queued", "running", "waiting_for_input"}

WorkInv == retries = 0 => (run \in Open => Settled(task)) /\ LeftToDo

LEMMA FinalisationLeaves ==
    ASSUME TypeInv, TypeInv', Attainable, Settled(task'), Stays \/ Closes
    PROVE  LeftToDo'
<1>1. CASE Closes
    BY <1>1 DEF Closes, LeftToDo, TypeInv, TypeOK
<1>2. CASE Stays
    <2>1. SUFFICES ASSUME run \in {"queued", "running"}, Unfinished(task') = {} PROVE FALSE
        BY <1>2 DEF Stays, LeftToDo
    <2>2. Undecided(task') /\ task' \in Statuses
        BY <1>2, <2>1 DEF Stays, TypeInv, TypeOK, Statuses
    <2> QED BY <2>1, <2>2, AllSucceed DEF Undecided
<1> QED
    BY <1>1, <1>2

\* An answer leaves something to do behind the gate.
LEMMA AnswerLeaves ==
    ASSUME FlowInv, TypeInv', DependenciesHold, GateSeparates, Attainable, Settled(task),
           Settled(task'), NEW g \in Gate, g \in Tasks, task[g] = "waiting_for_input",
           EndsAs(g, "succeeded")
    PROVE  Unfinished(task') # {}
<1>1. Later(g) \subseteq Tasks /\ Later(g) # {}
    BY DEF GateSeparates, Later
<1>2. PICK t \in Later(g) : Deps[t] \cap Later(g) = {}
    BY <1>1, GraphAssumption DEF Acyclic
<1>3. t \in Tasks /\ g \in Deps[t] /\ Deps[t] \subseteq Tasks
    BY <1>1, <1>2, GraphAssumption DEF GateSeparates
<1>4. \A u \in Ancestors(g) : u \in Tasks /\ task[u] = "succeeded"
    BY GatePast DEF Held, Ancestors
<1>5. \A u \in Deps[t] \ {g} : task[u] = "succeeded"
    BY <1>2, <1>3, <1>4 DEF Later
<1>6. task[t] \in Held /\ t # g
    BY GateOpens DEF Later
<1>7. task[t] = "blocked"
    <2>1. ~Doomed(task, t)
        BY <1>3, <1>5 DEF Doomed, AllTerminal, TaskTerminal
    <2> QED BY <1>3, <1>6, <2>1 DEF Settled, Held
<1>8. \A u \in Deps[t] : task'[u] = "succeeded"
    BY <1>3, <1>5 DEF EndsAs
<1>9. ~Doomed(task', t)
    BY <1>3, <1>8, NotDoomed
<1>10. task'[t] \in {"blocked", "queued"}
    BY <1>3, <1>6, <1>7, <1>9 DEF EndsAs, Settled
<1> QED
    BY <1>3, <1>10 DEF Unfinished, TaskTerminal

LEMMA SettledSame ==
    ASSUME NEW ts, NEW us, Settled(ts), \A d \in Tasks : us[d] = ts[d]
    PROVE  Settled(us)
<1>1. \A d \in Tasks : Deps[d] \subseteq Tasks
    BY GraphAssumption
<1>2. \A d \in Tasks : Doomed(ts, d) => Doomed(us, d)
    BY <1>1, DoomedKept
<1> QED
    BY <1>1, <1>2 DEF Settled

\* Moving t between statuses in which it has not ended unsettles nothing.
LEMMA SettledMove ==
    ASSUME Settled(task), NEW t \in Tasks, task[t] \notin TaskTerminal,
           task'[t] \notin TaskTerminal \cup {"blocked"},
           \A d \in Tasks \ {t} : task'[d] = task[d]
    PROVE  Settled(task') /\ Unfinished(task') # {}
<1>1. \A d \in Tasks : Deps[d] \subseteq Tasks
    BY GraphAssumption
<1>2. \A d \in Tasks : task[d] \in TaskTerminal => task'[d] = task[d]
    OBVIOUS
<1>3. \A d \in Tasks : Doomed(task, d) => Doomed(task', d)
    BY <1>1, <1>2, DoomedKept
<1>4. \A d \in Tasks : task[d] \notin TaskTerminal => task'[d] \notin TaskTerminal
    OBVIOUS
<1>5. ASSUME NEW d \in Tasks
      PROVE  /\ task'[d] # "cancelled"
             /\ task'[d] = "skipped" => Doomed(task', d)
             /\ task'[d] = "blocked" => \E u \in Deps[d] : task'[u] \notin TaskTerminal
    <2>1. CASE d = t
        BY <2>1 DEF TaskTerminal
    <2>2. CASE d # t
        <3>1. task'[d] = task[d]
            BY <2>2
        <3> QED BY <1>1, <1>3, <1>4, <3>1 DEF Settled
    <2> QED BY <2>1, <2>2
<1> QED
    BY <1>5 DEF Settled, Unfinished

LEMMA WorkKind ==
    ASSUME FlowInv, TypeInv', DependenciesHold, GateSeparates, Attainable,
           run \in Open, Settled(task), retries' = 0, NEW t \in Tasks, Kind(t)
    PROVE  Settled(task') /\ LeftToDo'
<1>1. TypeInv /\ OneLiveAttempt /\ Waiting /\ Halting
    BY DEF FlowInv, IInv
<1>2. ASSUME NEW s \in EndStatus, NEW b \in BudgetStatus, Ending(t, s, b)
      PROVE  Settled(task') /\ LeftToDo'
    <2>1. task' = EvaluateDependents(Moved(t, s), t) /\ (Stays \/ Closes)
        BY <1>1, <1>2, EndingIs
    <2>2. task[t] \notin TaskTerminal
        BY <1>2 DEF Ending, TaskTerminal
    <2>3. Settled(task')
        BY <1>1, <2>1, <2>2, EvaluationSettles
    <2> QED BY <1>1, <2>1, <2>3, FinalisationLeaves
<1>3. ~Dropping(t)
    <2>1. SUFFICES ASSUME task[t] \in Executing, run # "running" PROVE FALSE
        BY DEF Dropping, Stopped, Open
    <2>2. run = "waiting_for_input"
        BY <1>1, <2>1 DEF Waiting, Open
    <2>3. PICK g \in Gate : \A d \in Tasks : task[d] = "waiting_for_input" <=> d = g
        BY <1>1, <2>2 DEF Waiting
    <2>4. g \in Tasks /\ task[g] = "waiting_for_input"
        BY <2>3, RuntimeAssumption
    <2> QED BY <2>1, <2>4, GateAlone DEF Held, Executing
<1>4. CASE \/ \E s \in {"failed", "timed_out"} : Requeueing(t, s)
           \/ Claiming(t) \/ Pausing(t)
    <2>1. /\ task[t] \notin TaskTerminal
          /\ \E x \in {"queued", "running", "waiting_for_input"} : task' = Moved(t, x)
        BY <1>4 DEF Requeueing, Claiming, Pausing, TaskTerminal
    <2>2. task'[t] \notin TaskTerminal \cup {"blocked"} /\ \A d \in Tasks \ {t} : task'[d] = task[d]
        BY <1>1, <2>1, MovedIs DEF TaskStatus, TaskTerminal
    <2> QED BY <2>1, <2>2, SettledMove DEF LeftToDo
<1>5. ~RetryTask(t)
    BY <1>1 DEF RetryTask, TypeInv, TypeOK
<1> QED
    BY <1>2, <1>3, <1>4, <1>5 DEF Kind

\* A run opens again only by a retry.
LEMMA Reopening ==
    ASSUME FlowInv, Ended, [Next]_vars, run \notin Open, run' \in Open
    PROVE  \E t \in Tasks : RetryTask(t)
<1>1. TypeInv /\ OneLiveAttempt /\ Halting /\ run \in RunStatus
    BY DEF FlowInv, IInv, TypeInv, TypeOK
<1>2. AnyKind /\ CancelStep
    BY <1>1, StepKinds, CancelNext DEF FlowInv, CancelInv, Halting
<1>3. run \in RunTerminal /\ run # "cancelled"
    BY <1>1, <1>2 DEF CancelStep, Open, RunStatus, RunTerminal
<1>4. run' # run
    OBVIOUS
<1>5. \A t \in Tasks : task[t] \notin {"blocked", "queued", "running", "cancelling"}
    BY <1>3 DEF Ended, Unfinished, TaskTerminal
<1>6. ASSUME NEW t \in Tasks, Kind(t)
      PROVE  RetryTask(t)
    BY <1>5, <1>6 DEF Kind, Ending, Dropping, Requeueing, Claiming, Pausing, Executing
<1>7. ~RepairRun /\ ~ExpireClarification /\ ~AnswerProduct /\ ~RequestCancellation
    BY <1>3 DEF RepairRun, ExpireClarification, AnswerProduct, RequestCancellation, RunTerminal
<1>8. ASSUME NEW m \in exec, PublishReport(m)
      PROVE  FALSE
    BY <1>4, <1>8 DEF PublishReport
<1> QED
    BY <1>2, <1>4, <1>6, <1>7, <1>8, QuietUntouched DEF AnyKind, Untouched

LEMMA WorkStep ==
    /\ FlowInv /\ FlowInv' /\ DependenciesHold /\ Ended /\ GateSeparates /\ Attainable
    /\ WorkInv /\ [Next]_vars
    => WorkInv'
<1> SUFFICES ASSUME FlowInv, FlowInv', DependenciesHold, Ended, GateSeparates, Attainable,
                    WorkInv, [Next]_vars, retries' = 0, run' \in Open
             PROVE  Settled(task') /\ LeftToDo'
    BY DEF WorkInv, LeftToDo, Open
<1>1. TypeInv /\ TypeInv' /\ OneLiveAttempt /\ Halting /\ task \in Statuses
    BY DEF FlowInv, IInv, TypeInv, TypeOK, Statuses
<1>2. AnyKind
    BY <1>1, StepKinds
<1>3. retries = 0
    <2>1. retries' = retries \/ retries' = retries + 1
        <3>1. ASSUME NEW t \in Tasks, Kind(t)
              PROVE  retries' = retries \/ retries' = retries + 1
            BY <3>1 DEF Kind, Ending, Dropping, Requeueing, Claiming, Pausing, RetryTask, About
        <3>2. ASSUME \/ RepairRun \/ ExpireClarification \/ AnswerProduct \/ RequestCancellation
                     \/ \E m \in exec : PublishReport(m)
              PROVE  retries' = retries
            BY <3>2 DEF RepairRun, ExpireClarification, AnswerProduct, RequestCancellation,
               PublishReport, fixedVars
        <3> QED BY <1>2, <3>1, <3>2, QuietUntouched DEF AnyKind, Untouched
    <2> QED BY <1>1, <2>1 DEF TypeInv, TypeOK
<1>4. run \in Open
    <2>1. \A t \in Tasks : ~RetryTask(t)
        BY <1>1, <1>3 DEF RetryTask
    <2> QED BY <2>1, Reopening
<1>5. Settled(task) /\ LeftToDo
    BY <1>3, <1>4 DEF WorkInv
<1>6. CASE UNCHANGED <<run, task>>
    BY <1>5, <1>6 DEF LeftToDo
<1>7. CASE RepairRun
    <2>1. task' = task /\ (Stays \/ Closes)
        BY <1>1, <1>4, <1>7, RepairIs DEF Open
    <2> QED BY <1>1, <1>5, <2>1, FinalisationLeaves
<1>8. ~ExpireClarification /\ ~RequestCancellation
    <2>1. ~ExpireClarification
        BY DEF ExpireClarification, Open
    <2>2. ~RequestCancellation
        BY <1>1, CancellationIs DEF Lingers, Abandons, Open
    <2> QED BY <2>1, <2>2
<1>9. CASE AnswerProduct
    <2>1. PICK g \in Gate : /\ g \in Tasks /\ task[g] = "waiting_for_input"
                            /\ task' = EvaluateDependents(Moved(g, "succeeded"), g)
                            /\ EndsAs(g, "succeeded")
        BY <1>1, <1>9, AnswerIs
    <2>2. Settled(task')
        BY <1>1, <1>5, <2>1, EvaluationSettles DEF EndStatus, TaskTerminal
    <2> QED BY <1>1, <1>5, <2>1, <2>2, AnswerLeaves DEF LeftToDo
<1>10. ASSUME NEW m \in exec, PublishReport(m)
       PROVE  UNCHANGED <<run, task>>
    BY <1>10 DEF PublishReport
<1> QED
    BY <1>1, <1>2, <1>4, <1>5, <1>6, <1>7, <1>8, <1>9, <1>10, WorkKind, QuietUntouched
    DEF AnyKind, Untouched

\* Until somebody retries a task, a live run always has one that is queued,
\* executing or waiting for an answer (_evaluate_dependents, _finalize_run).
THEOREM WorkUntilRetried ==
    GateSeparates /\ Attainable => (Spec => []HasWorkUntilRetried)
<1> SUFFICES ASSUME GateSeparates, Attainable
             PROVE  Spec => []HasWorkUntilRetried
    OBVIOUS
<1>1. Init => WorkInv /\ Ended
    <2> SUFFICES ASSUME Init PROVE Settled(task) /\ LeftToDo /\ Ended
        BY DEF WorkInv
    <2>1. \A t \in Tasks : /\ task[t] = IF Deps[t] = {} THEN "queued" ELSE "blocked"
                           /\ task[t] \notin TaskTerminal
                           /\ Deps[t] \subseteq Tasks
        BY GraphAssumption DEF Init, TaskTerminal
    <2>2. Settled(task)
        BY <2>1 DEF Settled
    <2>3. LeftToDo
        BY <2>1, GraphAssumption DEF LeftToDo, Unfinished
    <2>4. Ended
        BY DEF Init, Ended, RunTerminal
    <2> QED BY <2>2, <2>3, <2>4
<1>2. FlowInv /\ FlowInv' /\ DependenciesHold /\ Ended /\ WorkInv /\ [Next]_vars => WorkInv'
    BY WorkStep
<1>3. FlowInv /\ DependenciesHold /\ Ended /\ [Next]_vars => Ended'
    BY EndedStep
<1>4. WorkInv => HasWorkUntilRetried
    <2> SUFFICES ASSUME WorkInv, retries = 0, run \in {"queued", "running"}
                 PROVE  \E t \in Tasks : task[t] \notin TaskTerminal \cup {"blocked"}
        BY DEF HasWorkUntilRetried, LiveRunHasWork
    <2>1. Settled(task) /\ Unfinished(task) # {} /\ Unfinished(task) \subseteq Tasks
        BY DEF WorkInv, LeftToDo, Open, Unfinished
    <2>2. PICK t \in Unfinished(task) : Deps[t] \cap Unfinished(task) = {}
        BY <2>1, GraphAssumption DEF Acyclic
    <2>3. t \in Tasks /\ task[t] \notin TaskTerminal /\ \A u \in Deps[t] : task[u] \in TaskTerminal
        BY <2>1, <2>2, GraphAssumption DEF Unfinished
    <2> QED BY <2>1, <2>3 DEF Settled
<1> QED
    BY <1>1, <1>2, <1>3, <1>4, StatusesFit, DependenciesAlwaysHold, PTL DEF Spec

-----------------------------------------------------------------------------
(* The promise to the initiator *)

\* Nobody but its worker ends the attempt a worker is executing.
Manned == \A m \in exec : ~AttemptOver(m)

\* A report exists only behind a gate that has succeeded.
Reported == report # "none" => \A g \in Gate : task[g] = "succeeded"

PromiseInv == FlowInv /\ OneAcceptedResult /\ DependenciesHold /\ Audited /\ Ended /\ Manned /\ Reported

LEMMA MannedKeeps ==
    ASSUME Manned, attempts' = attempts, exec' \subseteq exec
    PROVE  Manned'
BY DEF Manned, AttemptOver

LEMMA MannedOthers ==
    ASSUME FlowInv, Manned, NEW t \in Tasks, EndsLive(t), exec' \subseteq exec \ {Live(t)}
    PROVE  Manned'
<1> SUFFICES ASSUME NEW k \in exec' PROVE attempts'[k[1]][k[2]] = "running"
    BY DEF Manned, AttemptOver
<1>1. k \in exec /\ k # Live(t)
    OBVIOUS
<1>2. ~AttemptOver(k)
    BY <1>1 DEF Manned
<1>3. k[1] \in Tasks /\ k[1] # t
    BY <1>1, <1>2, LiveExecution DEF FlowInv, IInv, Live
<1>4. attempts'[k[1]] = attempts[k[1]]
    BY <1>3, EndsLiveAttempts DEF FlowInv, IInv
<1> QED
    BY <1>2, <1>4 DEF AttemptOver

LEMMA MannedReceive ==
    ASSUME FlowInv, Manned, NEW m \in broker, Receive(m)
    PROVE  Manned'
<1>1. CASE ClaimTask(m)
    <2>1. /\ StartsLive(m[1]) /\ exec' = exec \cup {m} /\ m[2] = Current(m[1]) + 1
        BY <1>1 DEF ClaimTask, Claimable, StartsLive
    <2>2. m[1] \in Tasks
        BY Indexes DEF FlowInv, IInv
    <2>3. /\ Current(m[1]) \in Nat
          /\ \A d \in Tasks \ {m[1]} : attempts'[d] = attempts[d]
          /\ \A n \in 1..Current(m[1]) : attempts'[m[1]][n] = attempts[m[1]][n]
          /\ attempts'[m[1]][Current(m[1]) + 1] = "running"
        BY <2>1, <2>2, StartsLiveAttempts DEF FlowInv, IInv
    <2>4. \A k \in exec : k[1] \in Tasks /\ k[2] \in 1..Current(k[1])
        BY Indexes DEF FlowInv, IInv
    <2>5. ASSUME NEW k \in exec
          PROVE  attempts'[k[1]][k[2]] = "running"
        <3>1. attempts[k[1]][k[2]] = "running"
            BY DEF Manned, AttemptOver
        <3>2. attempts'[k[1]][k[2]] = attempts[k[1]][k[2]]
            BY <2>3, <2>4
        <3> QED BY <3>1, <3>2
    <2> QED BY <2>1, <2>3, <2>5 DEF Manned, AttemptOver
<1>2. CASE ~ClaimTask(m)
    <2>1. attempts' = attempts /\ exec' = exec
        BY <1>2 DEF Receive, IgnoreDelivery, DeliverToCancelled, RejectForBudget, RejectLate,
           Reject, AbortClaim
    <2> QED BY <2>1, MannedKeeps
<1> QED
    BY <1>1, <1>2

LEMMA MannedStep ==
    FlowInv /\ Manned /\ "lease" \notin Faults /\ [Next]_vars => Manned'
<1> SUFFICES ASSUME FlowInv, Manned, "lease" \notin Faults, [Next]_vars
             PROVE  Manned'
    OBVIOUS
<1>1. TypeInv /\ OneLiveAttempt
    BY DEF FlowInv, IInv
<1>2. ASSUME NEW m \in exec, Finish(m)
      PROVE  Manned'
    <2>1. exec' = exec \ {m}
        BY <1>2 DEF Finish, FinishSuccess, PauseForProduct, PauseRefused, FinishFailure,
           FinishCancelled, LateResult, AbortCompletion, SoftLimit, Acknowledge
    <2>2. m = Live(m[1]) /\ m[1] \in Tasks
        BY <1>1, LiveExecution DEF Manned, Live
    <2>3. KeepsLive \/ EndsLive(m[1])
        BY <1>1, <1>2, ShapeFinish
    <2>4. CASE KeepsLive
        BY <2>1, <2>4, MannedKeeps DEF KeepsLive
    <2>5. CASE EndsLive(m[1])
        BY <2>1, <2>2, <2>5, MannedOthers
    <2> QED BY <2>3, <2>4, <2>5
<1>3. ASSUME NEW t \in Tasks, NEW late \in LateChoices, RecoverStale(t, late)
      PROVE  Manned'
    <2>1. Live(t) \notin exec /\ exec' = exec
        BY <1>3 DEF RecoverStale, Stale, LeaseLapsed, Live, queueVars
    <2>2. EndsLive(t)
        BY <1>1, <1>3, RecoverEnds
    <2> QED BY <2>1, <2>2, MannedOthers
<1>4. CASE Worker
    <2>1. ASSUME NEW m \in exec,
                 PublishReport(m) \/ Redeliver(m) \/ \E requeued \in BOOLEAN : Crash(m, requeued)
          PROVE  attempts' = attempts /\ exec' \subseteq exec
        BY <2>1 DEF PublishReport, Redeliver, Crash, queueVars
    <2> QED BY <1>2, <1>4, <2>1, MannedKeeps, MannedReceive DEF Worker
<1>5. CASE Relay \/ RunDeadline \/ UNCHANGED vars
    <2>1. attempts' = attempts /\ exec' = exec
        BY <1>5 DEF Relay, RelayClaim, RelayCheck, RelaySend, RelayMark, RelayFail,
           RelayCrash, RelayRevoke, RunDeadline, vars, queueVars
    <2> QED BY <2>1, MannedKeeps
<1>6. CASE RepairRun \/ ExpireClarification \/ Operator
    <2>1. attempts' = attempts /\ exec' = exec
        BY <1>6 DEF RepairRun, ExpireClarification, Operator, AnswerProduct, RequestCancellation,
           RetryTask, queueVars
    <2> QED BY <2>1, MannedKeeps
<1> QED
    BY <1>3, <1>4, <1>5, <1>6 DEF Next, Recovery

\* A report is written by a publisher that is executing, so behind the gate.
LEMMA Publishing ==
    ASSUME PromiseInv, GateSeparates, NEW m \in exec, PublishReport(m)
    PROVE  /\ run \notin RunTerminal
           /\ \A a \in Auditor : task[a] = "succeeded"
           /\ \A g \in Gate : task[g] = "succeeded"
<1>1. m[1] \in Tasks /\ m[1] \in Publisher /\ task[m[1]] \in Executing
    BY LiveExecution DEF PromiseInv, FlowInv, IInv, Manned, PublishReport, Executing
<1>2. run \notin RunTerminal
    BY <1>1 DEF PromiseInv, Ended, Unfinished, Executing, TaskTerminal
<1>3. ASSUME NEW a \in Auditor
      PROVE  task[a] = "succeeded"
    <2>1. a \in Tasks \ Gate
        BY GraphAssumption, RuntimeAssumption
    <2>2. \E n \in DOMAIN attempts[a] : attempts[a][n] = "succeeded"
        BY DEF PublishReport
    <2> QED BY <2>1, <2>2 DEF PromiseInv, OneAcceptedResult
<1>4. ASSUME NEW g \in Gate, task[g] # "succeeded"
      PROVE  FALSE
    <2>1. m[1] \in Later(g)
        BY <1>1 DEF GateSeparates
    <2>2. task[m[1]] \in Held
        BY <1>4, <2>1, GateOpens DEF PromiseInv
    <2> QED BY <1>1, <2>2 DEF Held, Executing
<1> QED
    BY <1>2, <1>3, <1>4

LEMMA ReportKept ==
    ASSUME FlowInv, [Next]_vars
    PROVE  report' = report \/ \E m \in exec : PublishReport(m)
<1>1. AnyKind
    BY StepKinds DEF FlowInv, IInv
<1>2. ASSUME NEW t \in Tasks, Kind(t)
      PROVE  report' = report
    BY <1>2 DEF Kind, Ending, Dropping, Requeueing, Claiming, Pausing, RetryTask, About
<1>3. ASSUME RepairRun \/ ExpireClarification \/ AnswerProduct \/ RequestCancellation
      PROVE  report' = report
    BY <1>3 DEF RepairRun, ExpireClarification, AnswerProduct, RequestCancellation, fixedVars
<1> QED
    BY <1>1, <1>2, <1>3, QuietUntouched DEF AnyKind, Untouched

LEMMA ReportedStep ==
    PromiseInv /\ GateSeparates /\ [Next]_vars => Reported'
<1> SUFFICES ASSUME PromiseInv, GateSeparates, [Next]_vars, report' # "none", NEW g \in Gate
             PROVE  task'[g] = "succeeded"
    BY DEF Reported
<1>1. g \in Tasks /\ SuccessKept
    BY RuntimeAssumption, SuccessStep DEF PromiseInv, FlowInv, IInv
<1>2. CASE report' = report
    BY <1>1, <1>2 DEF PromiseInv, Reported, SuccessKept
<1>3. CASE \E m \in exec : PublishReport(m)
    BY <1>1, <1>3, Publishing DEF SuccessKept
<1> QED
    BY <1>2, <1>3, ReportKept DEF PromiseInv

\* What the initiator sees of a status.
Phase(rs) == IF rs \in {"queued", "running", "waiting_for_input"} THEN "open" ELSE rs

Seen == <<Phase(run), Accepted(task), report>>

LEMMA SameResults ==
    ASSUME \A d \in Tasks : task'[d] = "succeeded" <=> task[d] = "succeeded"
    PROVE  Accepted(task') = Accepted(task)
BY DEF Accepted

LEMMA OneMoreResult ==
    ASSUME NEW t \in Tasks, NEW s, EndsAs(t, s), task[t] # "succeeded"
    PROVE  \/ Accepted(task') = Accepted(task)
           \/ \E u \in Tasks \ Accepted(task) : Accepted(task') = Accepted(task) \cup {u}
<1>1. \A d \in Tasks \ {t} : task'[d] = "succeeded" <=> task[d] = "succeeded"
    BY DEF EndsAs
<1>2. CASE task'[t] = "succeeded"
    <2>1. t \in Tasks \ Accepted(task) /\ Accepted(task') = Accepted(task) \cup {t}
        BY <1>1, <1>2 DEF Accepted
    <2> QED BY <2>1
<1>3. CASE task'[t] # "succeeded"
    BY <1>1, <1>3 DEF Accepted
<1> QED
    BY <1>2, <1>3

LEMMA Advances ==
    ASSUME TypeInv, Phase(run) = "open", report' = report,
           \/ Accepted(task') = Accepted(task)
           \/ \E u \in Tasks \ Accepted(task) : Accepted(task') = Accepted(task) \cup {u},
           Phase(run') = "open" \/ Closes
    PROVE  Promise!Advance
<1>1. CASE Phase(run') = "open"
    BY <1>1 DEF Promise!Advance, Phase
<1>2. CASE Closes
    <2>1. Phase(run') \in Promise!Outcome(Accepted(task'))
        <3>1. CASE report # "none"
            <4>1. run' = report /\ Promise!Outcome(Accepted(task')) = {report}
                BY <1>2, <3>1 DEF Closes, Promise!Outcome
            <4>2. run' \in {"complete", "partial"}
                BY <3>1, <4>1 DEF TypeInv, TypeOK
            <4> QED BY <4>1, <4>2 DEF Phase
        <3>2. CASE report = "none" /\ run' = "complete" /\ \A t \in Tasks : task'[t] = "succeeded"
            <4>1. Accepted(task') = Tasks
                BY <3>2 DEF Accepted
            <4>2. Promise!Outcome(Accepted(task')) = {"complete"}
                BY <3>2, <4>1 DEF Promise!Outcome
            <4> QED BY <3>2, <4>2 DEF Phase
        <3>3. CASE report = "none" /\ run' = "failed" /\ \E t \in Tasks : task'[t] # "succeeded"
            <4>1. Accepted(task') # Tasks
                BY <3>3 DEF Accepted
            <4>2. Promise!Outcome(Accepted(task')) = {"failed"}
                BY <3>3, <4>1 DEF Promise!Outcome
            <4> QED BY <3>3, <4>2 DEF Phase
        <3> QED BY <1>2, <3>1, <3>2, <3>3 DEF Closes
    <2> QED BY <2>1 DEF Promise!Advance, Phase
<1> QED
    BY <1>1, <1>2

LEMMA PromiseKind ==
    ASSUME PromiseInv, NEW t \in Tasks, Kind(t)
    PROVE  [Promise!Next]_Seen
<1>1. TypeInv /\ Halting /\ Waiting /\ Ended /\ run \in RunStatus
    BY DEF PromiseInv, FlowInv, IInv, TypeInv, TypeOK
<1>2. ASSUME task[t] \in {"blocked", "queued", "running", "cancelling"}
      PROVE  run \notin RunTerminal
    BY <1>1, <1>2 DEF Ended, Unfinished, TaskTerminal
<1>3. ASSUME run \in RunStatus \ RunTerminal, run # "cancelling"
      PROVE  Phase(run) = "open"
    BY <1>3 DEF Phase, RunStatus, RunTerminal
<1>4. ASSUME Promise!Advance \/ Promise!Cancel \/ Promise!Reopen
      PROVE  [Promise!Next]_Seen
    BY <1>4 DEF Promise!Next
<1>5. ASSUME Accepted(task') = Accepted(task), report' = report, Phase(run') = Phase(run)
      PROVE  [Promise!Next]_Seen
    BY <1>5 DEF Seen, Phase, Accepted
<1>6. report' = report
    BY DEF Kind, Ending, Dropping, Requeueing, Claiming, Pausing, RetryTask, About
<1>7. ASSUME NEW s \in EndStatus, NEW b \in BudgetStatus, Ending(t, s, b)
      PROVE  [Promise!Next]_Seen
    <2>1. /\ EndsAs(t, s) /\ (Stays \/ Closes)
          /\ task[t] \in {"running", "queued"} /\ run \notin Stopped
        BY <1>1, <1>7, EndingIs DEF Ending
    <2>2. Phase(run) = "open" /\ (Phase(run') = "open" \/ Closes)
        BY <1>1, <1>2, <1>3, <2>1 DEF Stopped, Stays
    <2>3. \/ Accepted(task') = Accepted(task)
          \/ \E u \in Tasks \ Accepted(task) : Accepted(task') = Accepted(task) \cup {u}
        BY <2>1, OneMoreResult
    <2> QED BY <1>1, <1>4, <1>6, <2>2, <2>3, Advances
<1>8. CASE Dropping(t)
    <2> DEFINE ts == Moved(t, "cancelled")
    <2>1. /\ ts[t] = "cancelled" /\ \A d \in Tasks \ {t} : ts[d] = task[d]
          /\ \/ run = "cancelling" /\ (Lingers(ts) \/ Abandons(ts))
             \/ run # "cancelling" /\ task' = ts /\ (Stays \/ Closes)
          /\ task[t] \in {"blocked", "queued", "running", "cancelling"}
          /\ task[t] \in {"blocked", "queued"} => run \in Stopped
        BY <1>1, <1>8, DroppingIs DEF Dropping, Executing
    <2> HIDE DEF ts
    <2>2. \A d \in Tasks : task'[d] = "succeeded" <=> task[d] = "succeeded"
        BY <2>1 DEF Lingers, Abandons
    <2>3. Accepted(task') = Accepted(task)
        BY <2>2, SameResults
    <2>4. CASE run = "cancelling"
        <3>1. run' \in {"cancelling", "cancelled"}
            BY <2>1, <2>4 DEF Lingers, Abandons
        <3>2. Promise!Cancel
            BY <1>6, <2>3, <2>4, <3>1 DEF Promise!Cancel, Phase, Accepted
        <3> QED BY <1>4, <3>2
    <2>5. CASE run # "cancelling"
        <3>1. Phase(run) = "open"
            BY <1>1, <1>2, <1>3, <2>1, <2>5
        <3>2. Phase(run') = "open" \/ Closes
            BY <2>1, <2>5, <3>1 DEF Stays
        <3> QED BY <1>1, <1>4, <1>6, <2>3, <3>1, <3>2, Advances
    <2> QED BY <2>4, <2>5
<1>9. CASE \/ \E s \in {"failed", "timed_out"} : Requeueing(t, s)
           \/ Claiming(t) \/ Pausing(t)
    <2>1. \/ task[t] = "running" /\ task' = Moved(t, "queued") /\ run' = run
          \/ task[t] = "queued" /\ task' = Moved(t, "running") /\ run' = IF run = "queued" THEN "running" ELSE run
          \/ /\ task[t] = "running" /\ task' = Moved(t, "waiting_for_input")
             /\ run' = "waiting_for_input" /\ run \notin Stopped
        BY <1>9 DEF Requeueing, Claiming, Pausing
    <2>2. /\ \A d \in Tasks \ {t} : task'[d] = task[d]
          /\ task[t] \in {"running", "queued"} /\ task'[t] \in {"queued", "running", "waiting_for_input"}
        BY <1>1, <2>1, MovedIs DEF TaskStatus
    <2>3. \A d \in Tasks : task'[d] = "succeeded" <=> task[d] = "succeeded"
        BY <2>2
    <2>4. Accepted(task') = Accepted(task)
        BY <2>3, SameResults
    <2>5. run' = "waiting_for_input" /\ run \notin Stopped => Phase(run) = "open"
        BY <1>1, <1>2, <1>3, <2>2 DEF Stopped
    <2>6. Phase(run') = Phase(run)
        BY <2>1, <2>5 DEF Phase
    <2> QED BY <1>5, <1>6, <2>4, <2>6
<1>10. CASE RetryTask(t)
    <2>1. /\ task[t] \in {"failed", "timed_out"} /\ task'[t] = "queued"
          /\ \A d \in Tasks \ {t} : \/ task'[d] = task[d]
                                    \/ task[d] = "skipped" /\ task'[d] = "blocked"
          /\ (run = "failed" /\ run' = "running") \/ run' = run
        BY <1>1, <1>10, RetryIs
    <2>2. \A d \in Tasks : task'[d] = "succeeded" <=> task[d] = "succeeded"
        BY <2>1
    <2>3. Accepted(task') = Accepted(task)
        BY <2>2, SameResults
    <2>4. CASE run' = run
        BY <1>5, <1>6, <2>3, <2>4
    <2>5. CASE run = "failed" /\ run' = "running"
        <3>1. Promise!Reopen
            BY <1>6, <2>3, <2>5 DEF Promise!Reopen, Phase, Accepted
        <3> QED BY <1>4, <3>1
    <2> QED BY <2>1, <2>4, <2>5
<1> QED
    BY <1>7, <1>8, <1>9, <1>10 DEF Kind

\* Every step of the runtime is a step of the promise, or none that shows.
LEMMA PromiseStep ==
    PromiseInv /\ GateSeparates /\ [Next]_vars => [Promise!Next]_Seen
<1> SUFFICES ASSUME PromiseInv, GateSeparates, [Next]_vars
             PROVE  [Promise!Next]_Seen
    OBVIOUS
<1>1. TypeInv /\ OneLiveAttempt /\ Halting /\ Waiting /\ run \in RunStatus
    BY DEF PromiseInv, FlowInv, IInv, TypeInv, TypeOK
<1>2. AnyKind
    BY <1>1, StepKinds
<1>3. CASE Untouched
    BY <1>3 DEF Untouched, Seen, Phase, Accepted
<1>4. CASE RepairRun
    <2>1. report' = report /\ run \in {"queued", "running", "cancelling"}
        BY <1>4 DEF RepairRun, fixedVars
    <2>2. \/ run = "cancelling" /\ (Lingers(task) \/ Abandons(task))
          \/ run # "cancelling" /\ task' = task /\ (Stays \/ Closes)
        BY <1>1, <1>4, RepairIs
    <2>3. \A d \in Tasks : task'[d] = "succeeded" <=> task[d] = "succeeded"
        BY <2>2 DEF Lingers, Abandons
    <2>4. Accepted(task') = Accepted(task)
        BY <2>3, SameResults
    <2>5. CASE run = "cancelling"
        <3>1. run' \in {"cancelling", "cancelled"}
            BY <2>2, <2>5 DEF Lingers, Abandons
        <3>2. Promise!Cancel
            BY <2>1, <2>4, <2>5, <3>1 DEF Promise!Cancel, Phase, Accepted
        <3> QED BY <3>2 DEF Promise!Next
    <2>6. CASE run # "cancelling"
        <3>1. Phase(run) = "open"
            BY <2>1, <2>6 DEF Phase
        <3>2. Phase(run') = "open" \/ Closes
            BY <2>2, <2>6, <3>1 DEF Stays
        <3>3. Promise!Advance
            BY <1>1, <2>1, <2>4, <3>1, <3>2, Advances
        <3> QED BY <3>3 DEF Promise!Next
    <2> QED BY <2>5, <2>6
<1>5. CASE ExpireClarification
    <2>1. /\ run = "waiting_for_input" /\ run' = "failed" /\ report' = report
          /\ \A d \in Tasks : task'[d] = ExpiredStatus(task[d])
        BY <1>5 DEF ExpireClarification
    <2>2. PICK g \in Gate : \A d \in Tasks : task[d] = "waiting_for_input" <=> d = g
        BY <1>1, <2>1 DEF Waiting
    <2>3. g \in Tasks /\ task[g] = "waiting_for_input"
        BY <2>2, RuntimeAssumption
    <2>4. report = "none"
        BY <2>3 DEF PromiseInv, Reported
    <2>5. \A d \in Tasks : task'[d] = "succeeded" <=> task[d] = "succeeded"
        BY <2>1 DEF ExpiredStatus
    <2>6. Accepted(task') = Accepted(task)
        BY <2>5, SameResults
    <2>7. Accepted(task') # Tasks
        BY <2>3, <2>6 DEF Accepted
    <2>8. Promise!Outcome(Accepted(task')) = {"failed"}
        BY <2>4, <2>7 DEF Promise!Outcome
    <2>9. Promise!Advance
        BY <2>1, <2>6, <2>8 DEF Promise!Advance, Phase, Accepted
    <2> QED BY <2>9 DEF Promise!Next
<1>6. CASE AnswerProduct
    <2>1. run = "waiting_for_input" /\ run' = "running" /\ report' = report
        BY <1>6 DEF AnswerProduct
    <2>2. PICK g \in Gate : task[g] = "waiting_for_input" /\ EndsAs(g, "succeeded") /\ g \in Tasks
        BY <1>1, <1>6, AnswerIs
    <2>3. \/ Accepted(task') = Accepted(task)
          \/ \E u \in Tasks \ Accepted(task) : Accepted(task') = Accepted(task) \cup {u}
        BY <2>2, OneMoreResult
    <2>4. Phase(run) = "open" /\ Phase(run') = "open"
        BY <2>1 DEF Phase
    <2>5. Promise!Advance
        BY <1>1, <2>1, <2>3, <2>4, Advances
    <2> QED BY <2>5 DEF Promise!Next
<1>7. CASE RequestCancellation
    <2>1. run \notin RunTerminal /\ report' = report
        BY <1>7 DEF RequestCancellation
    <2>2. /\ \A d \in Tasks :
                Cancelled(task)[d] =
                   IF task[d] \in {"blocked", "queued", "waiting_for_input"} THEN "cancelled"
                   ELSE IF task[d] = "running" THEN "cancelling" ELSE task[d]
          /\ Lingers(Cancelled(task)) \/ Abandons(Cancelled(task))
        BY <1>1, <1>7, CancellationIs
    <2>3. \A d \in Tasks : task'[d] = "succeeded" <=> task[d] = "succeeded"
        BY <2>2 DEF Lingers, Abandons
    <2>4. Accepted(task') = Accepted(task)
        BY <2>3, SameResults
    <2>5. run' \in {"cancelling", "cancelled"}
        BY <2>2 DEF Lingers, Abandons
    <2>6. Phase(run) \in {"open", "cancelling"}
        BY <1>1, <2>1 DEF Phase, RunStatus, RunTerminal
    <2>7. Promise!Cancel
        BY <2>1, <2>4, <2>5, <2>6 DEF Promise!Cancel, Phase, Accepted
    <2> QED BY <2>7 DEF Promise!Next
<1>8. ASSUME NEW m \in exec, PublishReport(m)
      PROVE  [Promise!Next]_Seen
    <2>1. run \notin RunTerminal /\ Auditor \subseteq Accepted(task)
        BY <1>8, Publishing, GraphAssumption DEF Accepted
    <2>2. Phase(run) \in {"open", "cancelling"}
        BY <1>1, <2>1 DEF Phase, RunStatus, RunTerminal
    <2>3. report = "none" /\ report' \in {"complete", "partial"} /\ UNCHANGED <<run, task>>
        BY <1>8 DEF PublishReport
    <2>4. Promise!Publish
        BY <2>1, <2>2, <2>3 DEF Promise!Publish, Phase, Accepted
    <2> QED BY <2>4 DEF Promise!Next
<1> QED
    BY <1>2, <1>3, <1>4, <1>5, <1>6, <1>7, <1>8, PromiseKind, QuietUntouched DEF AnyKind

\* Attempts, redeliveries, recoveries, questions and retries implement the
\* promise of RunPromise, while no lease lapses under a worker that goes on.
THEOREM PromiseKept ==
    GateSeparates /\ "lease" \notin Faults => (Spec => KeepsPromise)
<1> SUFFICES ASSUME GateSeparates, "lease" \notin Faults PROVE Spec => KeepsPromise
    OBVIOUS
<1>1. Init => Audited /\ Ended /\ Manned /\ Reported
    BY DEF Init, Audited, Ended, RunTerminal, Manned, Reported
<1>2. FlowInv /\ OneAcceptedResult /\ Audited /\ [Next]_vars => Audited'
    BY AuditedStep
<1>3. FlowInv /\ DependenciesHold /\ Ended /\ [Next]_vars => Ended'
    BY EndedStep
<1>4. FlowInv /\ Manned /\ [Next]_vars => Manned'
    BY MannedStep
<1>5. PromiseInv /\ [Next]_vars => Reported'
    BY ReportedStep
<1>6. Init => Promise!Init
    BY DEF Init, Promise!Init, Accepted
<1>7. PromiseInv /\ [Next]_vars =>
          [Promise!Next]_<<IF run \in {"queued", "running", "waiting_for_input"}
                           THEN "open" ELSE run, Accepted(task), report>>
    BY PromiseStep DEF Seen, Phase
<1>8. Spec => []PromiseInv
    BY <1>1, <1>2, <1>3, <1>4, <1>5, StatusesFit, ResultsAcceptedOnce, DependenciesAlwaysHold, PTL
    DEF Spec, PromiseInv
<1> QED
    BY <1>6, <1>7, <1>8, PTL DEF Spec, KeepsPromise, Promise!Spec
=============================================================================
