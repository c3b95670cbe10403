-------------------------- MODULE ToolCallsProofs ---------------------------
(***************************************************************************)
(* For any number of attempts, calls, buckets and days: the quota counters *)
(* are the reservations behind them, and what a call is told agrees with   *)
(* the durable record.                                                     *)
(*                                                                         *)
(* A step books one unit, settles one or leaves the books alone            *)
(* (StepKinds).  That a settlement finds its unit reserved, in the row and *)
(* in the counter of the day it was booked on, is what OpenInv knows of    *)
(* the place where the call stands and PoolInv of the sums.  The records   *)
(* need no more than that a live attempt's call holds a running invocation *)
(* until it writes its end (RecordInv).                                    *)
(***************************************************************************)
EXTENDS ToolCalls, Sums

-----------------------------------------------------------------------------
(* What a step does to the books: nothing, or a unit of one call is booked *)
(* or settled.                                                             *)

Quiet == UNCHANGED <<rows, quota>>

Books(c) ==
    LET p == Pool(c, today) IN
    /\ Used(p) < Limit
    /\ quota' = [quota EXCEPT ![p].reserved = @ + 1]
    /\ rows' = [rows EXCEPT ![c][today].reserved = @ + 1]

Statuses == {"released", "consumed"}

Alive == {"running", "cancelling"}
Attempted == Alive \cup {"succeeded", "failed", "cancelled"}
Outcomes == {"none", "refused", "internal"} \cup Ends
Records == {"none", "running"} \cup Ends

StateOK ==
    /\ attempt \in [Attempts -> Attempted]
    /\ worker \in [Attempts -> BOOLEAN]
    /\ step \in [Calls -> Steps]
    /\ invocation \in [Calls -> Records]
    /\ outcome \in [Calls -> Outcomes]
    /\ left \in [Calls -> Nat]
    /\ tries \in [Calls -> 0..MaxTries]
    /\ booking \in [Calls -> 0..Days]
    /\ today \in 1..Days

BooksOK ==
    /\ rows \in [Calls -> [1..Days -> Units]]
    /\ quota \in [Pools -> Units]

LEMMA TypeParts == TypeOK <=> StateOK /\ BooksOK
BY DEF TypeOK, StateOK, BooksOK, Attempted, Alive, Outcomes, Records

-----------------------------------------------------------------------------
(* Units in the open *)

Unbooked(c) == \A d \in 1..Days : rows[c][d].reserved = 0
BookedOn(c, d) ==
    /\ rows[c][d].reserved = 1
    /\ \A e \in (1..Days) \ {d} : rows[c][e].reserved = 0

\* Where a call stands tells whether a unit of it is reserved.
OpenInv == \A c \in Calls :
    /\ step[c] = "in_flight" => booking[c] \in 1..Days /\ BookedOn(c, booking[c])
    /\ outcome[c] \in Abrupt => step[c] \in {"finishing", "done", "dead"}
    /\ step[c] \notin {"in_flight", "dead"} /\ outcome[c] \notin Abrupt => Unbooked(c)
    /\ Unbooked(c) \/ \E d \in 1..Days : BookedOn(c, d)

-----------------------------------------------------------------------------
(* The counters *)

ReservedOf(table, p) ==
    [c \in Calls |-> IF BucketOf[c] = p[1] THEN table[c][p[2]].reserved ELSE 0]
ConsumedOf(table, p) ==
    [c \in Calls |-> IF BucketOf[c] = p[1] THEN table[c][p[2]].consumed ELSE 0]
Total(f) == SumFunctionOnSet(f, Calls)

PoolInv == \A p \in Pools :
    /\ quota[p].reserved = Total(ReservedOf(rows, p))
    /\ quota[p].consumed = Total(ConsumedOf(rows, p))
    /\ Used(p) <= Limit

LEMMA TotalTypes ==
    ASSUME NEW table \in [Calls -> [1..Days -> Units]], NEW p \in Pools
    PROVE  /\ ReservedOf(table, p) \in [Calls -> Nat] /\ ConsumedOf(table, p) \in [Calls -> Nat]
           /\ Total(ReservedOf(table, p)) \in Nat /\ Total(ConsumedOf(table, p)) \in Nat
<1>1. p[2] \in 1..Days
    BY DEF Pools
<1>2. \A c \in Calls : table[c][p[2]].reserved \in Nat /\ table[c][p[2]].consumed \in Nat
    BY <1>1 DEF Units
<1>3. ReservedOf(table, p) \in [Calls -> Nat] /\ ConsumedOf(table, p) \in [Calls -> Nat]
    BY <1>2 DEF ReservedOf, ConsumedOf
<1>4. ASSUME NEW f \in [Calls -> Nat] PROVE Total(f) \in Nat
    BY SumNat, ToolAssumption DEF Total
<1> QED
    BY <1>3, <1>4

LEMMA ChangeAt ==
    ASSUME NEW f \in [Calls -> Nat], NEW g \in [Calls -> Nat], NEW c \in Calls,
           \A b \in Calls \ {c} : g[b] = f[b]
    PROVE  Total(g) = Total(f) - f[c] + g[c] /\ f[c] <= Total(f)
<1>1. \A b \in Calls : f[b] \in Nat /\ g[b] \in Nat
    OBVIOUS
<1>2. \A b \in Calls : f[b] \in Int /\ g[b] \in Int
    BY <1>1
<1>3. SumFunctionOnSet(g, Calls) = SumFunctionOnSet(f, Calls) - f[c] + g[c]
    BY <1>2, ToolAssumption, SumChange
<1>4. f[c] <= SumFunctionOnSet(f, Calls)
    BY <1>1, ToolAssumption, SumCovers
<1> QED
    BY <1>3, <1>4 DEF Total

\* A row of the table changes at one call and day, with the counters of its pool.
LEMMA UnitMoves ==
    ASSUME BooksOK, PoolInv, NEW c \in Calls, NEW d \in 1..Days, NEW unit \in Units,
           rows' = [rows EXCEPT ![c] = [rows[c] EXCEPT ![d] = unit]],
           quota' = [quota EXCEPT ![Pool(c, d)] =
               [reserved |-> quota[Pool(c, d)].reserved - rows[c][d].reserved + unit.reserved,
                consumed |-> quota[Pool(c, d)].consumed - rows[c][d].consumed + unit.consumed]],
           quota'[Pool(c, d)].reserved + quota'[Pool(c, d)].consumed <= Limit
    PROVE  BooksOK' /\ PoolInv'
<1> DEFINE q == Pool(c, d)
<1>0. q \in Pools /\ q[1] = BucketOf[c] /\ q[2] = d
    BY ToolAssumption DEF Pool, Pools
<1>1. rows \in [Calls -> [1..Days -> Units]] /\ quota \in [Pools -> Units]
    BY DEF BooksOK
<1>2. rows' \in [Calls -> [1..Days -> Units]]
    BY <1>1
<1>u. /\ unit.reserved \in Nat /\ unit.consumed \in Nat
      /\ rows[c][d].reserved \in Nat /\ rows[c][d].consumed \in Nat
      /\ quota[q].reserved \in Nat /\ quota[q].consumed \in Nat
    BY <1>0, <1>1 DEF Units
<1>3. ASSUME NEW p \in Pools
      PROVE  /\ p # q => /\ ReservedOf(rows', p) = ReservedOf(rows, p)
                         /\ ConsumedOf(rows', p) = ConsumedOf(rows, p)
             /\ p = q => /\ Total(ReservedOf(rows', p)) =
                                Total(ReservedOf(rows, p)) - rows[c][d].reserved + unit.reserved
                         /\ Total(ConsumedOf(rows', p)) =
                                Total(ConsumedOf(rows, p)) - rows[c][d].consumed + unit.consumed
                         /\ rows[c][d].reserved <= Total(ReservedOf(rows, p))
                         /\ rows[c][d].consumed <= Total(ConsumedOf(rows, p))
    <2>0. p[2] \in 1..Days /\ (p # q /\ p[1] = BucketOf[c] => p[2] # d)
        BY DEF Pools, Pool
    <2>1. \A b \in Calls \ {c} : rows'[b] = rows[b]
        BY <1>1
    <2>2. rows'[c] = [rows[c] EXCEPT ![d] = unit] /\ rows[c] \in [1..Days -> Units]
        BY <1>1
    <2>3. CASE p # q
        <3>1. BucketOf[c] = p[1] => rows'[c][p[2]] = rows[c][p[2]]
            BY <2>0, <2>2, <2>3
        <3> QED BY <2>1, <2>3, <3>1 DEF ReservedOf, ConsumedOf
    <2>4. CASE p = q
        <3>1. /\ ReservedOf(rows, p) \in [Calls -> Nat] /\ ReservedOf(rows', p) \in [Calls -> Nat]
              /\ ConsumedOf(rows, p) \in [Calls -> Nat] /\ ConsumedOf(rows', p) \in [Calls -> Nat]
            BY <1>1, <1>2, TotalTypes
        <3>2. /\ \A b \in Calls \ {c} : /\ ReservedOf(rows', p)[b] = ReservedOf(rows, p)[b]
                                        /\ ConsumedOf(rows', p)[b] = ConsumedOf(rows, p)[b]
              /\ ReservedOf(rows, p)[c] = rows[c][d].reserved
              /\ ConsumedOf(rows, p)[c] = rows[c][d].consumed
              /\ ReservedOf(rows', p)[c] = unit.reserved
              /\ ConsumedOf(rows', p)[c] = unit.consumed
            <4>1. p[1] = BucketOf[c] /\ p[2] = d /\ rows'[c][d] = unit
                BY <1>0, <2>2, <2>4
            <4> HIDE DEF q
            <4> QED BY <2>1, <4>1 DEF ReservedOf, ConsumedOf
        <3> DEFINE f == ReservedOf(rows, p)
                   g == ReservedOf(rows', p)
                   h == ConsumedOf(rows, p)
                   k == ConsumedOf(rows', p)
        <3> HIDE DEF f, g, h, k
        <3>3. Total(g) = Total(f) - f[c] + g[c] /\ f[c] <= Total(f)
            BY <3>1, <3>2, ChangeAt DEF f, g
        <3>4. Total(k) = Total(h) - h[c] + k[c] /\ h[c] <= Total(h)
            BY <3>1, <3>2, ChangeAt DEF h, k
        <3> QED BY <2>4, <3>2, <3>3, <3>4 DEF f, g, h, k
    <2> QED BY <2>3, <2>4
<1>4. /\ quota[q].reserved - rows[c][d].reserved + unit.reserved \in Nat
      /\ quota[q].consumed - rows[c][d].consumed + unit.consumed \in Nat
    BY <1>0, <1>u, <1>3 DEF PoolInv
<1> DEFINE row == [reserved |-> quota[q].reserved - rows[c][d].reserved + unit.reserved,
                   consumed |-> quota[q].consumed - rows[c][d].consumed + unit.consumed]
<1>5. row \in Units
    BY <1>4 DEF Units
<1>6. quota' = [quota EXCEPT ![q] = row]
    OBVIOUS
<1>r. /\ row.reserved = quota[q].reserved - rows[c][d].reserved + unit.reserved
      /\ row.consumed = quota[q].consumed - rows[c][d].consumed + unit.consumed
    OBVIOUS
<1> HIDE DEF row, q
<1>7. BooksOK'
    BY <1>0, <1>1, <1>2, <1>5, <1>6 DEF BooksOK
<1>8. ASSUME NEW p \in Pools
      PROVE  /\ quota'[p].reserved = Total(ReservedOf(rows', p))
             /\ quota'[p].consumed = Total(ConsumedOf(rows', p))
             /\ quota'[p].reserved + quota'[p].consumed <= Limit
    <2>1. CASE p # q
        BY <1>1, <1>3, <1>6, <2>1 DEF PoolInv, Used
    <2>2. CASE p = q
        <3>1. quota'[p] = row
            BY <1>0, <1>1, <1>6, <2>2
        <3>2. quota[p].reserved = Total(ReservedOf(rows, p)) /\ quota[p].consumed = Total(ConsumedOf(rows, p))
            BY DEF PoolInv
        <3>3. quota'[p].reserved + quota'[p].consumed <= Limit
            BY <2>2 DEF q
        <3> QED BY <1>3, <1>r, <2>2, <3>1, <3>2, <3>3
    <2> QED BY <2>1, <2>2
<1> QED
    BY <1>7, <1>8 DEF PoolInv, Used

-----------------------------------------------------------------------------
(* Kinds of steps *)

\* A call that may still make a request has tries left.
TriesLeft == \A c \in Calls : step[c] \in {"idle", "waiting", "admitted", "ready"} => tries[c] < MaxTries

\* A call that is about to record its end has decided on one.
Decided == \A c \in Calls : step[c] = "finishing" => outcome[c] \in Ends \cup Abrupt

StateInv == StateOK /\ TriesLeft /\ Decided

Elsewhere(c) == \A b \in Calls \ {c} :
    step'[b] = step[b] /\ outcome'[b] = outcome[b] /\ booking'[b] = booking[b]

\* Nothing is booked or settled, and no call forgets that it has a unit in the open.
Leaves ==
    /\ Quiet
    /\ \A c \in Calls :
        /\ step'[c] = "in_flight" => step[c] = "in_flight" /\ booking'[c] = booking[c]
        /\ outcome'[c] \in Abrupt =>
               \/ step'[c] \in {"finishing", "done", "dead"}
               \/ step'[c] = step[c] /\ outcome[c] \in Abrupt
        /\ step'[c] \notin {"in_flight", "dead"} /\ outcome'[c] \notin Abrupt =>
               step[c] \notin {"in_flight", "dead"} /\ outcome[c] \notin Abrupt

Sends(c) ==
    /\ Books(c)
    /\ step[c] = "ready" /\ step'[c] = "in_flight"
    /\ booking'[c] = today /\ outcome'[c] = outcome[c]
    /\ Elsewhere(c)

Receives(c, status) ==
    /\ Settled(c, status)
    /\ step[c] = "in_flight" /\ step'[c] \in {"ready", "finishing"}
    /\ outcome'[c] \in Abrupt => step'[c] = "finishing"
    /\ Elsewhere(c)

Kinds == \/ Leaves
         \/ \E c \in Calls : Sends(c) \/ \E status \in Statuses : Receives(c, status)

LEMMA StepKinds ==
    ASSUME StateInv, OpenInv, [Next]_vars
    PROVE  StateInv' /\ Kinds
<1> USE DEF Abrupt
<1> DEFINE Goal == StateInv' /\ Kinds
<1>a. MaxTries \in Nat \ {0} /\ Days \in Nat \ {0} /\ Requests \in [Calls -> Nat]
      /\ 0 \in 0..MaxTries /\ 0 \in 0..Days
    BY ToolAssumption
<1>t. StateOK /\ TriesLeft /\ Decided
    BY DEF StateInv
<1>u. \A c \in Calls : step[c] = "in_flight" => outcome[c] \notin Abrupt
    BY DEF OpenInv
<1>d. ASSUME NEW c \in Calls, NEW end \in Outcomes, step[c] \notin {"dead", "done", "finishing"},
             Decide(c, end), end \notin Abrupt => step[c] # "in_flight",
             Quiet, UNCHANGED <<booking>>
      PROVE  Leaves
    BY <1>t, <1>d DEF OpenInv, Leaves, Decide, Move, StateOK, Steps
<1>1. ASSUME NEW c \in Calls, Authorize(c) PROVE Goal
    <2>1. StateInv'
        BY <1>t, <1>1 DEF Authorize, At, Move, Refuse, environment, network, StateInv, StateOK,
                          TriesLeft, Decided, Steps, Outcomes, Ends
    <2>2. Leaves
        BY <1>t, <1>1 DEF Authorize, At, Move, Refuse, environment, network, OpenInv, Leaves, StateOK,
                          Quiet
    <2> QED BY <2>1, <2>2 DEF Kinds
<1>2. ASSUME NEW c \in Calls, Begin(c) PROVE Goal
    <2>1. StateInv'
        BY <1>t, <1>2 DEF Begin, At, Move, Refuse, environment, network, StateInv, StateOK,
                          TriesLeft, Decided, Steps, Outcomes, Records, Ends
    <2>2. Leaves
        BY <1>t, <1>2 DEF Begin, At, Move, Refuse, environment, network, OpenInv, Leaves, StateOK, Quiet
    <2> QED BY <2>1, <2>2 DEF Kinds
<1>3. ASSUME NEW c \in Calls, GiveUp(c) PROVE Goal
    <2>1. StateInv'
        BY <1>t, <1>3 DEF GiveUp, At, Move, Refuse, environment, network, StateInv, StateOK,
                          TriesLeft, Decided, Steps, Outcomes, Ends
    <2>2. Leaves
        BY <1>t, <1>3 DEF GiveUp, At, Move, Refuse, environment, network, OpenInv, Leaves, StateOK, Quiet
    <2> QED BY <2>1, <2>2 DEF Kinds
<1>4. ASSUME NEW c \in Calls, CheckCancelled(c) PROVE Goal
    <2>1. StateInv'
        BY <1>t, <1>4 DEF CheckCancelled, At, Move, Decide, environment, network, StateInv, StateOK,
                          TriesLeft, Decided, Steps, Outcomes, Ends
    <2>2. Leaves
        BY <1>t, <1>4 DEF CheckCancelled, At, Move, Decide, environment, network, OpenInv, Leaves,
                          StateOK, Quiet
    <2> QED BY <2>1, <2>2 DEF Kinds
<1>5. ASSUME NEW c \in Calls, RunLocally(c) PROVE Goal
    <2>1. StateInv'
        BY <1>t, <1>5 DEF RunLocally, At, Move, Decide, environment, network, StateInv, StateOK,
                          TriesLeft, Decided, Steps, Outcomes, Ends
    <2>2. Leaves
        BY <1>t, <1>5 DEF RunLocally, At, Move, Decide, environment, network, OpenInv, Leaves,
                          StateOK, Quiet
    <2> QED BY <2>1, <2>2 DEF Kinds
<1>6. ASSUME NEW c \in Calls, Reserve(c) PROVE Goal
    <2>1. CASE /\ Used(Pool(c, today)) >= Limit
               /\ Decide(c, "failed") /\ Forget(c)
               /\ UNCHANGED <<booking, rows, quota>>
        <3>1. StateInv'
            BY <1>t, <1>a, <1>6, <2>1 DEF Reserve, Move, Decide, Forget, environment, StateInv, StateOK,
                              TriesLeft, Decided, Steps, Outcomes, Ends
        <3>2. Leaves
            BY <1>t, <1>6, <2>1 DEF Reserve, At, Move, Decide, environment, OpenInv, Leaves, StateOK, Quiet
        <3> QED BY <3>1, <3>2 DEF Kinds
    <2>2. CASE /\ Books(c)
               /\ booking' = [booking EXCEPT ![c] = today]
               /\ tries' = [tries EXCEPT ![c] = @ + 1]
               /\ Move(c, "in_flight")
               /\ UNCHANGED <<outcome, left>>
        <3>0. step[c] = "ready" /\ UNCHANGED <<environment, invocation>>
            BY <1>6 DEF Reserve, At
        <3>1. today \in 0..Days /\ tries[c] + 1 \in 0..MaxTries
            BY <1>t, <1>a, <3>0 DEF StateOK, TriesLeft, Decided
        <3>2. StateInv'
            BY <1>t, <2>2, <3>0, <3>1 DEF Move, environment, StateInv, StateOK, TriesLeft, Decided, Steps
        <3>3. Sends(c)
            BY <1>t, <2>2, <3>0 DEF Sends, Move, StateOK, Elsewhere
        <3> QED BY <3>2, <3>3 DEF Kinds
    <2> QED BY <1>6, <2>1, <2>2 DEF Reserve, Books
<1>7. ASSUME NEW c \in Calls, Answered(c) PROVE Goal
    <2>0. booking' = [booking EXCEPT ![c] = 0] /\ step[c] = "in_flight"
          /\ Settled(c, "consumed") /\ UNCHANGED <<environment, invocation>>
        BY <1>7 DEF Answered, Settled, At
    <2>1. StateInv'
        <3>1. CASE /\ left[c] > 1
                   /\ left' = [left EXCEPT ![c] = @ - 1]
                   /\ tries' = [tries EXCEPT ![c] = 0]
                   /\ Move(c, "ready")
                   /\ UNCHANGED outcome
            <4>1. left[c] - 1 \in Nat
                BY <1>t, <3>1 DEF StateOK
            <4> QED BY <1>t, <1>a, <2>0, <3>1, <4>1 DEF Move, environment, StateInv, StateOK, TriesLeft, Decided, Steps
        <3>2. CASE Forget(c) /\ \E end \in {"succeeded", "failed", "internal"} : Decide(c, end)
            BY <1>t, <1>a, <2>0, <3>2 DEF Forget, Decide, Move, environment, StateInv, StateOK,
                                          TriesLeft, Decided, Steps, Outcomes, Ends
        <3> QED BY <1>7, <3>1, <3>2 DEF Answered
    <2>2. Receives(c, "consumed")
        BY <1>t, <1>7, <1>u, <2>0 DEF Answered, Receives, Decide, Move, StateOK, Elsewhere
    <2> QED BY <2>1, <2>2 DEF Kinds, Statuses
<1>8. ASSUME NEW c \in Calls, Disturbed(c) PROVE Goal
    <2>0. PICK status \in Statuses : Settled(c, status)
        BY <1>8 DEF Disturbed, Statuses
    <2>1. booking' = [booking EXCEPT ![c] = 0] /\ step[c] = "in_flight"
          /\ UNCHANGED <<environment, invocation>>
        BY <1>8, <2>0 DEF Disturbed, Settled, At
    <2>2. StateInv'
        <3>1. CASE tries[c] < MaxTries /\ Move(c, "ready") /\ UNCHANGED <<outcome, left, tries>>
            BY <1>t, <1>a, <2>1, <3>1 DEF Move, environment, StateInv, StateOK, TriesLeft, Decided, Steps
        <3>2. CASE Decide(c, "failed") /\ Forget(c)
            BY <1>t, <1>a, <2>1, <3>2 DEF Forget, Decide, Move, environment, StateInv, StateOK,
                                          TriesLeft, Decided, Steps, Outcomes, Ends
        <3> QED BY <1>8, <3>1, <3>2 DEF Disturbed
    <2>3. Receives(c, status)
        BY <1>t, <1>8, <1>u, <2>0, <2>1 DEF Disturbed, Receives, Decide, Move, StateOK, Elsewhere
    <2> QED BY <2>2, <2>3 DEF Kinds
<1>9. ASSUME NEW c \in Calls, Rejected(c) PROVE Goal
    <2>1. booking' = [booking EXCEPT ![c] = 0] /\ step[c] = "in_flight"
          /\ Settled(c, "consumed") /\ UNCHANGED <<environment, invocation>>
        BY <1>9 DEF Rejected, Settled, At
    <2>2. StateInv'
        BY <1>t, <1>a, <1>9, <2>1 DEF Rejected, Forget, Decide, Move, environment, StateInv, StateOK,
                                      TriesLeft, Decided, Steps, Outcomes, Ends
    <2>3. Receives(c, "consumed")
        BY <1>t, <1>9, <2>1 DEF Rejected, Receives, Decide, Move, StateOK, Elsewhere
    <2> QED BY <2>2, <2>3 DEF Kinds, Statuses
<1>10. ASSUME NEW c \in Calls, NEW end \in Abrupt, Interrupted(c, end) PROVE Goal
    <2>1. StateInv'
        BY <1>t, <1>a, <1>10 DEF Interrupted, Forget, Decide, Move, environment, StateInv, StateOK,
                                 TriesLeft, Decided, Steps, Outcomes, Ends
    <2>2. Leaves
        BY <1>t, <1>10 DEF Interrupted, At, Decide, Move, environment, OpenInv, Leaves, StateOK, Quiet
    <2> QED BY <2>1, <2>2 DEF Kinds
<1>11. ASSUME NEW c \in Calls, Finish(c) PROVE Goal
    <2>1. StateInv'
        <3>1. Recorded(outcome[c]) \in Records
            BY <1>t, <1>11 DEF Finish, At, Decided, Records, Recorded, Ends
        <3> QED BY <1>t, <1>11, <3>1 DEF Finish, Move, environment, network, StateInv, StateOK,
                                 TriesLeft, Decided, Steps
    <2>2. Leaves
        BY <1>t, <1>11 DEF Finish, At, Move, environment, network, OpenInv, Leaves, StateOK, Quiet
    <2> QED BY <2>1, <2>2 DEF Kinds
<1>12. ASSUME NEW a \in Attempts, AttemptStep(a) PROVE Goal
    <2>1. CASE AttemptSucceeds(a) \/ CancelRequested(a) \/ AttemptEnds(a)
        <3>1. UNCHANGED <<worker, today, step, invocation, outcome, network>>
              /\ attempt' \in [Attempts -> Attempted]
            BY <1>t, <2>1 DEF AttemptSucceeds, CancelRequested, AttemptEnds, StateOK, Attempted, Alive
        <3> QED BY <1>t, <3>1 DEF network, StateInv, StateOK, TriesLeft, Decided, Kinds, Leaves, Quiet
    <2>2. CASE WorkerDies(a)
        <3>1. StateInv'
            BY <1>t, <1>a, <2>2 DEF WorkerDies, StateInv, StateOK, TriesLeft, Decided, Steps
        <3>2. Leaves
            BY <1>t, <2>2 DEF WorkerDies, Dropped, OpenInv, Leaves, StateOK, Quiet
        <3> QED BY <3>1, <3>2 DEF Kinds
    <2> QED BY <1>12, <2>1, <2>2 DEF AttemptStep
<1>13. ASSUME Recover PROVE Goal
    <2>1. StateInv'
        BY <1>t, <1>13 DEF Recover, environment, network, StateInv, StateOK, TriesLeft, Decided, Records, Ends
    <2>2. Leaves
        BY <1>13 DEF Recover, environment, network, Leaves, Quiet
    <2> QED BY <2>1, <2>2 DEF Kinds
<1>14. ASSUME Midnight PROVE Goal
    <2>1. today' \in 1..Days
        BY <1>t, <1>a, <1>14 DEF Midnight, StateOK
    <2> QED BY <1>t, <1>14, <2>1 DEF Midnight, network, StateInv, StateOK, TriesLeft, Decided, Kinds, Leaves, Quiet
<1>15. CASE UNCHANGED vars
    BY <1>t, <1>15 DEF vars, StateInv, StateOK, TriesLeft, Decided, Kinds, Leaves, Quiet
<1> QED
    BY <1>1, <1>2, <1>3, <1>4, <1>5, <1>6, <1>7, <1>8, <1>9, <1>10, <1>11, <1>12, <1>13, <1>14, <1>15
    DEF Next, CallStep, TimeOut, Escapes

-----------------------------------------------------------------------------
(* The quota *)

BookInv == StateInv /\ BooksOK /\ OpenInv /\ PoolInv

LEMMA UnitsAre ==
    ASSUME BooksOK
    PROVE  /\ \A c \in Calls, d \in 1..Days : /\ rows[c][d].reserved \in Nat
                                              /\ rows[c][d].consumed \in Nat
           /\ \A p \in Pools : quota[p] \in Units /\ quota[p].reserved \in Nat /\ quota[p].consumed \in Nat
           /\ \A c \in Calls, d \in 1..Days : Pool(c, d) \in Pools
BY ToolAssumption DEF BooksOK, Units, Pool, Pools

LEMMA SendKeeps ==
    ASSUME BookInv, StateInv', NEW c \in Calls, Sends(c)
    PROVE  BookInv'
<1>1. StateOK /\ BooksOK /\ OpenInv /\ PoolInv /\ rows \in [Calls -> [1..Days -> Units]]
    BY DEF BookInv, StateInv, BooksOK
<1> DEFINE d == today
           p == Pool(c, d)
           unit == [reserved |-> rows[c][d].reserved + 1, consumed |-> rows[c][d].consumed]
<1>2. /\ Used(p) < Limit
      /\ quota' = [quota EXCEPT ![p].reserved = @ + 1]
      /\ rows' = [rows EXCEPT ![c][d].reserved = @ + 1]
      /\ step[c] = "ready" /\ step'[c] = "in_flight"
      /\ booking'[c] = d /\ outcome'[c] = outcome[c]
      /\ Elsewhere(c)
    BY DEF Sends, Books
<1>3. d \in 1..Days
    BY <1>1 DEF StateOK
<1> HIDE DEF d
<1>4. /\ rows[c][d].reserved \in Nat /\ rows[c][d].consumed \in Nat /\ p \in Pools
      /\ quota[p].reserved \in Nat /\ quota[p].consumed \in Nat /\ quota[p] \in Units
    BY <1>1, <1>3, UnitsAre
<1>l. Limit \in Nat
    BY ToolAssumption
<1>5. unit \in Units
    BY <1>4 DEF Units
<1>6. rows' = [rows EXCEPT ![c] = [rows[c] EXCEPT ![d] = unit]]
    <2>1. rows[c][d] \in Units
        BY <1>1, <1>3
    <2>2. unit = [rows[c][d] EXCEPT !.reserved = @ + 1]
        BY <2>1 DEF Units
    <2> HIDE DEF unit
    <2> QED BY <1>1, <1>2, <1>3, <2>2
<1> DEFINE more == [reserved |-> quota[p].reserved - rows[c][d].reserved + unit.reserved,
                    consumed |-> quota[p].consumed - rows[c][d].consumed + unit.consumed]
<1>7. more.reserved = quota[p].reserved + 1 /\ more.consumed = quota[p].consumed
    BY <1>4
<1>8. quota' = [quota EXCEPT ![p] = more]
    <2>1. more = [quota[p] EXCEPT !.reserved = @ + 1]
        BY <1>4, <1>7 DEF Units
    <2> HIDE DEF more
    <2> QED BY <1>2, <2>1
<1>9. quota'[p].reserved + quota'[p].consumed <= Limit
    <2>1. quota'[p] = more
        BY <1>1, <1>4, <1>8 DEF BooksOK
    <2> HIDE DEF more
    <2> QED BY <1>2, <1>4, <1>7, <1>l, <2>1 DEF Used
<1> HIDE DEF unit
<1>10. BooksOK' /\ PoolInv'
    BY <1>1, <1>3, <1>5, <1>6, <1>8, <1>9, UnitMoves
<1>11. OpenInv'
    <2>1. Unbooked(c)
        BY <1>1, <1>2 DEF OpenInv
    <2>2. rows'[c] = [rows[c] EXCEPT ![d] = unit] /\ unit.reserved = 1
        BY <1>1, <1>3, <1>6, <2>1 DEF Unbooked, unit
    <2>3. rows'[c][d].reserved = 1 /\ \A e \in (1..Days) \ {d} : rows'[c][e].reserved = 0
        BY <1>1, <1>3, <2>1, <2>2 DEF Unbooked
    <2>4. \A b \in Calls \ {c} : rows'[b] = rows[b]
        BY <1>1, <1>6
    <2>5. outcome'[c] \notin Abrupt
        BY <1>1, <1>2 DEF OpenInv
    <2> QED BY <1>1, <1>2, <1>3, <2>3, <2>4, <2>5 DEF OpenInv, BookedOn, Unbooked, Elsewhere
<1> QED
    BY <1>10, <1>11 DEF BookInv

LEMMA ReceiveKeeps ==
    ASSUME BookInv, StateInv', NEW c \in Calls, NEW status \in Statuses, Receives(c, status)
    PROVE  BookInv'
<1>1. StateOK /\ BooksOK /\ OpenInv /\ PoolInv /\ rows \in [Calls -> [1..Days -> Units]]
    BY DEF BookInv, StateInv, BooksOK
<1> DEFINE d == booking[c]
           p == Pool(c, d)
           n == IF status = "consumed" THEN 1 ELSE 0
           unit == Settle(rows[c][d], status)
<1>2. /\ rows' = [rows EXCEPT ![c][d] = unit]
      /\ quota' = [quota EXCEPT ![p] = Settle(quota[p], status)]
      /\ step[c] = "in_flight" /\ step'[c] \in {"ready", "finishing"}
      /\ outcome'[c] \in Abrupt => step'[c] = "finishing"
      /\ Elsewhere(c)
    BY <1>1 DEF Receives, Settled
<1>3. d \in 1..Days /\ BookedOn(c, d) /\ outcome[c] \notin Abrupt
    BY <1>1, <1>2 DEF OpenInv
<1> HIDE DEF d
<1>4. /\ rows[c][d].reserved = 1 /\ rows[c][d].consumed \in Nat /\ p \in Pools
      /\ quota[p].reserved \in Nat /\ quota[p].consumed \in Nat /\ quota[p] \in Units
    BY <1>1, <1>3, UnitsAre DEF BookedOn
<1>n. n \in {0, 1}
    OBVIOUS
<1>u. unit.reserved = 0 /\ unit.consumed = rows[c][d].consumed + n
    BY <1>4 DEF Settle
<1>5. unit \in Units
    BY <1>4 DEF Units, Settle
<1>6. rows' = [rows EXCEPT ![c] = [rows[c] EXCEPT ![d] = unit]]
    BY <1>1, <1>2, <1>3
<1> DEFINE less == [reserved |-> quota[p].reserved - rows[c][d].reserved + unit.reserved,
                    consumed |-> quota[p].consumed - rows[c][d].consumed + unit.consumed]
<1> HIDE DEF unit
<1>7. less.reserved = quota[p].reserved - 1 /\ less.consumed = quota[p].consumed + n
    BY <1>4, <1>u, <1>n
<1>8. quota' = [quota EXCEPT ![p] = less]
    <2>1. less = Settle(quota[p], status)
        BY <1>7 DEF Settle
    <2> HIDE DEF less
    <2> QED BY <1>2, <2>1
<1>9. quota'[p].reserved + quota'[p].consumed <= Limit
    <2>1. quota'[p] = less
        BY <1>1, <1>4, <1>8 DEF BooksOK
    <2>2. quota[p].reserved + quota[p].consumed <= Limit /\ Limit \in Nat
        BY <1>1, <1>4, ToolAssumption DEF PoolInv, Used
    <2> HIDE DEF less, n
    <2> QED BY <1>4, <1>7, <1>n, <2>1, <2>2
<1>10. BooksOK' /\ PoolInv'
    BY <1>1, <1>3, <1>5, <1>6, <1>8, <1>9, UnitMoves
<1>11. OpenInv'
    <2>1. rows'[c] = [rows[c] EXCEPT ![d] = unit]
        BY <1>1, <1>6
    <2>2. \A e \in 1..Days : rows'[c][e].reserved = 0
        BY <1>1, <1>3, <1>u, <2>1 DEF BookedOn
    <2>3. \A b \in Calls \ {c} : rows'[b] = rows[b]
        BY <1>1, <1>6
    <2> QED BY <1>1, <1>2, <1>3, <2>2, <2>3 DEF OpenInv, BookedOn, Unbooked, Elsewhere
<1> QED
    BY <1>10, <1>11 DEF BookInv

LEMMA LeaveKeeps ==
    ASSUME BookInv, StateInv', Leaves
    PROVE  BookInv'
<1>1. StateOK /\ BooksOK /\ OpenInv /\ PoolInv /\ rows' = rows /\ quota' = quota
    BY DEF BookInv, StateInv, Leaves, Quiet
<1>2. OpenInv'
    BY <1>1 DEF OpenInv, BookedOn, Unbooked, Leaves
<1>3. PoolInv'
    BY <1>1 DEF PoolInv, Used
<1> QED
    BY <1>1, <1>2, <1>3 DEF BookInv, BooksOK

LEMMA SumOfZeros == Total([c \in Calls |-> 0]) = 0
<1> DEFINE zero == [c \in Calls |-> 0]
<1>1. /\ \A c \in {} : zero[c] \in Int
      /\ \A c \in Calls : zero[c] = IF c \in {} THEN zero[c] ELSE 0
      /\ {} \in SUBSET Calls
    OBVIOUS
<1> HIDE DEF zero
<1>2. SumFunctionOnSet(zero, {}) = SumFunctionOnSet(zero, Calls)
    BY <1>1, ToolAssumption, SumOfPart
<1>3. Total(zero) = 0
    BY <1>2, SumOfNone DEF Total
<1> QED
    BY <1>3 DEF zero

LEMMA BookInvHolds == Spec => []BookInv
<1>1. Init => BookInv
    <2> SUFFICES ASSUME Init PROVE BookInv
        OBVIOUS
    <2>1. StateInv
        BY ToolAssumption DEF Init, StateInv, StateOK, TriesLeft, Decided, Attempted, Alive, Outcomes,
                              Records, Steps
    <2>2. BooksOK
        BY DEF Init, BooksOK, Nothing, Units
    <2>3. OpenInv
        BY DEF Init, OpenInv, Unbooked, Nothing, Abrupt
    <2>4. ASSUME NEW p \in Pools
          PROVE  /\ quota[p].reserved = 0 /\ quota[p].consumed = 0
                 /\ ReservedOf(rows, p) = [c \in Calls |-> 0]
                 /\ ConsumedOf(rows, p) = [c \in Calls |-> 0]
        <3>1. p[2] \in 1..Days
            BY DEF Pools
        <3>2. \A c \in Calls : rows[c][p[2]] = Nothing
            BY <3>1 DEF Init
        <3>3. /\ ReservedOf(rows, p) = [c \in Calls |-> 0]
              /\ ConsumedOf(rows, p) = [c \in Calls |-> 0]
            BY <3>2 DEF Nothing, ReservedOf, ConsumedOf
        <3>4. quota[p] = Nothing
            BY DEF Init
        <3> QED BY <3>3, <3>4 DEF Nothing
    <2>5. PoolInv
        BY <2>4, SumOfZeros, ToolAssumption DEF PoolInv, Used
    <2> QED BY <2>1, <2>2, <2>3, <2>5 DEF BookInv
<1>2. BookInv /\ [Next]_vars => BookInv'
    <2> SUFFICES ASSUME BookInv, [Next]_vars PROVE BookInv'
        OBVIOUS
    <2>1. StateInv' /\ Kinds
        BY StepKinds DEF BookInv
    <2> QED BY <2>1, LeaveKeeps, SendKeeps, ReceiveKeeps DEF Kinds
<1> QED
    BY <1>1, <1>2, PTL DEF Spec

\* The variables hold what their types say.
THEOREM ToolTypes == Spec => []TypeOK
<1>1. BookInv => TypeOK
    BY TypeParts DEF BookInv, StateInv
<1> QED
    BY <1>1, BookInvHolds, PTL

\* The counters of a pool are the reservations of its calls.
LEMMA PoolSums ==
    ASSUME BooksOK, PoolInv, NEW p \in Pools
    PROVE  LET of == {c \in Calls : BucketOf[c] = p[1]} IN
           /\ quota[p].reserved = SumFunction([c \in of |-> rows[c][p[2]].reserved])
           /\ quota[p].consumed = SumFunction([c \in of |-> rows[c][p[2]].consumed])
<1> DEFINE of == {c \in Calls : BucketOf[c] = p[1]}
           f == [c \in of |-> rows[c][p[2]].reserved]
           g == [c \in of |-> rows[c][p[2]].consumed]
           h == ReservedOf(rows, p)
           k == ConsumedOf(rows, p)
<1>0. of \in SUBSET Calls /\ p[2] \in 1..Days /\ IsFiniteSet(Calls)
    BY ToolAssumption DEF Pools
<1>1. \A c \in of : f[c] \in Int /\ g[c] \in Int
    BY <1>0, UnitsAre
<1>2. \A c \in Calls : /\ h[c] = IF c \in of THEN f[c] ELSE 0
                       /\ k[c] = IF c \in of THEN g[c] ELSE 0
    BY DEF ReservedOf, ConsumedOf
<1>3. SumFunction(f) = SumFunctionOnSet(f, of) /\ SumFunction(g) = SumFunctionOnSet(g, of)
    BY DEF SumFunction
<1> HIDE DEF f, g, h, k, of
<1>4. SumFunctionOnSet(f, of) = SumFunctionOnSet(h, Calls)
    BY <1>0, <1>1, <1>2, SumOfPart
<1>5. SumFunctionOnSet(g, of) = SumFunctionOnSet(k, Calls)
    BY <1>0, <1>1, <1>2, SumOfPart
<1>6. quota[p].reserved = SumFunction(f) /\ quota[p].consumed = SumFunction(g)
    BY <1>3, <1>4, <1>5 DEF PoolInv, Total, h, k
<1> QED
    BY <1>6 DEF f, g, of

\* The open units of a call are its bookings.
LEMMA OpenUnits ==
    ASSUME BooksOK, NEW c \in Calls
    PROVE  LET open == SumFunction([d \in 1..Days |-> rows[c][d].reserved]) IN
           /\ Unbooked(c) => open = 0
           /\ \A d \in 1..Days : BookedOn(c, d) => open = 1
<1> DEFINE D == 1..Days
           f == [d \in D |-> rows[c][d].reserved]
<1>0. IsFiniteSet(D)
    BY ToolAssumption, FS_Interval
<1>1. \A d \in D : f[d] \in Int
    BY UnitsAre
<1>2. SumFunction(f) = SumFunctionOnSet(f, D)
    BY DEF SumFunction
<1>3. ASSUME Unbooked(c) PROVE SumFunction(f) = 0
    <2>1. /\ \A d \in {} : f[d] \in Int
          /\ \A d \in D : f[d] = IF d \in {} THEN f[d] ELSE 0
          /\ {} \in SUBSET D
        BY <1>3 DEF Unbooked
    <2> HIDE DEF f, D
    <2>2. SumFunctionOnSet(f, {}) = SumFunctionOnSet(f, D)
        BY <1>0, <2>1, SumOfPart
    <2> QED BY <1>2, <2>2, SumOfNone
<1>4. ASSUME NEW d \in D, BookedOn(c, d) PROVE SumFunction(f) = 1
    <2> DEFINE T == {d}
    <2>1. /\ \A e \in T : f[e] \in Int
          /\ \A e \in D : f[e] = IF e \in T THEN f[e] ELSE 0
          /\ T \in SUBSET D
          /\ f[d] = 1
        BY <1>1, <1>4 DEF BookedOn
    <2> HIDE DEF f, D
    <2>3. SumFunctionOnSet(f, T) = SumFunctionOnSet(f, {}) + f[d]
        <3>1. IsFiniteSet({}) /\ (\A e \in {} \cup {d} : f[e] \in Int) /\ {} \cup {d} = {d}
            BY <2>1, FS_EmptySet
        <3>2. SumFunctionOnSet(f, {} \cup {d}) = SumFunctionOnSet(f, {}) + f[d]
            BY <3>1, SumGrows
        <3> QED BY <3>1, <3>2, Zenon
    <2> HIDE DEF T
    <2>2. SumFunctionOnSet(f, T) = SumFunctionOnSet(f, D)
        BY <1>0, <2>1, SumOfPart
    <2> QED BY <1>2, <2>1, <2>2, <2>3, SumOfNone
<1> QED
    BY <1>3, <1>4

\* The counters are the reservations behind them, within the limit, and the units
\* nobody will settle are those of calls that ended where they stood or lost their
\* worker.
THEOREM QuotaIsAccounted == Spec => []QuotaAccounted
<1>1. ASSUME BookInv PROVE QuotaAccounted
    <2>0. BooksOK /\ OpenInv /\ PoolInv
        BY <1>1 DEF BookInv
    <2>1. ASSUME NEW p \in Pools
          PROVE  LET of == {c \in Calls : BucketOf[c] = p[1]} IN
                 /\ quota[p].reserved = SumFunction([c \in of |-> rows[c][p[2]].reserved])
                 /\ quota[p].consumed = SumFunction([c \in of |-> rows[c][p[2]].consumed])
                 /\ Used(p) =< Limit
        BY <2>0, PoolSums DEF PoolInv
    <2>2. ASSUME NEW c \in Calls
          PROVE  LET open == SumFunction([d \in 1..Days |-> rows[c][d].reserved]) IN
                 \/ open = 0
                 \/ open = 1 /\ (step[c] \in {"in_flight", "dead"} \/ outcome[c] \in Abrupt)
        <3> DEFINE open == SumFunction([d \in 1..Days |-> rows[c][d].reserved])
        <3>1. /\ Unbooked(c) => open = 0
              /\ \A d \in 1..Days : BookedOn(c, d) => open = 1
            BY <2>0, OpenUnits
        <3> HIDE DEF open
        <3>2. \/ open = 0
              \/ open = 1 /\ (step[c] \in {"in_flight", "dead"} \/ outcome[c] \in Abrupt)
            BY <2>0, <3>1 DEF OpenInv
        <3> QED BY <3>2 DEF open
    <2> QED BY <2>1, <2>2 DEF QuotaAccounted
<1> QED
    BY <1>1, BookInvHolds, PTL

-----------------------------------------------------------------------------
(* Records *)

\* Where a call has an invocation of its own.
Holding == {"admitted", "ready", "in_flight", "finishing"}

RecordInv == \A c \in Calls :
    /\ step[c] \in Holding /\ attempt[AttemptOf[c]] \in Alive => invocation[c] = "running"
    /\ attempt[AttemptOf[c]] = "succeeded" => step[c] = "done"
    /\ step[c] = "done" /\ outcome[c] = "succeeded" =>
           \/ invocation[c] = "succeeded"
           \/ attempt[AttemptOf[c]] \in {"failed", "cancelled"}

SlotInv == \A c \in Calls : Cardinality(Slots(c)) <= MaxConcurrency

\* A call goes somewhere without touching the records.
Proceeds(c) ==
    /\ UNCHANGED <<attempt, invocation>>
    /\ step[c] # "done"
    /\ step'[c] = "done" => outcome'[c] = "refused"
    /\ step'[c] \in Holding => step[c] \in Holding
    /\ \A b \in Calls \ {c} : step'[b] = step[b] /\ outcome'[b] = outcome[b]

LEMMA ProceedKeeps ==
    ASSUME StateInv, RecordInv, NEW c \in Calls, Proceeds(c)
    PROVE  RecordInv'
BY DEF RecordInv, Proceeds

LEMMA CallProceeds ==
    ASSUME StateInv, NEW c \in Calls,
           \/ Authorize(c) \/ GiveUp(c) \/ CheckCancelled(c) \/ RunLocally(c) \/ Reserve(c)
           \/ Answered(c) \/ Disturbed(c) \/ Rejected(c) \/ TimeOut(c) \/ Escapes(c)
    PROVE  Proceeds(c)
<1> USE DEF StateInv, StateOK, Proceeds, Holding, At, Move, environment
<1>1. CASE Authorize(c)
    BY <1>1 DEF Authorize, Refuse
<1>2. CASE GiveUp(c)
    BY <1>2 DEF GiveUp, Refuse
<1>3. CASE CheckCancelled(c)
    BY <1>3 DEF CheckCancelled, Decide
<1>4. CASE RunLocally(c)
    BY <1>4 DEF RunLocally, Decide
<1>5. CASE Reserve(c)
    BY <1>5 DEF Reserve, Decide
<1>6. CASE Answered(c)
    BY <1>6 DEF Answered, Decide
<1>7. CASE Disturbed(c)
    BY <1>7 DEF Disturbed, Decide
<1>8. CASE Rejected(c)
    BY <1>8 DEF Rejected, Decide
<1>9. CASE TimeOut(c) \/ Escapes(c)
    BY <1>9 DEF TimeOut, Escapes, Interrupted, Decide
<1> QED
    BY <1>1, <1>2, <1>3, <1>4, <1>5, <1>6, <1>7, <1>8, <1>9

\* No invocation begins: every slot that is taken was taken.
LEMMA SlotsShrink ==
    ASSUME SlotInv, \A c \in Calls : invocation'[c] = "running" => invocation[c] = "running"
    PROVE  SlotInv'
<1> SUFFICES ASSUME NEW c \in Calls PROVE Cardinality(Slots(c)') <= MaxConcurrency
    BY DEF SlotInv
<1> DEFINE S == Slots(c)
           T == Slots(c)'
<1>1. T \subseteq S /\ S \subseteq Calls
    BY DEF Slots
<1>2. Cardinality(S) <= MaxConcurrency
    BY DEF SlotInv
<1> HIDE DEF S, T
<1>3. IsFiniteSet(S)
    BY <1>1, ToolAssumption, FS_Subset
<1>4. Cardinality(T) <= Cardinality(S) /\ Cardinality(S) \in Nat /\ Cardinality(T) \in Nat
    BY <1>1, <1>3, FS_Subset, FS_CardinalityType
<1>5. Cardinality(T) <= MaxConcurrency
    BY <1>2, <1>4, ToolAssumption
<1> QED
    BY <1>5 DEF T

LEMMA BeginKeeps ==
    ASSUME StateInv, RecordInv, SlotInv, NEW c \in Calls, Begin(c)
    PROVE  RecordInv' /\ SlotInv'
<1>0. StateOK /\ step[c] = "waiting" /\ UNCHANGED <<environment, network>>
    BY DEF StateInv, Begin, At
<1>1. CASE Refuse(c) /\ UNCHANGED invocation
    <2>1. Proceeds(c)
        BY <1>0, <1>1 DEF Proceeds, Refuse, Move, environment, StateOK, Holding
    <2> QED BY <1>1, <2>1, ProceedKeeps, SlotsShrink
<1>2. CASE /\ SlotFree(c)
           /\ invocation' = [invocation EXCEPT ![c] = "running"]
           /\ Move(c, "admitted")
           /\ UNCHANGED outcome
    <2>1. RecordInv'
        BY <1>0, <1>2 DEF RecordInv, Move, environment, StateOK, Holding
    <2>2. ASSUME NEW d \in Calls PROVE Cardinality(Slots(d)') <= MaxConcurrency
        <3> DEFINE S == Slots(d)
                   T == Slots(d)'
        <3>0. S \subseteq Calls
            BY DEF Slots
        <3>1. T \subseteq S \cup {c} /\ (SlotOf[d] # SlotOf[c] => T \subseteq S)
              /\ (SlotOf[d] = SlotOf[c] => Cardinality(S) < MaxConcurrency)
            <4>1. \A e \in Calls \ {c} : invocation'[e] = invocation[e]
                BY <1>0, <1>2 DEF StateOK
            <4>2. SlotOf[d] = SlotOf[c] => Slots(d) = Slots(c)
                BY DEF Slots
            <4>3. T \subseteq S \cup {c} /\ (SlotOf[d] # SlotOf[c] => T \subseteq S)
                BY <4>1 DEF Slots
            <4> HIDE DEF T
            <4>4. SlotOf[d] = SlotOf[c] => Cardinality(S) < MaxConcurrency
                BY <1>2, <4>2 DEF SlotFree
            <4> QED BY <4>3, <4>4
        <3>2. Cardinality(S) <= MaxConcurrency
            BY DEF SlotInv
        <3> HIDE DEF S, T
        <3>3. IsFiniteSet(S)
            BY <3>0, ToolAssumption, FS_Subset
        <3>4. IsFiniteSet(S \cup {c}) /\ Cardinality(S \cup {c}) <= Cardinality(S) + 1
              /\ Cardinality(S) \in Nat /\ Cardinality(S \cup {c}) \in Nat
            <4> DEFINE U == S \cup {c}
            <4>1. IsFiniteSet(U) /\ Cardinality(U) = IF c \in S THEN Cardinality(S) ELSE Cardinality(S) + 1
                BY <3>3, FS_AddElement
            <4> HIDE DEF U
            <4>2. Cardinality(S) \in Nat
                BY <3>3, FS_CardinalityType
            <4>3. IsFiniteSet(U) /\ Cardinality(U) <= Cardinality(S) + 1 /\ Cardinality(U) \in Nat
                BY <4>1, <4>2
            <4> QED BY <4>2, <4>3 DEF U
        <3>5. CASE SlotOf[d] # SlotOf[c]
            <4>1. Cardinality(T) <= Cardinality(S) /\ Cardinality(T) \in Nat
                BY <3>1, <3>3, <3>5, FS_Subset, FS_CardinalityType
            <4>2. Cardinality(T) <= MaxConcurrency
                BY <3>2, <3>4, <4>1, ToolAssumption
            <4> QED BY <4>2 DEF T
        <3>6. CASE SlotOf[d] = SlotOf[c]
            <4> DEFINE U == S \cup {c}
            <4>0. T \subseteq U /\ IsFiniteSet(U)
                BY <3>1, <3>4
            <4> HIDE DEF U
            <4>1. Cardinality(T) <= Cardinality(U) /\ Cardinality(T) \in Nat
                BY <4>0, FS_Subset, FS_CardinalityType
            <4>2. Cardinality(T) <= MaxConcurrency
                BY <3>1, <3>4, <3>6, <4>1, ToolAssumption DEF U
            <4> QED BY <4>2 DEF T
        <3> QED BY <3>5, <3>6
    <2> QED BY <2>1, <2>2 DEF SlotInv
<1> QED
    BY <1>1, <1>2 DEF Begin

ResultInv == StateInv /\ RecordInv /\ SlotInv

LEMMA RecordStep ==
    ASSUME ResultInv, [Next]_vars
    PROVE  RecordInv' /\ SlotInv'
<1>0. StateInv /\ StateOK /\ RecordInv /\ SlotInv
    BY DEF ResultInv, StateInv
<1>1. ASSUME NEW c \in Calls,
             \/ Authorize(c) \/ GiveUp(c) \/ CheckCancelled(c) \/ RunLocally(c) \/ Reserve(c)
             \/ Answered(c) \/ Disturbed(c) \/ Rejected(c) \/ TimeOut(c) \/ Escapes(c)
      PROVE  RecordInv' /\ SlotInv'
    <2>1. Proceeds(c)
        BY <1>0, <1>1, CallProceeds
    <2>2. invocation' = invocation
        BY <2>1 DEF Proceeds
    <2> QED BY <1>0, <2>1, <2>2, ProceedKeeps, SlotsShrink
<1>2. ASSUME NEW c \in Calls, Begin(c) PROVE RecordInv' /\ SlotInv'
    BY <1>0, <1>2, BeginKeeps
<1>3. ASSUME NEW c \in Calls, Finish(c) PROVE RecordInv' /\ SlotInv'
    <2>1. /\ step[c] = "finishing" /\ step' = [step EXCEPT ![c] = "done"]
          /\ invocation' = [invocation EXCEPT ![c] = IF @ = "running" THEN Recorded(outcome[c]) ELSE @]
          /\ attempt' = attempt /\ outcome' = outcome
          /\ Recorded(outcome[c]) \in Ends
          /\ outcome[c] = "succeeded" => Recorded(outcome[c]) = "succeeded"
        BY <1>0, <1>3 DEF Finish, At, Move, environment, StateInv, Decided, Recorded, Ends, Abrupt
    <2>2. RecordInv'
        <3>1. attempt[AttemptOf[c]] \in Attempted
            BY <1>0, ToolAssumption DEF StateOK
        <3>2. \/ attempt[AttemptOf[c]] \in {"failed", "cancelled"}
              \/ invocation[c] = "running"
            BY <1>0, <2>1, <3>1 DEF RecordInv, Holding, Attempted, Alive
        <3>3. \A b \in Calls \ {c} : step'[b] = step[b] /\ invocation'[b] = invocation[b]
            BY <1>0, <2>1 DEF StateOK
        <3>4. step'[c] = "done" /\ (invocation[c] = "running" => invocation'[c] = Recorded(outcome[c]))
            BY <1>0, <2>1 DEF StateOK
        <3> QED BY <1>0, <2>1, <3>2, <3>3, <3>4 DEF RecordInv, Holding
    <2>3. SlotInv'
        BY <1>0, <2>1, SlotsShrink DEF StateOK, Ends
    <2> QED BY <2>2, <2>3
<1>4. ASSUME NEW a \in Attempts, AttemptStep(a) PROVE RecordInv' /\ SlotInv'
    <2>1. CASE AttemptSucceeds(a)
        <3>1. /\ \A c \in Calls : AttemptOf[c] = a => step[c] = "done"
              /\ attempt[a] = "running" /\ attempt' = [attempt EXCEPT ![a] = "succeeded"]
              /\ UNCHANGED <<step, invocation, outcome>>
            BY <2>1 DEF AttemptSucceeds, CallsOf
        <3> QED BY <1>0, <3>1, SlotsShrink, ToolAssumption DEF RecordInv, StateOK, Holding, Alive
    <2>2. CASE CancelRequested(a)
        <3>1. /\ attempt[a] = "running" /\ attempt' = [attempt EXCEPT ![a] = "cancelling"]
              /\ UNCHANGED <<step, invocation, outcome>>
            BY <2>2 DEF CancelRequested
        <3> QED BY <1>0, <3>1, SlotsShrink, ToolAssumption DEF RecordInv, StateOK, Holding, Alive
    <2>3. CASE AttemptEnds(a)
        <3>1. /\ \E end \in {"failed", "cancelled"} : attempt' = [attempt EXCEPT ![a] = end]
              /\ UNCHANGED <<step, invocation, outcome>>
            BY <2>3 DEF AttemptEnds
        <3> QED BY <1>0, <3>1, SlotsShrink, ToolAssumption DEF RecordInv, StateOK, Holding, Alive
    <2>4. CASE WorkerDies(a)
        <3>1. /\ \A c \in Calls : \/ step'[c] = step[c]
                                  \/ step'[c] = "dead" /\ step[c] # "done"
              /\ UNCHANGED <<attempt, invocation, outcome>>
            BY <2>4 DEF WorkerDies, Dropped
        <3> QED BY <1>0, <3>1, SlotsShrink DEF RecordInv, Holding
    <2> QED BY <1>4, <2>1, <2>2, <2>3, <2>4 DEF AttemptStep
<1>5. ASSUME Recover PROVE RecordInv' /\ SlotInv'
    <2>1. /\ UNCHANGED <<attempt, step, outcome>>
          /\ \A c \in Calls : \/ invocation'[c] = invocation[c]
                              \/ /\ invocation[c] = "running" /\ invocation'[c] # "running"
                                 /\ attempt[AttemptOf[c]] \notin Alive
        BY <1>5 DEF Recover, Abandoned, environment, Alive
    <2> QED BY <1>0, <2>1, SlotsShrink DEF RecordInv
<1>6. ASSUME UNCHANGED <<attempt, step, invocation, outcome>> PROVE RecordInv' /\ SlotInv'
    BY <1>0, <1>6, SlotsShrink DEF RecordInv
<1>7. CASE Midnight \/ UNCHANGED vars
    BY <1>6, <1>7 DEF Midnight, vars
<1> QED
    BY <1>1, <1>2, <1>3, <1>4, <1>5, <1>7 DEF Next, CallStep

LEMMA ResultInvHolds == Spec => []ResultInv
<1>1. Init => RecordInv /\ SlotInv
    <2> SUFFICES ASSUME Init PROVE RecordInv /\ SlotInv
        OBVIOUS
    <2>1. RecordInv
        BY ToolAssumption DEF Init, RecordInv, Holding
    <2>2. \A c \in Calls : Slots(c) = {}
        BY DEF Init, Slots
    <2> QED BY <2>1, <2>2, FS_EmptySet, ToolAssumption DEF SlotInv
<1>2. BookInv => StateInv
    BY DEF BookInv
<1>3. StateInv /\ RecordInv /\ SlotInv /\ [Next]_vars => RecordInv' /\ SlotInv'
    BY RecordStep DEF ResultInv
<1>4. StateInv /\ RecordInv /\ SlotInv => ResultInv
    BY DEF ResultInv
<1> QED
    BY <1>1, <1>2, <1>3, <1>4, BookInvHolds, PTL DEF Spec

\* What a live attempt is told agrees with the record, and the calls that live
\* attempts are dispatching stay within the concurrency of their tool.
THEOREM ResultsAreRecorded == Spec => []ResultsRecorded
<1>1. ASSUME ResultInv PROVE ResultsRecorded
    <2>0. StateOK /\ RecordInv /\ SlotInv
        BY <1>1 DEF ResultInv, StateInv
    <2>1. ASSUME NEW c \in Calls PROVE Cardinality(Dispatching(SlotOf[c])) =< MaxConcurrency
        <3> DEFINE S == Slots(c)
                   T == Dispatching(SlotOf[c])
        <3>1. T \subseteq S /\ S \subseteq Calls
            BY <2>0 DEF Dispatching, Slots, Running, RecordInv, Holding, Alive
        <3>2. Cardinality(S) <= MaxConcurrency
            BY <2>0 DEF SlotInv
        <3> HIDE DEF S, T
        <3>3. IsFiniteSet(S)
            BY <3>1, ToolAssumption, FS_Subset
        <3>4. Cardinality(T) <= Cardinality(S) /\ Cardinality(S) \in Nat /\ Cardinality(T) \in Nat
            BY <3>1, <3>3, FS_Subset, FS_CardinalityType
        <3>5. Cardinality(T) <= MaxConcurrency
            BY <3>2, <3>4, ToolAssumption
        <3> QED BY <3>5 DEF T
    <2> QED BY <2>0, <2>1 DEF ResultsRecorded, RecordInv
<1> QED
    BY <1>1, ResultInvHolds, PTL
=============================================================================
