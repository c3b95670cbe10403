----------------------------- MODULE ToolCalls ------------------------------
(***************************************************************************)
(* Tool calls: an attempt's invoke_tool waits for a slot of its run and    *)
(* tool, records a durable invocation, books YouTube quota before every    *)
(* network request and settles it by the answer, and closes the            *)
(* invocation.  Attempts end under running calls, workers die, the quota   *)
(* day changes, and the recovery job closes what they leave behind.        *)
(*                                                                         *)
(* Each session_scope() block of tools/runner.py and tools/youtube.py is   *)
(* one action; calls, attempts and recovery interleave between them.       *)
(* Operators named _Slip: see module Runtime.                              *)
(***************************************************************************)
EXTENDS Integers, FiniteSets, Functions

CONSTANTS
    Attempts,       \* task attempts
    Calls,          \* calls of invoke_tool
    AttemptOf,      \* the attempt that makes each call
    SlotOf,         \* the run and tool whose slots the call uses
    KeyOf,          \* idempotency key: attempt, tool version, call key and input
    Requests,       \* network requests a call makes when each is answered: the
                    \* queries of a search, 0 for a tool without network
    BucketOf,       \* quota bucket of each call
    Buckets,
    MaxConcurrency, \* slots per run and tool
    MaxTries,       \* tries per request, youtube_network_max_attempts
    Fragile,        \* bound: attempts that may be cancelled, end early or lose
                    \* their worker
    Limit,          \* daily limit of a bucket
    Days            \* bound: 1..Days are the quota days

ASSUME ToolAssumption ==
    /\ IsFiniteSet(Calls)
    /\ AttemptOf \in [Calls -> Attempts]
    /\ Fragile \subseteq Attempts
    /\ BucketOf \in [Calls -> Buckets]
    /\ Requests \in [Calls -> Nat]
    /\ MaxConcurrency \in Nat \ {0}
    /\ MaxTries \in Nat \ {0}
    /\ Limit \in Nat
    /\ Days \in Nat \ {0}

VARIABLES
    attempt,     \* TaskAttempt.status, "cancelling" when its task or run is
    worker,      \* whether the worker of the attempt is alive
    step,        \* where the code of each call is
    invocation,  \* ToolInvocation.status, "none" before the row exists
    outcome,     \* what the call has decided to record and return
    left,        \* requests not answered yet
    tries,       \* tries of the present request
    booking,     \* quota day of the reservation of the request in flight, or 0
    rows,        \* the call's YouTubeQuotaReservation rows of each day: how many
                 \* are reserved and how many consumed (released ones count nothing)
    quota,       \* YouTubeQuotaState: reserved and consumed units
    today        \* the quota day

vars == <<attempt, worker, step, invocation, outcome, left, tries, booking, rows, quota, today>>

Steps == {"idle", "waiting", "admitted", "ready", "in_flight", "finishing", "done", "dead"}
Ends == {"succeeded", "failed", "timed_out", "cancelled"}
\* A call that ends where it stands: by its deadline, or by an exception that only
\* the last clause of invoke_tool catches.
Abrupt == {"timed_out", "internal"}
Pools == Buckets \X (1..Days)
Units == [reserved : Nat, consumed : Nat]
Nothing == [reserved |-> 0, consumed |-> 0]

TypeOK ==
    /\ attempt \in [Attempts -> {"running", "cancelling", "succeeded", "failed", "cancelled"}]
    /\ worker \in [Attempts -> BOOLEAN]
    /\ step \in [Calls -> Steps]
    /\ invocation \in [Calls -> {"none", "running"} \cup Ends]
    /\ outcome \in [Calls -> {"none", "refused", "internal"} \cup Ends]
    /\ left \in [Calls -> Nat]
    /\ tries \in [Calls -> 0..MaxTries]
    /\ booking \in [Calls -> 0..Days]
    /\ rows \in [Calls -> [1..Days -> Units]]
    /\ quota \in [Pools -> Units]
    /\ today \in 1..Days

Init ==
    /\ attempt = [a \in Attempts |-> "running"]
    /\ worker = [a \in Attempts |-> TRUE]
    /\ step = [c \in Calls |-> "idle"]
    /\ invocation = [c \in Calls |-> "none"]
    /\ outcome = [c \in Calls |-> "none"]
    /\ left = Requests
    /\ tries = [c \in Calls |-> 0]
    /\ booking = [c \in Calls |-> 0]
    /\ rows = [c \in Calls |-> [d \in 1..Days |-> Nothing]]
    /\ quota = [p \in Pools |-> Nothing]
    /\ today = 1

Running(c) == attempt[AttemptOf[c]] = "running"
At(c, where) == step[c] = where /\ worker[AttemptOf[c]]
Move(c, where) == step' = [step EXCEPT ![c] = where]
Refuse(c) == Move(c, "done") /\ outcome' = [outcome EXCEPT ![c] = "refused"]
Decide(c, end) == Move(c, "finishing") /\ outcome' = [outcome EXCEPT ![c] = end]

\* The locals of a call, back to their initial value when it has decided.
Forget(c) ==
    /\ left' = [left EXCEPT ![c] = Requests[c]]
    /\ tries' = [tries EXCEPT ![c] = 0]

environment == <<attempt, worker, today>>
network == <<left, tries, booking, rows, quota>>

(* invoke_tool, _authorize: only a running attempt may call. *)
Authorize(c) ==
    /\ At(c, "idle")
    /\ \/ Running(c) /\ Move(c, "waiting") /\ UNCHANGED outcome
       \/ ~Running(c) /\ Refuse(c)
    /\ UNCHANGED <<environment, invocation, network>>

Slots(c) == {d \in Calls : SlotOf[d] = SlotOf[c] /\ invocation[d] = "running"}
Duplicate(c) == \E d \in Calls : KeyOf[d] = KeyOf[c] /\ invocation[d] # "none"

(* _begin_invocation, under the advisory lock of the run and tool; a call  *)
(* that finds every slot taken keeps polling.                              *)
SlotFree_Slip(c) == Cardinality(Slots(c)) =< MaxConcurrency
SlotFree(c) == Cardinality(Slots(c)) < MaxConcurrency
Begin(c) ==
    /\ At(c, "waiting")
    /\ \/ /\ ~Running(c) \/ Duplicate(c)
          /\ Refuse(c)
          /\ UNCHANGED invocation
       \/ /\ Running(c) /\ ~Duplicate(c) /\ SlotFree(c)
          /\ invocation' = [invocation EXCEPT ![c] = "running"]
          /\ Move(c, "admitted")
          /\ UNCHANGED outcome
    /\ UNCHANGED <<environment, network>>

(* _admit_invocation: the deadline passes while every slot is taken. *)
GiveUp(c) ==
    /\ At(c, "waiting") /\ Running(c) /\ ~Duplicate(c) /\ ~SlotFree(c)
    /\ Refuse(c)
    /\ UNCHANGED <<environment, invocation, network>>

(* invoke_tool reads task_is_cancelled once before it dispatches. *)
CheckCancelled(c) ==
    /\ At(c, "admitted")
    /\ \/ /\ attempt[AttemptOf[c]] \in {"cancelling", "cancelled"}
          /\ Decide(c, "cancelled")
       \/ /\ attempt[AttemptOf[c]] \notin {"cancelling", "cancelled"}
          /\ Move(c, "ready")
          /\ UNCHANGED outcome
    /\ UNCHANGED <<environment, invocation, network>>

(* _dispatch of a tool that makes no network request, or of a client that  *)
(* is refused before its first request because it is not configured.       *)
RunLocally(c) ==
    /\ At(c, "ready") /\ left[c] = Requests[c] /\ tries[c] = 0
    /\ \E end \in {"succeeded", "failed"} :
           /\ Requests[c] > 0 => end = "failed"
           /\ Decide(c, end)
    /\ UNCHANGED <<environment, invocation, network>>

Pool(c, d) == <<BucketOf[c], d>>
Used(p) == quota[p].reserved + quota[p].consumed

(* reserve_quota and the request that follows it. *)
Reserve(c) ==
    /\ At(c, "ready") /\ left[c] > 0
    /\ LET p == Pool(c, today) IN
       \/ /\ Used(p) >= Limit
          /\ Decide(c, "failed") /\ Forget(c)
          /\ UNCHANGED <<booking, rows, quota>>
       \/ /\ Used(p) < Limit
          /\ quota' = [quota EXCEPT ![p].reserved = @ + 1]
          /\ rows' = [rows EXCEPT ![c][today].reserved = @ + 1]
          /\ booking' = [booking EXCEPT ![c] = today]
          /\ tries' = [tries EXCEPT ![c] = @ + 1]
          /\ Move(c, "in_flight")
          /\ UNCHANGED <<outcome, left>>
    /\ UNCHANGED <<environment, invocation>>

(* finalize_quota: the reservation and the counters of the day it was made *)
(* on, under both row locks.                                               *)
Settle(u, status) ==
    [reserved |-> u.reserved - 1,
     consumed |-> u.consumed + (IF status = "consumed" THEN 1 ELSE 0)]
Settled_Slip(c, status) ==
    /\ rows' = [rows EXCEPT ![c][booking[c]] = Settle(@, status)]
    /\ quota' = [quota EXCEPT ![Pool(c, today)] = Settle(@, status)]
    /\ booking' = [booking EXCEPT ![c] = 0]
Settled(c, status) ==
    /\ rows' = [rows EXCEPT ![c][booking[c]] = Settle(@, status)]
    /\ quota' = [quota EXCEPT ![Pool(c, booking[c])] = Settle(@, status)]
    /\ booking' = [booking EXCEPT ![c] = 0]

(* _request: a good answer.  A search may stop before its last query; an   *)
(* output that is too large fails the call, and one that does not parse or *)
(* validate ends it by an exception.                                       *)
Answered(c) ==
    /\ At(c, "in_flight")
    /\ Settled(c, "consumed")
    /\ \/ /\ left[c] > 1
          /\ left' = [left EXCEPT ![c] = @ - 1]
          /\ tries' = [tries EXCEPT ![c] = 0]
          /\ Move(c, "ready")
          /\ UNCHANGED outcome
       \/ Forget(c) /\ \E end \in {"succeeded", "failed", "internal"} : Decide(c, end)
    /\ UNCHANGED <<environment, invocation>>

(* _request: a connection that was never made releases the unit, a lost    *)
(* answer and an answer of 429 or 5xx keep it; each is tried again unless  *)
(* the tries are used up or the delay would pass the deadline.             *)
Disturbed(c) ==
    /\ At(c, "in_flight")
    /\ \E status \in {"released", "consumed"} : Settled(c, status)
    /\ \/ tries[c] < MaxTries /\ Move(c, "ready") /\ UNCHANGED <<outcome, left, tries>>
       \/ Decide(c, "failed") /\ Forget(c)
    /\ UNCHANGED <<environment, invocation>>

(* _request: a redirect, 403 or another 4xx ends the call at once. *)
Rejected(c) ==
    /\ At(c, "in_flight")
    /\ Settled(c, "consumed")
    /\ Decide(c, "failed") /\ Forget(c)
    /\ UNCHANGED <<environment, invocation>>

(* The dispatch ends where it stands.  No clause of _request catches the   *)
(* CancelledError of asyncio.wait_for, nor an httpx error that is neither  *)
(* a timeout nor a network error (a server that disconnects, a proxy, an   *)
(* encoding), nor a failure of the database: a reservation in flight stays *)
(* reserved.                                                               *)
Interrupted(c, end) ==
    /\ At(c, "ready") \/ At(c, "in_flight")
    /\ Decide(c, end) /\ Forget(c)
    /\ booking' = [booking EXCEPT ![c] = 0]
    /\ UNCHANGED <<environment, invocation, rows, quota>>
TimeOut(c) == Interrupted(c, "timed_out")
Escapes(c) == Interrupted(c, "internal")

(* _finish_invocation, and the return to the caller. *)
Recorded(end) == IF end = "internal" THEN "failed" ELSE end
Finish(c) ==
    /\ At(c, "finishing")
    /\ invocation' = [invocation EXCEPT ![c] = IF @ = "running" THEN Recorded(outcome[c]) ELSE @]
    /\ Move(c, "done")
    /\ UNCHANGED <<environment, outcome, network>>

(* The life of an attempt as module Runtime has it: it is cancelled, it is *)
(* ended under its worker by recovery, or it succeeds when its calls have  *)
(* returned.  Bound: a cancellation, a crash and a midnight come during a  *)
(* call, where they matter here.                                           *)
CallsOf(a) == {c \in Calls : AttemptOf[c] = a}
InCall(a) == \E c \in CallsOf(a) : step[c] \notin {"idle", "done", "dead"}
CancelRequested(a) ==
    /\ attempt[a] = "running" /\ InCall(a)
    /\ attempt' = [attempt EXCEPT ![a] = "cancelling"]
    /\ UNCHANGED <<worker, today, step, invocation, outcome, network>>
AttemptEnds(a) ==
    /\ \/ attempt[a] = "running" /\ attempt' = [attempt EXCEPT ![a] = "failed"]
       \/ attempt[a] = "cancelling" /\ attempt' = [attempt EXCEPT ![a] = "cancelled"]
    /\ UNCHANGED <<worker, today, step, invocation, outcome, network>>
AttemptSucceeds(a) ==
    /\ attempt[a] = "running" /\ worker[a]
    /\ \A c \in CallsOf(a) : step[c] = "done"
    /\ attempt' = [attempt EXCEPT ![a] = "succeeded"]
    /\ UNCHANGED <<worker, today, step, invocation, outcome, network>>

Dropped(c, a) == AttemptOf[c] = a /\ step[c] # "done"
WorkerDies(a) ==
    /\ worker[a] /\ InCall(a)
    /\ worker' = [worker EXCEPT ![a] = FALSE]
    /\ step' = [c \in Calls |-> IF Dropped(c, a) THEN "dead" ELSE step[c]]
    /\ left' = [c \in Calls |-> IF Dropped(c, a) THEN Requests[c] ELSE left[c]]
    /\ tries' = [c \in Calls |-> IF Dropped(c, a) THEN 0 ELSE tries[c]]
    /\ booking' = [c \in Calls |-> IF Dropped(c, a) THEN 0 ELSE booking[c]]
    /\ UNCHANGED <<attempt, today, invocation, outcome, rows, quota>>

(* recover_stale_invocations: running invocations of attempts that ended. *)
Abandoned_Slip(c) == invocation[c] = "running" /\ attempt[AttemptOf[c]] = "failed"
Abandoned(c) == invocation[c] = "running" /\ attempt[AttemptOf[c]] \notin {"running", "cancelling"}
Recover ==
    /\ \E c \in Calls : Abandoned(c)
    /\ invocation' = [c \in Calls |->
           IF ~Abandoned(c) THEN invocation[c]
           ELSE IF attempt[AttemptOf[c]] = "cancelled" THEN "cancelled" ELSE "failed"]
    /\ UNCHANGED <<environment, step, outcome, network>>

Midnight ==
    /\ today < Days /\ \E a \in Attempts : InCall(a)
    /\ today' = today + 1
    /\ UNCHANGED <<attempt, worker, step, invocation, outcome, network>>

CallStep(c) ==
    \/ Begin(c) \/ GiveUp(c) \/ CheckCancelled(c) \/ RunLocally(c) \/ Reserve(c)
    \/ Answered(c) \/ Disturbed(c) \/ Rejected(c) \/ TimeOut(c) \/ Escapes(c) \/ Finish(c)

AttemptStep(a) ==
    \/ AttemptSucceeds(a)
    \/ a \in Fragile /\ (CancelRequested(a) \/ AttemptEnds(a) \/ WorkerDies(a))

Next ==
    \/ \E c \in Calls : Authorize(c) \/ CallStep(c)
    \/ \E a \in Attempts : AttemptStep(a)
    \/ Recover
    \/ Midnight

Spec == Init /\ [][Next]_vars

(* A worker that is alive goes on with its call, whose waits are bounded   *)
(* by a deadline; the attempt of a worker that died or that is cancelled   *)
(* ends (module Runtime); recovery runs periodically.                      *)
Fairness ==
    /\ \A c \in Calls : WF_vars(CallStep(c))
    /\ \A a \in Attempts : WF_vars(AttemptEnds(a) /\ (~worker[a] \/ attempt[a] = "cancelling"))
    /\ WF_vars(Recover)

FairSpec == Spec /\ Fairness

-----------------------------------------------------------------------------

(* The counters of every bucket and day are the reservations behind them   *)
(* and stay within the daily limit, also for requests answered after       *)
(* midnight.  Units that no request in flight will settle, which nothing   *)
(* ever returns to the bucket, are at most one per call, and of a call     *)
(* that timed out, lost its worker or met an exception nobody handles: one *)
(* that succeeded, was refused or cancelled, or failed with an error of    *)
(* its own has settled whatever it booked, over all its requests and tries *)
(* (reserve_quota, finalize_quota, invoke_tool).                           *)
QuotaAccounted ==
    /\ \A p \in Pools :
           LET of == {c \in Calls : BucketOf[c] = p[1]} IN
           /\ quota[p].reserved = SumFunction([c \in of |-> rows[c][p[2]].reserved])
           /\ quota[p].consumed = SumFunction([c \in of |-> rows[c][p[2]].consumed])
           /\ Used(p) =< Limit
    /\ \A c \in Calls :
           LET open == SumFunction([d \in 1..Days |-> rows[c][d].reserved]) IN
           \/ open = 0
           \/ open = 1 /\ (step[c] \in {"in_flight", "dead"} \/ outcome[c] \in Abrupt)

(* What a live attempt is told agrees with the durable record: a result it *)
(* may use belongs to an invocation recorded as succeeded, and the calls   *)
(* it is dispatching hold a slot each, so they stay within the concurrency *)
(* of the tool although recovery closes invocations from outside           *)
(* (_begin_invocation, _finish_invocation, recover_stale_invocations).     *)
Dispatching(k) ==
    {c \in Calls : SlotOf[c] = k /\ Running(c) /\ step[c] \in {"admitted", "ready", "in_flight"}}
ResultsRecorded ==
    /\ \A c \in Calls : step[c] = "done" /\ outcome[c] = "succeeded" =>
           \/ invocation[c] = "succeeded"
           \/ attempt[AttemptOf[c]] \in {"failed", "cancelled"}
    /\ \A c \in Calls : Cardinality(Dispatching(SlotOf[c])) =< MaxConcurrency

(* A call that starts ends, and its invocation with it: by its own worker, *)
(* or after a crash by the recovery job (invoke_tool,                      *)
(* recover_stale_invocations).                                             *)
CallsEnd ==
    \A c \in Calls : (step[c] # "idle") ~> (step[c] \in {"done", "dead"} /\ invocation[c] # "running")
=============================================================================
