----------------------------- MODULE Admission ------------------------------
(***************************************************************************)
(* Admission of public analyses: create_analysis of public/admission.py.   *)
(* A request holds the row locks of its session and of the active          *)
(* configuration from its first look at them to its commit or rollback; in *)
(* between it reads the submissions and runs of PostgreSQL and the rate    *)
(* windows of Redis, reserves a place in three windows by one script, and  *)
(* creates the run.  Runs progress, time passes and requests break off     *)
(* meanwhile.                                                              *)
(*                                                                         *)
(* A run and its RunSubmission are named by the request that created them, *)
(* and so are its reservations.  Operators named _Slip: see module Runtime.*)
(***************************************************************************)
EXTENDS Integers, FiniteSets, FiniteSetsExt

CONSTANTS
    Requests,      \* requests to create a public analysis
    SessionOf,     \* the anonymous session of each request
    AddressOf,     \* its ip_hash
    MayAsk,        \* what each request may send: an Idempotency-Key and a request hash
    PerHour,       \* public_runs_per_hour
    PerDay,        \* public_runs_per_day
    Concurrent,    \* public_concurrent_runs
    QueueCapacity, \* public_queue_capacity
    Hour, Day,     \* length of an hour and a day in ticks of the clock
    MaxTime,       \* bound: ticks of the clock
    MaxFaults,     \* bound: how often something does
    Faults         \* what may come in between

AdmissionFaults == {"crash",       \* the process of a request dies
                    "disconnect",  \* a request loses its database connection
                    "outage",      \* a Redis command fails, applied or not
                    "loss",        \* Redis loses its data
                    "retry"}       \* a manual retry reopens a run that ended

ASSUME AdmissionAssumption ==
    /\ IsFiniteSet(Requests)
    /\ {PerHour, PerDay, Concurrent, QueueCapacity} \subseteq Nat
    /\ Hour \in Nat \ {0} /\ Day \in Nat \ {0} /\ Hour <= Day
    /\ MaxTime \in Nat
    /\ MaxFaults \in Nat
    /\ Faults \subseteq AdmissionFaults

VARIABLES
    now,       \* the clock
    sent,      \* the Idempotency-Key and the request hash of each request
    stage,     \* where each request is
    holder,    \* the requests that hold the configuration row: at most one
    began,     \* created_at: the start of the transaction of the request
    reserved,  \* the score of its reservations: when the script ran
    tokens,    \* reservations in Redis, <<window, request>>
    status,    \* AnalysisRun.status of the run it created
    reopened,  \* runs a manual retry has reopened
    faults     \* how often something came in between

vars == <<now, sent, stage, holder, began, reserved, tokens, status, reopened, faults>>

Stage == {"idle", "waiting", "checking", "checked", "reserved", "releasing",
          "created", "replayed", "conflict", "refused", "dead"}

Keys == <<"hourly", "daily_ip", "daily_session">>
Windows == {Keys[i] : i \in DOMAIN Keys}

TypeOK ==
    /\ now \in 0..MaxTime
    /\ \A r \in Requests : sent[r] \in MayAsk[r]
    /\ stage \in [Requests -> Stage]
    /\ holder \subseteq Requests /\ Cardinality(holder) <= 1
    /\ began \in [Requests -> 0..MaxTime]
    /\ reserved \in [Requests -> 0..MaxTime]
    /\ tokens \subseteq Windows \X Requests
    /\ status \in [Requests -> {"none", "queued", "running", "ended"}]
    /\ reopened \subseteq Requests
    /\ faults \in 0..MaxFaults

Init ==
    /\ now = 0
    /\ sent \in {f \in [Requests -> UNION {MayAsk[r] : r \in Requests}] :
                    \A r \in Requests : f[r] \in MayAsk[r]}
    /\ stage = [r \in Requests |-> "idle"]
    /\ holder = {}
    /\ began = [r \in Requests |-> 0]
    /\ reserved = [r \in Requests |-> 0]
    /\ tokens = {}
    /\ status = [r \in Requests |-> "none"]
    /\ reopened = {}
    /\ faults = 0

Goto(r, s) == stage' = [stage EXCEPT ![r] = s]

\* The request ends; the time it began is kept only by its row.
Leave(r, s) ==
    /\ Goto(r, s)
    /\ began' = IF status[r] = "none" THEN [began EXCEPT ![r] = 0] ELSE began

Fault(kind) ==
    /\ kind \in Faults
    /\ faults < MaxFaults
    /\ faults' = faults + 1

runVars == <<status, reopened>>
timeVars == <<now, began, reserved>>

-----------------------------------------------------------------------------
(* The windows *)

Submissions == {q \in Requests : status[q] # "none"}

Length(w) == IF w = "hourly" THEN Hour ELSE Day

Limit(w) == IF w = "hourly" THEN PerHour ELSE PerDay

\* The requests that share window w with r.
Sharing(w, r) == {q \in Requests : IF w = "daily_session"
                                   THEN SessionOf[q] = SessionOf[r]
                                   ELSE AddressOf[q] = AddressOf[r]}

\* Submissions that count at time t: created_at is after t minus the window.
Counted(w, r, t) ==
    {q \in Submissions \cap Sharing(w, r) : began[q] > t - Length(w)}

Held_Slip(w, r, t) ==
    {q \in Sharing(w, r) : <<w, q>> \in tokens /\ reserved[q] > t - Hour}

\* Reservations that count at time t: the script removes the older ones.
Held(w, r, t) ==
    {q \in Sharing(w, r) : <<w, q>> \in tokens /\ reserved[q] > t - Length(w)}

Full(S, w) == Cardinality(S) >= Limit(w)

\* The time of the n-th oldest of S.
TimeOf(f, S, n) ==
    CHOOSE t \in {f[q] : q \in S} :
        /\ Cardinality({q \in S : f[q] < t}) <= n
        /\ Cardinality({q \in S : f[q] <= t}) > n

\* When S, which fills the window, will have room for one more.
RoomAt(f, S, w) == TimeOf(f, S, Cardinality(S) - Limit(w)) + Length(w)

Denied(r) == {w \in Windows : Full(Counted(w, r, now), w) \/ Full(Held(w, r, now), w)}

ResetTimes(r) ==
    {RoomAt(began, Counted(w, r, now), w) :
        w \in {v \in Windows : Limit(v) > 0 /\ Full(Counted(v, r, now), v)}}
    \cup {RoomAt(reserved, Held(w, r, now), w) :
            w \in {v \in Windows : Limit(v) > 0 /\ Full(Held(v, r, now), v)}}

RetryAt_Slip(times) == Min(times)

\* _recovery: retry_at.
RetryAt(times) == Max(times)

ActiveRuns_Slip(r) ==
    {q \in Requests : SessionOf[q] = SessionOf[r] /\ status[q] = "queued"}

ActiveRuns(r) ==
    {q \in Requests : SessionOf[q] = SessionOf[r] /\ status[q] \in {"queued", "running"}}

Queued == {q \in Requests : status[q] = "queued"}

QueueFull == Cardinality(Queued) >= QueueCapacity

-----------------------------------------------------------------------------
(* create_analysis *)

\* The transaction begins when the session is resolved.
Begin(r) ==
    /\ stage[r] = "idle"
    /\ Goto(r, "waiting")
    /\ began' = [began EXCEPT ![r] = now]
    /\ UNCHANGED <<now, reserved, sent, holder, tokens, runVars, faults>>

\* The submission of the same session under the same key.
Existing(r) == {q \in Submissions : SessionOf[q] = SessionOf[r] /\ sent[q].key = sent[r].key}

\* The row lock, and the answer to a repeated request, which releases it.
Lock(r) ==
    /\ stage[r] = "waiting"
    /\ holder = {}
    /\ IF Existing(r) = {}
       THEN Goto(r, "checking") /\ holder' = {r} /\ UNCHANGED began
       ELSE /\ Leave(r, IF \E q \in Existing(r) : sent[q].hash # sent[r].hash
                        THEN "conflict" ELSE "replayed")
            /\ UNCHANGED holder
    /\ UNCHANGED <<now, reserved, sent, tokens, runVars, faults>>

\* _limits, _quota_decision, the queue and the daily budget; the latter, the
\* kill switch and the configuration may refuse at any time.
Admissible(r) ==
    /\ Denied(r) = {}
    /\ Cardinality(ActiveRuns(r)) < Concurrent
    /\ ~QueueFull

Check(r) ==
    /\ stage[r] = "checking"
    /\ r \in holder
    /\ Admissible(r)
    /\ Goto(r, "checked")
    /\ UNCHANGED <<timeVars, sent, holder, tokens, runVars, faults>>

Refuse(r) ==
    /\ stage[r] = "checking"
    /\ Leave(r, "refused")
    /\ holder' = holder \ {r}
    /\ UNCHANGED <<now, reserved, sent, tokens, runVars, faults>>

\* The windows the script finds full.
Blocked(r) == {w \in Windows : Full(Held(w, r, now), w)}

\* _reserve_rate: the script adds to all windows or to none.  It does not
\* touch the database: a request that lost its connection gets here as well.
Reserve(r) ==
    /\ stage[r] = "checked"
    /\ Blocked(r) = {}
    /\ tokens' = tokens \cup (Windows \X {r})
    /\ reserved' = [reserved EXCEPT ![r] = now]
    /\ Goto(r, "reserved")
    /\ UNCHANGED <<now, began, sent, holder, runVars, faults>>

ReserveDenied(r) ==
    /\ stage[r] = "checked"
    /\ Blocked(r) # {}
    /\ Leave(r, "refused")
    /\ holder' = holder \ {r}
    /\ UNCHANGED <<now, reserved, sent, tokens, runVars, faults>>

\* The client does not know the keys of a script whose answer was lost: there
\* is no release.
ReserveFails(r) ==
    /\ Fault("outage")
    /\ stage[r] = "checked"
    /\ \/ UNCHANGED <<tokens, reserved>>
       \/ /\ Blocked(r) = {}
          /\ tokens' = tokens \cup (Windows \X {r})
          /\ reserved' = [reserved EXCEPT ![r] = now]
    /\ Leave(r, "dead")
    /\ holder' = holder \ {r}
    /\ UNCHANGED <<now, sent, runVars>>

Taken(r) == \E q \in Submissions : SessionOf[q] = SessionOf[r] /\ sent[q].key = sent[r].key

\* create_run, the submission and the commit.
Create(r) ==
    /\ stage[r] = "reserved"
    /\ r \in holder
    /\ ~Taken(r)          \* uq_run_submissions_actor_key
    /\ status' = [status EXCEPT ![r] = "queued"]
    /\ Goto(r, "created")
    /\ holder' = {}
    /\ UNCHANGED <<timeVars, sent, tokens, reopened, faults>>

\* The commit takes effect but its answer is lost: the request treats the run
\* as rolled back and gives its reservation away.
CommitUnanswered(r) ==
    /\ Fault("disconnect")
    /\ stage[r] = "reserved"
    /\ r \in holder
    /\ ~Taken(r)
    /\ status' = [status EXCEPT ![r] = "queued"]
    /\ Goto(r, "releasing")
    /\ holder' = {}
    /\ UNCHANGED <<timeVars, sent, tokens, reopened>>

Rollback_Slip(r) ==
    /\ stage[r] = "reserved"
    /\ Leave(r, "refused")
    /\ holder' = holder \ {r}
    /\ UNCHANGED <<now, reserved, sent, tokens, runVars, faults>>

\* Any exception after the reservation: the lock goes before the reservation.
Rollback(r) ==
    /\ stage[r] = "reserved"
    /\ Goto(r, "releasing")
    /\ holder' = holder \ {r}
    /\ UNCHANGED <<timeVars, sent, tokens, runVars, faults>>

\* _release_rate: one key at a time, and an error ends it silently.
Release(r) ==
    /\ stage[r] = "releasing"
    /\ \/ \E i \in DOMAIN Keys :
             /\ <<Keys[i], r>> \in tokens
             /\ \A j \in 1..(i - 1) : <<Keys[j], r>> \notin tokens
             /\ tokens' = tokens \ {<<Keys[i], r>>}
             /\ UNCHANGED <<stage, began, reserved, faults>>
       \/ /\ \A w \in Windows : <<w, r>> \notin tokens
          /\ Leave(r, "refused")
          /\ reserved' = IF status[r] = "none" THEN [reserved EXCEPT ![r] = 0] ELSE reserved
          /\ UNCHANGED <<tokens, faults>>
       \/ /\ Fault("outage")
          /\ Leave(r, "dead")
          /\ UNCHANGED <<tokens, reserved>>
    /\ UNCHANGED <<now, sent, holder, runVars>>

-----------------------------------------------------------------------------
(* What happens around it *)

Working == {"waiting", "checking", "checked", "reserved", "releasing"}

\* The database rolls back what the process had not committed.
Crash(r) ==
    /\ Fault("crash")
    /\ stage[r] \in Working
    /\ Leave(r, "dead")
    /\ holder' = holder \ {r}
    /\ UNCHANGED <<now, reserved, sent, tokens, runVars>>

\* ... or what its connection had not: the process notices later.
Disconnect(r) ==
    /\ Fault("disconnect")
    /\ r \in holder
    /\ holder' = {}
    /\ UNCHANGED <<stage, timeVars, sent, tokens, runVars>>

LoseData ==
    /\ Fault("loss")
    /\ tokens' = {}
    /\ UNCHANGED <<stage, timeVars, sent, holder, runVars>>

StartRun(r) ==
    /\ status[r] = "queued"
    /\ status' = [status EXCEPT ![r] = "running"]
    /\ UNCHANGED <<stage, timeVars, sent, holder, tokens, reopened, faults>>

EndRun(r) ==
    /\ status[r] \in {"queued", "running"}
    /\ status' = [status EXCEPT ![r] = "ended"]
    /\ UNCHANGED <<stage, timeVars, sent, holder, tokens, reopened, faults>>

\* A manual retry asks for no admission.
ReopenRun(r) ==
    /\ status[r] = "ended"
    /\ Fault("retry")
    /\ status' = [status EXCEPT ![r] = "running"]
    /\ reopened' = reopened \cup {r}
    /\ UNCHANGED <<stage, timeVars, sent, holder, tokens>>

Tick ==
    /\ now < MaxTime
    /\ now' = now + 1
    /\ UNCHANGED <<stage, began, reserved, sent, holder, tokens, runVars, faults>>

-----------------------------------------------------------------------------

Submit(r) ==
    \/ Lock(r)
    \/ Check(r)
    \/ Refuse(r)
    \/ Reserve(r)
    \/ ReserveDenied(r)
    \/ ReserveFails(r)
    \/ Create(r)
    \/ CommitUnanswered(r)
    \/ Rollback(r)
    \/ Release(r)

Next ==
    \/ \E r \in Requests :
        \/ Begin(r) \/ Submit(r) \/ Crash(r) \/ Disconnect(r)
        \/ StartRun(r) \/ EndRun(r) \/ ReopenRun(r)
    \/ LoseData
    \/ Tick

Spec == Init /\ [][Next]_vars

-----------------------------------------------------------------------------
(* Properties *)

\* A request that reached its reservation never collides with the submission
\* of an equal key: concurrent requests with one key are told apart before
\* they cost anything, and the unique constraint is never hit.
NoKeyCollision ==
    \A r \in Requests : stage[r] \in {"checked", "reserved"} /\ r \in holder => ~Taken(r)

Created(w, r, from, to) ==
    {q \in Submissions \cap Sharing(w, r) : from < reserved[q] /\ reserved[q] <= to}

\* In no stretch of an hour or a day are more runs admitted than the limit,
\* however requests of one address overlap, except by runs that PostgreSQL
\* dates too early (created_at is the start of the transaction, which then
\* waited for the lock) in so far as Redis has lost reservations as well, its
\* own data or because the answer to a commit was lost.
AdmissionWindow ==
    \A w \in Windows, r \in Submissions, t \in 0..now :
        LET admitted == Created(w, r, t - Length(w), t)
            misdated == {q \in admitted : began[q] < reserved[q]}
            missing  == {q \in admitted : <<w, q>> \notin tokens}
            excess   == Cardinality(admitted) - Limit(w)
        IN excess > 0 => Cardinality(misdated) >= excess /\ Cardinality(missing) >= excess

\* A session never has more runs under way than it may, except by manual
\* retries, which are not admitted again; and the queue never grows past its
\* capacity.  Both are counted in one statement and grow in another.
RunsWithinLimits ==
    /\ \A r \in Requests :
        Cardinality({q \in Requests : SessionOf[q] = SessionOf[r]
                                       /\ status[q] \in {"queued", "running"}})
            <= Concurrent + Cardinality(reopened)
    /\ Cardinality(Queued) <= QueueCapacity

\* Quota is held by runs that were created, by requests under way, and by
\* requests that died or met an outage of Redis: an orderly refusal or
\* rollback keeps none.
NoLeak == \A w \in Windows, r \in Requests :
    <<w, r>> \in tokens => status[r] # "none" \/ stage[r] \in Working \cup {"dead"}

RoomFor(r, t) == \A w \in Windows : /\ ~Full(Counted(w, r, t), w)
                                    /\ ~Full(Held(w, r, t), w)

\* A refused request that waits until retry_at finds room in every window,
\* unless somebody else is admitted before it.
RetryAtIsEnough ==
    \A r \in Requests :
        stage[r] = "checking" /\ r \in holder /\ ResetTimes(r) # {} =>
            RoomFor(r, RetryAt(ResetTimes(r)))
=============================================================================
