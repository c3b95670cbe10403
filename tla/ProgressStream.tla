--------------------------- MODULE ProgressStream ---------------------------
(***************************************************************************)
(* The public progress of one run, from the transaction that appends an    *)
(* event to the browser that follows it: the sequence of the run in        *)
(* PostgreSQL, the outbox rows a relay publishes to a Redis stream, the    *)
(* reads that prefer the stream and fall back to PostgreSQL, the           *)
(* connection of the events endpoint, and the browser's cursor.            *)
(*                                                                         *)
(* Events are their sequence numbers: a progress row and its payload never *)
(* change once appended.  Operators named _Slip: see module Runtime.       *)
(***************************************************************************)
EXTENDS Integers, FiniteSets, Sequences, RunContracts

CONSTANTS
    Relays,       \* relay passes
    Browsers,     \* browsers that follow the run
    PageLimit,    \* the `limit' the endpoint reads with
    StreamMax,    \* run_event_stream_max_length
    MaxEvents,    \* bound: events of the run
    MaxFaults,    \* bound: faults in a behavior
    Faults        \* what may go wrong

StreamFaults == {"lease",       \* a row's lease lapses under a live relay
                 "crash",       \* a relay process dies
                 "outage",      \* a Redis command fails, applied or not
                 "rollback",    \* Redis loses its newest entries, or the whole key
                 "disconnect"}  \* the connection of the browser drops

ProgressAssumption ==
    /\ PageLimit \in Nat \ {0}
    /\ StreamMax \in Nat \ {0}
    /\ MaxEvents \in Nat \ {0}
    /\ MaxFaults \in Nat
    /\ Faults \subseteq StreamFaults

Event == 1..MaxEvents

VARIABLES
    sequence,  \* AnalysisRun.progress_sequence
    ended,     \* the status of the run is terminal
    reopened,  \* a manual retry has reopened the run
    row,       \* RuntimeOutbox.status of the publication of each event
    relay,     \* what each relay pass is doing, and to which event
    stream,    \* the entries of the Redis stream
    lastId,    \* its last generated id, 0 without the key
    lost,      \* ghost: Redis has lost something it acknowledged
    conn,      \* the connection of each browser to the events endpoint
    seen,      \* the cursor of each browser
    faults     \* faults so far

vars == <<sequence, ended, reopened, row, relay, stream, lastId, lost, conn, seen, faults>>

runVars == <<sequence, ended, reopened>>
redisVars == <<stream, lastId, lost>>
clientVars == <<conn, seen>>

RelayStage == {"idle", "check", "add", "mark", "fail"}
ConnStage == {"closed", "status", "count", "redis", "postgres", "deliver", "gap", "done"}

TypeOK ==
    /\ sequence \in Event
    /\ ended \in BOOLEAN
    /\ reopened \in BOOLEAN
    /\ row \in [Event -> OutboxStatus \cup {"none"}]
    /\ relay \in [Relays -> [stage : RelayStage, event : Event]]
    /\ stream \subseteq Event
    /\ lastId \in 0..MaxEvents
    /\ lost \in BOOLEAN
    /\ conn \in [Browsers -> [stage : ConnStage, current : 0..MaxEvents, ended : BOOLEAN,
                              sequence : 0..MaxEvents, known : 0..MaxEvents, batch : Seq(Event)]]
    /\ seen \in [Browsers -> 0..MaxEvents]
    /\ faults \in 0..MaxFaults

NoConnection == [stage |-> "closed", current |-> 0, ended |-> FALSE,
                 sequence |-> 0, known |-> 0, batch |-> <<>>]

Idle == [stage |-> "idle", event |-> 1]

\* create_run appends the first event.
Init ==
    /\ sequence = 1
    /\ ended = FALSE
    /\ reopened = FALSE
    /\ row = [n \in Event |-> IF n = 1 THEN "pending" ELSE "none"]
    /\ relay = [r \in Relays |-> Idle]
    /\ stream = {}
    /\ lastId = 0
    /\ lost = FALSE
    /\ conn = [b \in Browsers |-> NoConnection]
    /\ seen = [b \in Browsers |-> 0]
    /\ faults = 0

Fault(kind) ==
    /\ kind \in Faults
    /\ faults < MaxFaults
    /\ faults' = faults + 1

-----------------------------------------------------------------------------
(* The run *)

\* append_progress, with the publication row in the same transaction.
AppendProgress ==
    /\ ~ended
    /\ sequence < MaxEvents
    /\ sequence' = sequence + 1
    /\ row' = [row EXCEPT ![sequence + 1] = "pending"]
    /\ ended' \in BOOLEAN         \* the event of a finalisation ends the run
    /\ UNCHANGED <<reopened, relay, redisVars, clientVars, faults>>

\* retry_task on a finished run: no event of its own.
Reopen ==
    /\ ended
    /\ ~reopened
    /\ ended' = FALSE
    /\ reopened' = TRUE
    /\ UNCHANGED <<sequence, row, relay, redisVars, clientVars, faults>>

-----------------------------------------------------------------------------
(* The relay *)

Held(n) == \E r \in Relays : relay[r].stage # "idle" /\ relay[r].event = n

Goto(r, stage) == relay' = [relay EXCEPT ![r].stage = stage]

\* A pending row, or one whose lease has lapsed; failures back off, so that
\* any such row may be the next.
ClaimNext(r, n) ==
    /\ relay[r].stage = "idle"
    /\ \/ row[n] = "pending" /\ UNCHANGED faults
       \/ row[n] = "processing" /\ ~Held(n) /\ UNCHANGED faults
       \/ row[n] = "processing" /\ Held(n) /\ Fault("lease")
    /\ row' = [row EXCEPT ![n] = "processing"]
    /\ relay' = [relay EXCEPT ![r] = [stage |-> "check", event |-> n]]
    /\ UNCHANGED <<runVars, redisVars, clientVars>>

PredecessorPending_Slip(n) == n > 1 /\ row[n - 1] = "pending"

PredecessorPending(n) == \E m \in Event : m < n /\ row[m] \notin {"none", "published"}

CheckPredecessor(r) ==
    /\ relay[r].stage = "check"
    /\ Goto(r, IF PredecessorPending(relay[r].event) THEN "fail" ELSE "add")
    /\ UNCHANGED <<runVars, row, redisVars, clientVars, faults>>

Newest(S, k) == {n \in S : Cardinality({m \in S : m > n}) < k}

\* XADD with the sequence as id and an approximate MAXLEN: Redis trims to the
\* maximum or not at all.
Entries(n) == {stream \cup {n}, Newest(stream \cup {n}, StreamMax)}

XAdd(n) ==
    /\ n > lastId
    /\ stream' \in Entries(n)
    /\ lastId' = n
    /\ UNCHANGED lost

AlreadyThere_Slip(n) == FALSE

\* XADD refused an id that is not the largest; the same entry is there already.
AlreadyThere(n) == n <= lastId /\ n \in stream

AddToStream(r) ==
    LET n == relay[r].event IN
    /\ relay[r].stage = "add"
    /\ \/ /\ XAdd(n)
          /\ Goto(r, "mark")
          /\ UNCHANGED faults
       \/ /\ n <= lastId
          /\ Goto(r, IF AlreadyThere(n) THEN "mark" ELSE "fail")
          /\ UNCHANGED <<redisVars, faults>>
       \/ /\ Fault("outage")
          /\ Goto(r, "fail")
          /\ XAdd(n) \/ UNCHANGED redisVars
    /\ UNCHANGED <<runVars, row, clientVars>>

\* Both outcomes are recorded only while the row still says `processing'.
Settle(r, status) ==
    /\ row' = [row EXCEPT ![relay[r].event] = IF @ = "processing" THEN status ELSE @]
    /\ relay' = [relay EXCEPT ![r] = Idle]
    /\ UNCHANGED <<runVars, redisVars, clientVars, faults>>

MarkPublished(r) == relay[r].stage = "mark" /\ Settle(r, "published")

MarkFailed(r) == relay[r].stage = "fail" /\ Settle(r, "pending")

RelayDies(r) ==
    /\ relay[r].stage # "idle"
    /\ Fault("crash")
    /\ relay' = [relay EXCEPT ![r] = Idle]
    /\ UNCHANGED <<runVars, row, redisVars, clientVars>>

\* Redis comes back with an older copy of the key, or the key has expired.
LoseEntries ==
    /\ Fault("rollback")
    /\ \E k \in 0..(lastId - 1) :
        /\ stream' = {n \in stream : n <= k}
        /\ lastId' = k
    /\ lost' = TRUE
    /\ UNCHANGED <<runVars, row, relay, clientVars>>

-----------------------------------------------------------------------------
(* The connection *)

elsewhere == <<runVars, row, relay, redisVars>>

Least(S, k) == {n \in S : Cardinality({m \in S : m < n}) < k}

\* Entries as Redis returns them, by their ids.
InOrder(S) == [i \in 1..Cardinality(S) |-> CHOOSE n \in S : Cardinality({m \in S : m < n}) = i - 1]

Smaller(a, b) == IF a < b THEN a ELSE b

Following(from, k) == [i \in 1..k |-> from + i]

\* readEvents: the request carries the browser's cursor, which the endpoint
\* accepts unless it is ahead of the run.
Connect(b) ==
    /\ conn[b].stage = "closed"
    /\ seen[b] <= sequence
    /\ conn' = [conn EXCEPT ![b].stage = "status", ![b].current = seen[b]]
    /\ UNCHANGED <<elsewhere, seen, faults>>

ReadStatus(b) ==
    /\ conn[b].stage = "status"
    /\ conn' = [conn EXCEPT ![b].stage = "count", ![b].ended = ended,
                            ![b].sequence = sequence]
    /\ UNCHANGED <<elsewhere, seen, faults>>

\* read_progress: the sequence is read first, the stream afterwards.
ReadCount(b) ==
    /\ conn[b].stage = "count"
    /\ conn' = [conn EXCEPT
                   ![b].stage = IF conn[b].current >= sequence THEN "deliver" ELSE "redis",
                   ![b].known = sequence]
    /\ UNCHANGED <<elsewhere, seen, faults>>

Usable_Slip(c, page) == page # {}

\* The page has every event the sequence promises, without a gap.
Usable(c, page) ==
    page = {c.current + i : i \in 1..Smaller(c.known - c.current, PageLimit)}

ReadStream(b) ==
    LET c    == conn[b]
        page == Least({n \in stream : n > c.current}, PageLimit)
    IN  /\ c.stage = "redis"
        /\ \/ /\ Usable(c, page)
              /\ conn' = [conn EXCEPT ![b].stage = "deliver",
                                      ![b].batch = InOrder(page)]
              /\ UNCHANGED faults
           \/ /\ ~Usable(c, page)
              /\ conn' = [conn EXCEPT ![b].stage = "postgres"]
              /\ UNCHANGED faults
           \/ /\ Fault("outage")
              /\ conn' = [conn EXCEPT ![b].stage = "postgres"]
        /\ UNCHANGED <<elsewhere, seen>>

ReadPostgres_Slip(b) ==
    /\ conn[b].stage = "postgres"
    /\ conn' = [conn EXCEPT ![b].stage = "deliver"]
    /\ UNCHANGED <<elsewhere, seen, faults>>

ReadPostgres(b) ==
    LET k == Smaller(sequence - conn[b].current, PageLimit) IN
    /\ conn[b].stage = "postgres"
    /\ conn' = [conn EXCEPT ![b].stage = "deliver",
                            ![b].batch = Following(conn[b].current, k)]
    /\ UNCHANGED <<elsewhere, seen, faults>>

\* The browser refuses a gap, and its cursor never goes back.
Deliver(b) ==
    LET n == Head(conn[b].batch) IN
    /\ conn[b].stage = "deliver"
    /\ conn[b].batch # <<>>
    /\ \/ /\ n > conn[b].current + 1
          /\ conn' = [conn EXCEPT ![b].stage = "gap"]
          /\ UNCHANGED seen
       \/ /\ n <= conn[b].current + 1
          /\ conn' = [conn EXCEPT ![b].batch = Tail(@), ![b].current = n]
          /\ seen' = [seen EXCEPT ![b] = IF n > @ THEN n ELSE @]
    /\ UNCHANGED <<elsewhere, faults>>

Finished_Slip(c) == c.ended

\* By the status and the sequence the pass began with.
Finished(c) == c.ended /\ c.current >= c.sequence

EndPass(b) ==
    /\ conn[b].stage = "deliver"
    /\ conn[b].batch = <<>>
    /\ conn' = [conn EXCEPT
                   ![b] = [NoConnection EXCEPT
                              !.stage = IF Finished(conn[b]) THEN "done" ELSE "status",
                              !.current = conn[b].current]]
    /\ UNCHANGED <<elsewhere, seen, faults>>

\* The browser reconnects after an error, and after a stream that closed
\* under a run that goes on.
Reconnect(b) ==
    /\ conn[b].stage = "gap" \/ (conn[b].stage = "done" /\ ~ended)
    /\ conn' = [conn EXCEPT ![b] = NoConnection]
    /\ UNCHANGED <<elsewhere, seen, faults>>

Disconnect(b) ==
    /\ conn[b].stage \notin {"closed", "done"}
    /\ Fault("disconnect")
    /\ conn' = [conn EXCEPT ![b] = NoConnection]
    /\ UNCHANGED <<elsewhere, seen>>

\* refresh: the browser asks for the state of the run, every few seconds and
\* after an event, and its cursor jumps to the sequence it is told.
Poll(b) ==
    /\ seen[b] < sequence
    /\ seen' = [seen EXCEPT ![b] = sequence]
    /\ UNCHANGED <<elsewhere, conn, faults>>

-----------------------------------------------------------------------------

Run == AppendProgress \/ Reopen

Publish(r) ==
    \/ CheckPredecessor(r)
    \/ AddToStream(r)
    \/ MarkPublished(r)
    \/ MarkFailed(r)

Stream(b) ==
    \/ Connect(b)
    \/ ReadStatus(b)
    \/ ReadCount(b)
    \/ ReadStream(b)
    \/ ReadPostgres(b)
    \/ Deliver(b)
    \/ EndPass(b)
    \/ Reconnect(b)

Next ==
    \/ Run
    \/ \E r \in Relays : \E n \in Event : ClaimNext(r, n)
    \/ \E r \in Relays : Publish(r) \/ RelayDies(r)
    \/ LoseEntries
    \/ \E b \in Browsers : Stream(b) \/ Disconnect(b) \/ Poll(b)

Spec == Init /\ [][Next]_vars

\* The relay job runs every few seconds, takes the row that has been due for
\* longest, and a pass ends; the endpoint's loop and the browser's reconnect
\* loop go on.  The browser may never poll.
FairSpec ==
    /\ Spec
    /\ \A r \in Relays : WF_vars(Publish(r))
    /\ \A n \in Event : SF_vars(\E r \in Relays : ClaimNext(r, n))
    /\ \A b \in Browsers : WF_vars(Stream(b))

-----------------------------------------------------------------------------
(* Properties *)

\* Whatever Redis lost and however often an event was published, what a read
\* returns starts right after the cursor and has no hole and no repetition:
\* read_progress notices a hole and reads PostgreSQL, so the browser's
\* stream_gap error never fires.
NoGap ==
    \A b \in Browsers :
        /\ conn[b].stage # "gap"
        /\ \A i \in DOMAIN conn[b].batch : conn[b].batch[i] = conn[b].current + i

\* A connection closes only when it has delivered the whole progress of a run
\* that ended: the status, the sequence and the events are read in three
\* transactions, and events keep coming between them.
ClosedIsComplete ==
    \A b \in Browsers :
        conn[b].stage = "done" /\ ~reopened => conn[b].current = sequence

\* As long as Redis keeps what it acknowledged, the stream is a suffix of the
\* published progress with no hole, and a published row never has an
\* unpublished one before it, also when two relays hold the same row, a relay
\* dies, or a command fails after Redis applied it.
Mirrored ==
    /\ \A n \in Event : row[n] = "published" =>
          n <= lastId /\ \A m \in 1..n : row[m] = "published"
    /\ \A n \in 1..lastId : (\E m \in stream : m <= n) => n \in stream
MirrorInOrder == ~lost => Mirrored

\* Every event is published in the end: no failed, crashed or doubled
\* publication leaves a row that the head of the line cannot get past.
EventsPublished == \A n \in Event : row[n] # "none" ~> row[n] = "published"

\* The connection of a run that has ended closes, even if Redis lost events
\* it will never be sent again.
StreamCloses == \A b \in Browsers : []<>(~ended \/ conn[b].stage = "done")
=============================================================================
