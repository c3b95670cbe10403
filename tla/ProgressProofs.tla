--------------------------- MODULE ProgressProofs ---------------------------
(***************************************************************************)
(* For any number of relays and browsers, any page and stream length and   *)
(* any combination of faults: what a read returns has no gap, a connection *)
(* closes only after the whole progress, and, as long as Redis keeps what  *)
(* it acknowledged, the stream mirrors the progress in order.              *)
(***************************************************************************)
EXTENDS ProgressStream, TLAPS, FiniteSetTheorems, SequenceTheorems

Connection == [stage : ConnStage, current : 0..MaxEvents, ended : BOOLEAN,
               sequence : 0..MaxEvents, known : 0..MaxEvents, batch : Seq(Event)]

(* A connection never runs ahead of the run, and what it read with the     *)
(* status of a run that had ended stays true unless the run is reopened.   *)
Behind(c) ==
    /\ c.stage # "gap"
    /\ c.stage = "closed" => c.batch = <<>>
    /\ c.known <= sequence
    /\ c.current + Len(c.batch) <= sequence
    /\ \A i \in DOMAIN c.batch : c.batch[i] = c.current + i
    /\ c.ended /\ ~reopened => ended /\ c.sequence = sequence
    /\ c.stage = "done" /\ ~reopened => ended /\ c.current = sequence

RunTyped == sequence \in Event /\ ended \in BOOLEAN /\ reopened \in BOOLEAN

Reading ==
    /\ RunTyped
    /\ conn \in [Browsers -> Connection]
    /\ seen \in [Browsers -> 0..MaxEvents]
    /\ \A b \in Browsers : seen[b] <= sequence /\ Behind(conn[b])

LEMMA Positive == ProgressAssumption => MaxEvents \in Nat /\ MaxEvents > 0 /\ 1 \in Event
                                        /\ PageLimit \in Nat /\ Event \subseteq Nat
BY DEF ProgressAssumption, Event

LEMMA ReadingInitially == ProgressAssumption /\ Init => Reading
<1> SUFFICES ASSUME ProgressAssumption, Init PROVE Reading
    OBVIOUS
<1>1. <<>> \in Seq(Event) /\ Len(<<>>) = 0 /\ DOMAIN <<>> = {}
      OBVIOUS
<1>2. NoConnection \in Connection
      BY Positive, <1>1 DEF NoConnection, Connection, ConnStage
<1>3. Behind(NoConnection)
      BY Positive, <1>1 DEF NoConnection, Behind, Init
<1>4. RunTyped
      BY Positive DEF Init, RunTyped
<1>5. \A b \in Browsers : conn[b] = NoConnection /\ seen[b] = 0 /\ seen[b] <= sequence
      BY DEF Init
<1> QED BY Positive, <1>2, <1>3, <1>4, <1>5 DEF Init, Reading

-----------------------------------------------------------------------------
(* The entries of a page without a gap, in their order *)

LEMMA InOrderIs ==
    ASSUME NEW c \in Nat, NEW k \in Nat
    PROVE  InOrder({c + i : i \in 1..k}) = Following(c, k)
<1> DEFINE S == {c + i : i \in 1..k}
<1>1. S = (c + 1)..(c + k)
      OBVIOUS
<1>2. \A a, b \in Int : Cardinality(a..b) = IF a > b THEN 0 ELSE b - a + 1
      BY FS_Interval
<1> HIDE DEF S
<1>3. Cardinality(S) = k
      BY <1>1, <1>2
<1>4. ASSUME NEW i \in 1..k
      PROVE  (CHOOSE n \in S : Cardinality({m \in S : m < n}) = i - 1) = c + i
  <2>1. ASSUME NEW n \in S
        PROVE  Cardinality({m \in S : m < n}) = n - 1 - c
    <3>1. {m \in S : m < n} = (c + 1)..(n - 1)
          BY <1>1, <2>1
    <3>2. n \in Int /\ n - 1 \in Int /\ c + 1 \in Int /\ n >= c + 1
          BY <1>1, <2>1
    <3>3. Cardinality((c + 1)..(n - 1)) =
              IF c + 1 > n - 1 THEN 0 ELSE (n - 1) - (c + 1) + 1
          BY <3>2, <1>2
    <3>4. Cardinality((c + 1)..(n - 1)) = n - 1 - c
          BY <3>2, <3>3
    <3> QED BY <3>1, <3>4
  <2>2. c + i \in S /\ \A n \in S : Cardinality({m \in S : m < n}) = i - 1 <=> n = c + i
    <3>1. c + i \in S /\ \A n \in S : n \in Int
          BY <1>1
    <3> QED BY <3>1, <2>1
  <2> QED BY <2>2
<1>5. InOrder(S) = Following(c, k)
      BY <1>3, <1>4 DEF InOrder, Following
<1> QED BY <1>5 DEF S

LEMMA FollowingIs ==
    ASSUME NEW c \in Nat, NEW k \in Nat, c + k <= MaxEvents, MaxEvents \in Nat
    PROVE  /\ Following(c, k) \in Seq(Event) /\ Len(Following(c, k)) = k
           /\ \A i \in DOMAIN Following(c, k) : Following(c, k)[i] = c + i
BY DEF Following, Event

-----------------------------------------------------------------------------
(* Steps of one connection *)

LEMMA ConnectionKeeps ==
    ASSUME Reading, NEW b \in Browsers, NEW c \in Connection, Behind(c),
           conn' = [conn EXCEPT ![b] = c], UNCHANGED <<runVars, seen>>
    PROVE  Reading'
<1>1. /\ conn' \in [Browsers -> Connection]
      /\ \A d \in Browsers : conn'[d] = IF d = b THEN c ELSE conn[d]
      BY DEF Reading
<1>2. \A d \in Connection : Behind(d) => Behind(d)'
      BY DEF runVars, Behind
<1>3. \A d \in Browsers : conn[d] \in Connection /\ Behind(conn[d]) /\ seen[d] <= sequence
      BY DEF Reading
<1>4. \A d \in Browsers : Behind(conn[d])'
      BY <1>1, <1>2, <1>3 DEF runVars, Behind
<1> QED BY <1>1, <1>3, <1>4 DEF runVars, Reading, RunTyped, Behind

LEMMA ConnectKeeps ==
    ASSUME ProgressAssumption, Reading, NEW b \in Browsers, Connect(b)
    PROVE  Reading'
<1> DEFINE c == [conn[b] EXCEPT !.stage = "status", !.current = seen[b]]
<1>1. conn[b] \in Connection /\ Behind(conn[b]) /\ seen[b] <= sequence /\ seen[b] \in 0..MaxEvents
      BY DEF Reading
<1>2. c \in Connection
      BY <1>1 DEF Connection, ConnStage
<1>3. Behind(c)
      BY <1>1, Positive DEF Connect, Behind, Connection, Reading, RunTyped
<1>4. conn' = [conn EXCEPT ![b] = c]
      BY DEF Connect, Reading, Connection
<1> HIDE DEF c
<1> QED BY <1>2, <1>3, <1>4, ConnectionKeeps DEF Connect, elsewhere

LEMMA ReadStatusKeeps ==
    ASSUME ProgressAssumption, Reading, NEW b \in Browsers, ReadStatus(b)
    PROVE  Reading'
<1> DEFINE c == [conn[b] EXCEPT !.stage = "count", !.ended = ended, !.sequence = sequence]
<1>1. conn[b] \in Connection /\ Behind(conn[b]) /\ RunTyped
      BY DEF Reading
<1>2. sequence \in 0..MaxEvents /\ ended \in BOOLEAN
      BY <1>1, Positive DEF RunTyped, Event
<1>3. c \in Connection
      BY <1>1, <1>2 DEF Connection, ConnStage
<1>4. Behind(c)
      BY <1>1, <1>2 DEF Behind, Connection
<1>5. conn' = [conn EXCEPT ![b] = c]
      BY DEF ReadStatus, Reading, Connection
<1> HIDE DEF c
<1> QED BY <1>3, <1>4, <1>5, ConnectionKeeps DEF ReadStatus, elsewhere

LEMMA ReadCountKeeps ==
    ASSUME ProgressAssumption, Reading, NEW b \in Browsers, ReadCount(b)
    PROVE  Reading'
<1> DEFINE place == IF conn[b].current >= sequence THEN "deliver" ELSE "redis"
           c == [conn[b] EXCEPT !.stage = place, !.known = sequence]
<1>1. conn[b] \in Connection /\ Behind(conn[b]) /\ RunTyped
      BY DEF Reading
<1>2. place \in {"deliver", "redis"}
      OBVIOUS
<1>3. conn' = [conn EXCEPT ![b] = c]
      BY DEF ReadCount, Reading, Connection
<1> HIDE DEF place
<1>4. c \in Connection
  <2>1. sequence \in 0..MaxEvents
        BY <1>1, Positive DEF RunTyped, Event
  <2> QED BY <1>1, <1>2, <2>1 DEF Connection, ConnStage
<1>5. Behind(c)
      BY <1>1, <1>2, Positive DEF Behind, Connection, RunTyped
<1> HIDE DEF c
<1> QED BY <1>3, <1>4, <1>5, ConnectionKeeps DEF ReadCount, elsewhere

(* A batch that follows the cursor, no further than the run. *)
LEMMA BatchKeeps ==
    ASSUME ProgressAssumption, Reading, NEW b \in Browsers, NEW k \in Nat,
           conn[b].current + k <= sequence,
           conn' = [conn EXCEPT ![b].stage = "deliver", ![b].batch = Following(conn[b].current, k)],
           UNCHANGED <<runVars, seen>>
    PROVE  Reading'
<1> DEFINE q == Following(conn[b].current, k)
           c == [conn[b] EXCEPT !.stage = "deliver", !.batch = q]
<1>1. conn[b] \in Connection /\ Behind(conn[b]) /\ RunTyped
      BY DEF Reading
<1>2. conn[b].current \in Nat /\ conn[b].current + k <= MaxEvents /\ MaxEvents \in Nat
      BY <1>1, Positive DEF Connection, RunTyped, Event
<1>3. q \in Seq(Event) /\ Len(q) = k /\ \A i \in DOMAIN q : q[i] = conn[b].current + i
      BY <1>2, FollowingIs
<1>4. conn' = [conn EXCEPT ![b] = c]
      BY DEF Reading, Connection
<1> HIDE DEF q
<1>5. c \in Connection
      BY <1>1, <1>3 DEF Connection, ConnStage
<1>6. Behind(c)
      BY <1>1, <1>3 DEF Behind, Connection
<1> HIDE DEF c
<1> QED BY <1>4, <1>5, <1>6, ConnectionKeeps

LEMMA ReadStreamKeeps ==
    ASSUME ProgressAssumption, Reading, NEW b \in Browsers, ReadStream(b)
    PROVE  Reading'
<1> DEFINE page == Least({n \in stream : n > conn[b].current}, PageLimit)
           k == Smaller(conn[b].known - conn[b].current, PageLimit)
<1>1. conn[b] \in Connection /\ Behind(conn[b]) /\ RunTyped /\ UNCHANGED <<runVars, seen>>
      BY DEF Reading, ReadStream, elsewhere
<1>2. CASE /\ Usable(conn[b], page)
           /\ conn' = [conn EXCEPT ![b].stage = "deliver", ![b].batch = InOrder(page)]
  <2> HIDE DEF page
  <2>1. conn[b].current \in Nat /\ conn[b].known \in Nat /\ PageLimit \in Nat
        BY <1>1, Positive DEF Connection
  <2>2. page = {conn[b].current + i : i \in 1..k}
        BY <1>2 DEF Usable
  <2>3. k \in Int /\ k <= conn[b].known - conn[b].current
        BY <2>1 DEF Smaller
  <2> HIDE DEF k
  <2> DEFINE j == IF k >= 0 THEN k ELSE 0
  <2>4. 1..k = 1..j /\ j \in Nat /\ conn[b].current + j <= sequence
        BY <1>1, <2>1, <2>3, Positive DEF Behind, Connection, RunTyped
  <2> HIDE DEF j
  <2>5. InOrder(page) = Following(conn[b].current, j)
        BY <2>1, <2>2, <2>4, InOrderIs
  <2> QED BY <1>1, <1>2, <2>4, <2>5, BatchKeeps
<1>3. CASE conn' = [conn EXCEPT ![b].stage = "postgres"]
  <2> DEFINE c == [conn[b] EXCEPT !.stage = "postgres"]
  <2>1. c \in Connection
        BY <1>1 DEF Connection, ConnStage
  <2>2. Behind(c)
        BY <1>1 DEF Behind, Connection
  <2>3. conn' = [conn EXCEPT ![b] = c]
        BY <1>3
  <2> HIDE DEF c
  <2> QED BY <1>1, <2>1, <2>2, <2>3, ConnectionKeeps
<1> QED BY <1>2, <1>3 DEF ReadStream

LEMMA ReadPostgresKeeps ==
    ASSUME ProgressAssumption, Reading, NEW b \in Browsers, ReadPostgres(b)
    PROVE  Reading'
<1> DEFINE k == Smaller(sequence - conn[b].current, PageLimit)
<1>1. conn[b] \in Connection /\ Behind(conn[b]) /\ RunTyped /\ UNCHANGED <<runVars, seen>>
      BY DEF Reading, ReadPostgres, elsewhere
<1>2. Len(conn[b].batch) \in Nat /\ conn[b].current \in Nat /\ sequence \in Nat
      BY <1>1, Positive DEF Connection, RunTyped
<1>3. k \in Nat /\ conn[b].current + k <= sequence
  <2>1. conn[b].current <= sequence
        BY <1>1, <1>2 DEF Behind
  <2> QED BY <2>1, <1>2, Positive DEF Smaller
<1>4. conn' = [conn EXCEPT ![b].stage = "deliver", ![b].batch = Following(conn[b].current, k)]
      BY DEF ReadPostgres
<1> HIDE DEF k
<1> QED BY <1>1, <1>3, <1>4, BatchKeeps

LEMMA DeliverKeeps ==
    ASSUME ProgressAssumption, Reading, NEW b \in Browsers, Deliver(b)
    PROVE  Reading'
<1> DEFINE old == conn[b]
           n == Head(old.batch)
           c == [old EXCEPT !.batch = Tail(@), !.current = n]
<1>1. old \in Connection /\ Behind(old) /\ RunTyped /\ UNCHANGED runVars
      BY DEF Reading, Deliver, elsewhere
<1>2. old.batch \in Seq(Event) /\ old.batch # <<>> /\ old.current \in Nat /\ old.stage = "deliver"
      BY <1>1, Positive DEF Connection, Deliver
<1>3. /\ n = old.batch[1] /\ n \in Event /\ 1 \in DOMAIN old.batch
      /\ Tail(old.batch) \in Seq(Event) /\ Len(Tail(old.batch)) = Len(old.batch) - 1
      /\ Len(old.batch) \in Nat \ {0}
      /\ \A i \in 1..Len(Tail(old.batch)) : Tail(old.batch)[i] = old.batch[i + 1]
      BY <1>2, HeadTailProperties
<1>4. n = old.current + 1
      BY <1>1, <1>3 DEF Behind
<1>5. /\ conn' = [conn EXCEPT ![b] = c]
      /\ seen' = [seen EXCEPT ![b] = IF n > @ THEN n ELSE @]
  <2>1. conn' = [conn EXCEPT ![b].batch = Tail(@), ![b].current = n]
        /\ seen' = [seen EXCEPT ![b] = IF n > @ THEN n ELSE @]
        BY <1>2, <1>4 DEF Deliver
  <2> QED BY <2>1 DEF Reading, Connection
<1>6. n <= sequence /\ n \in 0..MaxEvents /\ sequence \in Nat
      BY <1>1, <1>2, <1>3, <1>4, Positive DEF Behind, Event, RunTyped
<1> HIDE DEF n
<1>7. c \in Connection
      BY <1>1, <1>3, <1>6 DEF Connection
<1>8. Behind(c)
  <2>1. /\ c.stage = "deliver" /\ c.known = old.known /\ c.ended = old.ended
        /\ c.sequence = old.sequence /\ c.current = n /\ c.batch = Tail(old.batch)
        BY <1>1, <1>2 DEF Connection
  <2>2. \A i \in DOMAIN c.batch : c.batch[i] = c.current + i
    <3>1. DOMAIN c.batch = 1..Len(Tail(old.batch)) /\ DOMAIN old.batch = 1..Len(old.batch)
          BY <2>1, <1>2, <1>3
    <3>2. \A i \in 1..Len(old.batch) : old.batch[i] = old.current + i
          BY <3>1, <1>1 DEF Behind
    <3>3. ASSUME NEW i \in 1..Len(Tail(old.batch))
          PROVE  Tail(old.batch)[i] = old.current + 1 + i
      <4>1. i + 1 \in 1..Len(old.batch) /\ Tail(old.batch)[i] = old.batch[i + 1]
            BY <1>3
      <4>2. old.batch[i + 1] = old.current + (i + 1)
            BY <4>1, <3>2
      <4>3. i \in Int
            BY <1>3
      <4> QED BY <4>1, <4>2, <4>3, <1>2
    <3> QED BY <3>1, <3>3, <2>1, <1>4
  <2>3. c.current + Len(c.batch) <= sequence
        BY <2>1, <1>1, <1>2, <1>3, <1>4, <1>6 DEF Behind
  <2> HIDE DEF c
  <2> QED BY <2>1, <2>2, <2>3, <1>1 DEF Behind
<1> HIDE DEF c
<1>9. /\ seen' \in [Browsers -> 0..MaxEvents]
      /\ \A d \in Browsers : seen'[d] <= sequence
      BY <1>5, <1>6, Positive DEF Reading
<1>10. /\ conn' \in [Browsers -> Connection]
       /\ \A d \in Browsers : Behind(conn'[d])
       BY <1>5, <1>7, <1>8 DEF Reading
<1>11. \A d \in Browsers : Behind(conn[d])'
       BY <1>1, <1>10 DEF Behind, runVars
<1> QED BY <1>1, <1>9, <1>10, <1>11 DEF Reading, RunTyped, runVars, Behind

LEMMA EndPassKeeps ==
    ASSUME ProgressAssumption, Reading, NEW b \in Browsers, EndPass(b)
    PROVE  Reading'
<1> DEFINE old == conn[b]
           place == IF Finished(old) THEN "done" ELSE "status"
           c == [NoConnection EXCEPT !.stage = place, !.current = old.current]
<1>1. old \in Connection /\ Behind(old) /\ RunTyped /\ UNCHANGED <<runVars, seen>>
      BY DEF Reading, EndPass, elsewhere
<1>2. conn' = [conn EXCEPT ![b] = c]
      BY DEF EndPass
<1>3. /\ c.stage = place /\ c.current = old.current /\ c.ended = FALSE /\ c.sequence = 0
      /\ c.known = 0 /\ c.batch = <<>>
      BY DEF NoConnection
<1>4. NoConnection \in Connection
      BY Positive DEF NoConnection, Connection, ConnStage
<1>5. place \in {"done", "status"} /\ (place = "done" => old.ended /\ old.current >= old.sequence)
      BY DEF Finished
<1> HIDE DEF place
<1>6. c \in Connection
      BY <1>1, <1>4, <1>5 DEF Connection, ConnStage
<1> HIDE DEF c
<1>7. old.current <= sequence /\ old.current \in Nat /\ sequence \in Nat
      BY <1>1, Positive DEF Behind, Connection, RunTyped
<1>8. place = "done" /\ ~reopened => ended /\ old.current = sequence
      BY <1>1, <1>5, <1>7 DEF Behind
<1>9. Behind(c)
      BY <1>3, <1>5, <1>7, <1>8 DEF Behind
<1> QED BY <1>1, <1>2, <1>6, <1>9, ConnectionKeeps

LEMMA CloseKeeps ==
    ASSUME ProgressAssumption, Reading, NEW b \in Browsers, Reconnect(b) \/ Disconnect(b)
    PROVE  Reading'
<1>1. conn' = [conn EXCEPT ![b] = NoConnection] /\ UNCHANGED <<runVars, seen>>
      BY DEF Reconnect, Disconnect, elsewhere
<1>2. NoConnection \in Connection
      BY Positive DEF NoConnection, Connection, ConnStage
<1>3. Behind(NoConnection)
      BY Positive DEF NoConnection, Behind, Reading, RunTyped
<1> QED BY <1>1, <1>2, <1>3, ConnectionKeeps

LEMMA PollKeeps ==
    ASSUME ProgressAssumption, Reading, NEW b \in Browsers, Poll(b)
    PROVE  Reading'
<1>1. UNCHANGED <<runVars, conn>> /\ seen' = [seen EXCEPT ![b] = sequence]
      BY DEF Poll, elsewhere
<1>2. /\ seen' \in [Browsers -> 0..MaxEvents]
      /\ \A d \in Browsers : seen'[d] <= sequence
      BY <1>1, Positive DEF Reading, RunTyped, Event
<1>3. \A d \in Browsers : Behind(conn[d])'
      BY <1>1 DEF Reading, Behind, runVars
<1> QED BY <1>1, <1>2, <1>3 DEF Reading, RunTyped, runVars, Behind

LEMMA RunKeeps == ASSUME ProgressAssumption, Reading, Run PROVE Reading'
<1>1. /\ RunTyped' /\ UNCHANGED clientVars
      /\ sequence' >= sequence /\ (reopened => reopened')
      /\ ~reopened' => ~ended /\ ~reopened
  <2>1. RunTyped
        BY DEF Reading
  <2>2. CASE AppendProgress
        BY <2>1, <2>2, Positive DEF RunTyped, AppendProgress, Event
  <2>3. CASE Reopen
    <3>1. /\ sequence' = sequence /\ ended' = FALSE /\ reopened' = TRUE /\ ~reopened
          /\ UNCHANGED clientVars
          BY <2>3 DEF Reopen
    <3>2. sequence \in Nat
          BY <2>1, Positive DEF RunTyped
    <3>3. sequence' >= sequence
          BY <3>1, <3>2
    <3> QED BY <2>1, <3>1, <3>3, Zenon DEF RunTyped
  <2> QED BY <2>2, <2>3 DEF Run
<1>2. ASSUME NEW d \in Browsers
      PROVE  Behind(conn[d])' /\ seen'[d] <= sequence'
  <2>1. /\ conn'[d] = conn[d] /\ seen'[d] = seen[d]
        /\ conn[d] \in Connection /\ Behind(conn[d]) /\ seen[d] <= sequence /\ seen[d] \in Nat
        BY <1>1 DEF Reading, clientVars
  <2>2. /\ conn[d].known \in Nat /\ conn[d].current + Len(conn[d].batch) \in Nat
        /\ sequence \in Nat /\ sequence' \in Nat
        BY <1>1, <2>1, Positive DEF Reading, RunTyped, Connection
  <2> QED BY <1>1, <2>1, <2>2 DEF Behind
<1> QED BY <1>1, <1>2 DEF Reading, clientVars

LEMMA ReadingKept == ProgressAssumption /\ Reading /\ [Next]_vars => Reading'
<1> SUFFICES ASSUME ProgressAssumption, Reading, [Next]_vars PROVE Reading'
    OBVIOUS
<1>1. CASE UNCHANGED <<runVars, clientVars>>
      BY <1>1 DEF Reading, RunTyped, Behind, runVars, clientVars
<1>2. CASE UNCHANGED vars
      BY <1>1, <1>2 DEF vars, runVars, clientVars
<1>3. CASE Run
      BY <1>3, RunKeeps
<1>4. ASSUME NEW r \in Relays,
             (\E n \in Event : ClaimNext(r, n)) \/ Publish(r) \/ RelayDies(r)
      PROVE  Reading'
      BY <1>1, <1>4 DEF ClaimNext, Publish, CheckPredecessor, AddToStream, MarkPublished,
                        MarkFailed, Settle, RelayDies
<1>5. CASE LoseEntries
      BY <1>1, <1>5 DEF LoseEntries
<1>6. ASSUME NEW b \in Browsers, Stream(b) \/ Disconnect(b) \/ Poll(b)
      PROVE  Reading'
      BY <1>6, ConnectKeeps, ReadStatusKeeps, ReadCountKeeps, ReadStreamKeeps,
         ReadPostgresKeeps, DeliverKeeps, EndPassKeeps, CloseKeeps, PollKeeps DEF Stream
<1> QED BY <1>2, <1>3, <1>4, <1>5, <1>6 DEF Next

(* Whatever Redis lost and however often an event was published, what a    *)
(* read returns follows the cursor without a hole (read_progress).         *)
THEOREM ReadsHaveNoGap == ProgressAssumption => (Spec => []NoGap)
<1> SUFFICES ASSUME ProgressAssumption PROVE Spec => []NoGap
    OBVIOUS
<1>1. Reading => NoGap
      BY DEF Reading, NoGap, Behind
<1>2. Init => Reading
      BY ReadingInitially
<1>3. Reading /\ [Next]_vars => Reading'
      BY ReadingKept
<1> QED BY <1>1, <1>2, <1>3, PTL DEF Spec

(* A connection closes only when it has delivered the whole progress of a  *)
(* run that ended, though status, sequence and events are read in three    *)
(* transactions (analysis_events).                                         *)
THEOREM ClosedAfterTheLast == ProgressAssumption => (Spec => []ClosedIsComplete)
<1> SUFFICES ASSUME ProgressAssumption PROVE Spec => []ClosedIsComplete
    OBVIOUS
<1>1. Reading => ClosedIsComplete
      BY DEF Reading, ClosedIsComplete, Behind
<1>2. Init => Reading
      BY ReadingInitially
<1>3. Reading /\ [Next]_vars => Reading'
      BY ReadingKept
<1> QED BY <1>1, <1>2, <1>3, PTL DEF Spec

-----------------------------------------------------------------------------
(* The relays and the stream, as long as Redis keeps what it acknowledged  *)

Pass == [stage : RelayStage, event : Event]

(* Rows are appended in the order of the sequence; a relay that is past    *)
(* its check has every earlier event published, and one that has added its *)
(* event has it within what Redis gave out.                                *)
Mirror ==
    /\ sequence \in Event
    /\ row \in [Event -> OutboxStatus \cup {"none"}]
    /\ \A n \in Event : row[n] = "none" <=> n > sequence
    /\ relay \in [Relays -> Pass]
    /\ \A r \in Relays : relay[r].stage # "idle" => relay[r].event <= sequence
    /\ \A r \in Relays : relay[r].stage \in {"add", "mark"} =>
           \A m \in Event : m < relay[r].event => row[m] = "published"
    /\ \A r \in Relays : relay[r].stage = "mark" => relay[r].event <= lastId
    /\ lastId \in 0..MaxEvents
    /\ stream \subseteq 1..lastId
    /\ Mirrored

LEMMA MirrorInitially == ProgressAssumption /\ Init => Mirror
BY Positive DEF Init, Mirror, Pass, RelayStage, Idle, OutboxStatus, Mirrored, Event

LEMMA AppendKeeps ==
    ASSUME ProgressAssumption, Mirror, AppendProgress PROVE Mirror'
<1>1. sequence \in Nat /\ sequence + 1 \in Event /\ row[sequence + 1] = "none"
      /\ \A n \in Event : n \in Nat
      BY Positive DEF Mirror, AppendProgress, Event
<1>2. \A n \in Event : row'[n] = IF n = sequence + 1 THEN "pending" ELSE row[n]
      BY DEF Mirror, AppendProgress
<1>3. \A n \in Event : row[n] = "published" <=> row'[n] = "published"
      BY <1>1, <1>2
<1>4. /\ row' \in [Event -> OutboxStatus \cup {"none"}] /\ sequence' \in Event
      /\ \A n \in Event : row'[n] = "none" <=> n > sequence'
      BY <1>1, <1>2 DEF Mirror, AppendProgress, OutboxStatus
<1>5. UNCHANGED <<relay, stream, lastId>> /\ sequence' = sequence + 1
      BY DEF AppendProgress, redisVars
<1>6. Mirrored'
  <2>1. 1..lastId \subseteq Nat /\ \A n \in Event : 1..n \subseteq Event
        BY <1>1, Positive DEF Event
  <2> QED BY <1>3, <1>5, <2>1 DEF Mirror, Mirrored
<1>7. \A r \in Relays : relay[r].event \in Nat
      BY <1>1 DEF Mirror, Pass
<1> QED BY <1>1, <1>3, <1>4, <1>5, <1>6, <1>7 DEF Mirror

(* A row that is not published changes, and no relay goes past its check.  *)
LEMMA RowKeeps ==
    ASSUME ProgressAssumption, Mirror, NEW n \in Event, NEW status \in OutboxStatus,
           row[n] \in {"pending", "processing"},
           status = "published" => n <= lastId /\ \A m \in Event : m < n => row[m] = "published",
           row' = [row EXCEPT ![n] = status],
           relay' \in [Relays -> Pass],
           \A r \in Relays : /\ relay'[r].stage # "idle" => relay'[r].event <= sequence
                             /\ relay'[r].stage \in {"add", "mark"} => relay'[r] = relay[r],
           UNCHANGED <<sequence, stream, lastId>>
    PROVE  Mirror'
<1>1. \A m \in Event : row'[m] = IF m = n THEN status ELSE row[m]
      BY DEF Mirror
<1>2. \A m \in Event : row[m] = "published" => row'[m] = "published"
      BY <1>1
<1>3. n <= sequence /\ status # "none"
      BY Positive DEF Mirror, OutboxStatus, Event
<1>4. /\ row' \in [Event -> OutboxStatus \cup {"none"}]
      /\ \A m \in Event : row'[m] = "none" <=> m > sequence
      BY <1>1, <1>3 DEF Mirror
<1>5. Mirrored'
  <2>1. ASSUME NEW k \in Event, row'[k] = "published"
        PROVE  k <= lastId /\ \A m \in 1..k : row'[m] = "published"
    <3>1. k \in Nat /\ 1..k \subseteq Event /\ \A m \in 1..k : m = k \/ m < k
          BY Positive DEF Event
    <3>2. CASE k = n
          BY <1>1, <1>2, <2>1, <3>1, <3>2
    <3>3. CASE k # n
          BY <1>1, <1>2, <2>1, <3>1, <3>3 DEF Mirror, Mirrored
    <3> QED BY <3>2, <3>3
  <2> QED BY <2>1 DEF Mirror, Mirrored
<1>6. \A r \in Relays : relay'[r].stage \in {"add", "mark"} =>
          \A m \in Event : m < relay'[r].event => row'[m] = "published"
      BY <1>2 DEF Mirror
<1>7. \A r \in Relays : relay'[r].stage = "mark" => relay'[r].event <= lastId
      BY DEF Mirror
<1> QED BY <1>4, <1>5, <1>6, <1>7 DEF Mirror

LEMMA ClaimNextKeeps ==
    ASSUME ProgressAssumption, Mirror, NEW r \in Relays, NEW n \in Event, ClaimNext(r, n)
    PROVE  Mirror'
<1>1. /\ row[n] \in {"pending", "processing"} /\ row' = [row EXCEPT ![n] = "processing"]
      /\ relay' = [relay EXCEPT ![r] = [stage |-> "check", event |-> n]]
      /\ UNCHANGED <<sequence, stream, lastId>>
      BY DEF ClaimNext, runVars, redisVars
<1>2. n <= sequence
      BY <1>1, Positive DEF Mirror, Event
<1>3. [stage |-> "check", event |-> n] \in Pass
      BY DEF Pass, RelayStage
<1>4. relay' \in [Relays -> Pass]
      BY <1>1, <1>3 DEF Mirror
<1>5. \A x \in Relays : /\ relay'[x].stage # "idle" => relay'[x].event <= sequence
                        /\ relay'[x].stage \in {"add", "mark"} => relay'[x] = relay[x]
      BY <1>1, <1>2 DEF Mirror
<1> QED BY <1>1, <1>4, <1>5, RowKeeps DEF OutboxStatus

LEMMA SettleKeeps ==
    ASSUME ProgressAssumption, Mirror, NEW r \in Relays, MarkPublished(r) \/ MarkFailed(r)
    PROVE  Mirror'
<1> DEFINE n == relay[r].event
           status == IF relay[r].stage = "mark" THEN "published" ELSE "pending"
<1>1. /\ row' = [row EXCEPT ![n] = IF @ = "processing" THEN status ELSE @]
      /\ relay' = [relay EXCEPT ![r] = Idle]
      /\ UNCHANGED <<sequence, stream, lastId>>
      /\ status = "published" => relay[r].stage = "mark"
      BY DEF MarkPublished, MarkFailed, Settle, runVars, redisVars
<1>2. status \in OutboxStatus
      BY DEF OutboxStatus
<1> HIDE DEF status
<1>3. n \in Event /\ (relay[r].stage = "mark" => n <= lastId /\ \A m \in Event : m < n => row[m] = "published")
      BY DEF Mirror, Pass
<1> HIDE DEF n
<1>4. Idle \in Pass
      BY Positive DEF Idle, Pass, RelayStage
<1>5. relay' \in [Relays -> Pass]
      BY <1>1, <1>4 DEF Mirror
<1>6. \A x \in Relays : /\ relay'[x].stage # "idle" => relay'[x].event <= sequence
                        /\ relay'[x].stage \in {"add", "mark"} => relay'[x] = relay[x]
      BY <1>1 DEF Mirror, Idle
<1>7. CASE row[n] = "processing"
  <2>1. row' = [row EXCEPT ![n] = status]
        BY <1>1, <1>7
  <2> QED BY <1>1, <1>2, <1>3, <1>5, <1>6, <1>7, <2>1, RowKeeps
<1>8. CASE row[n] # "processing"
  <2>1. row' = row
        BY <1>1, <1>3, <1>8 DEF Mirror
  <2>2. Mirrored'
        BY <1>1, <2>1 DEF Mirror, Mirrored
  <2>3. \A x \in Relays : relay'[x].stage \in {"add", "mark"} =>
            \A m \in Event : m < relay'[x].event => row[m] = "published"
        BY <1>6 DEF Mirror
  <2>4. \A x \in Relays : relay'[x].stage = "mark" => relay'[x].event <= lastId
        BY <1>6 DEF Mirror
  <2>5. /\ UNCHANGED <<sequence, stream, lastId>>
        /\ \A x \in Relays : relay'[x].stage # "idle" => relay'[x].event <= sequence
        BY <1>1, <1>6
  <2> QED BY <1>5, <2>1, <2>2, <2>3, <2>4, <2>5 DEF Mirror
<1> QED BY <1>7, <1>8

(* A relay moves on, and the rows stay. *)
LEMMA PassKeeps ==
    ASSUME ProgressAssumption, Mirror, NEW r \in Relays, NEW stage \in RelayStage,
           relay' = [relay EXCEPT ![r].stage = stage],
           UNCHANGED <<sequence, row>>,
           relay[r].stage # "idle",
           stage \in {"add", "mark"} =>
               \A m \in Event : m < relay[r].event => row[m] = "published",
           stage = "mark" => relay[r].event <= lastId',
           lastId' \in 0..MaxEvents, lastId' >= lastId, stream' \subseteq 1..lastId',
           Mirrored'
    PROVE  Mirror'
<1>1. relay' \in [Relays -> Pass]
      BY DEF Mirror, Pass
<1>2. \A x \in Relays : /\ relay'[x].event = relay[x].event /\ relay[x].event \in Nat
                        /\ relay'[x].stage = IF x = r THEN stage ELSE relay[x].stage
      BY Positive DEF Mirror, Pass
<1>3. \A x \in Relays : relay'[x].stage # "idle" => relay'[x].event <= sequence
      BY <1>2 DEF Mirror
<1>4. \A x \in Relays : relay'[x].stage \in {"add", "mark"} =>
          \A m \in Event : m < relay'[x].event => row[m] = "published"
      BY <1>2 DEF Mirror
<1>5. \A x \in Relays : relay'[x].stage = "mark" => relay'[x].event <= lastId'
      BY <1>2, Positive DEF Mirror
<1> QED BY <1>1, <1>3, <1>4, <1>5 DEF Mirror

LEMMA CheckKeeps ==
    ASSUME ProgressAssumption, Mirror, NEW r \in Relays, CheckPredecessor(r)
    PROVE  Mirror'
<1> DEFINE n == relay[r].event
           place == IF PredecessorPending(n) THEN "fail" ELSE "add"
<1>1. /\ relay[r].stage = "check" /\ relay' = [relay EXCEPT ![r].stage = place]
      /\ UNCHANGED <<sequence, row, stream, lastId>>
      BY DEF CheckPredecessor, Goto, runVars, redisVars
<1>2. place \in {"fail", "add"} /\ (place = "add" => ~PredecessorPending(n))
      OBVIOUS
<1> HIDE DEF place
<1>3. n \in Nat /\ n <= sequence /\ sequence \in Nat /\ \A m \in Event : m \in Nat
      BY <1>1, Positive DEF Mirror, Pass
<1>4. place = "add" => \A m \in Event : m < n => row[m] = "published"
      BY <1>2, <1>3 DEF PredecessorPending, Mirror
<1>5. lastId \in 0..MaxEvents /\ lastId >= lastId /\ stream \subseteq 1..lastId
      BY Positive DEF Mirror
<1>6. Mirrored'
      BY <1>1 DEF Mirror, Mirrored
<1> QED BY <1>1, <1>2, <1>4, <1>5, <1>6, PassKeeps DEF RelayStage

(* What is added when everything before it is published comes right after  *)
(* what Redis has, and a trimmed suffix is a suffix.                       *)
LEMMA XAddKeeps ==
    ASSUME ProgressAssumption, Mirror, NEW n \in Event, XAdd(n), UNCHANGED row,
           \A m \in Event : m < n => row[m] = "published"
    PROVE  lastId' \in 0..MaxEvents /\ lastId' >= n /\ lastId' >= lastId
           /\ stream' \subseteq 1..lastId' /\ Mirrored'
<1> DEFINE S == stream \cup {n}
<1>1. n \in Nat /\ lastId \in Nat /\ n > lastId /\ lastId' = n /\ n <= MaxEvents /\ n >= 1
      /\ MaxEvents \in Nat
      BY Positive DEF Mirror, XAdd, Event
<1>2. n = lastId + 1
  <2>1. CASE n = 1
        BY <1>1, <2>1
  <2>2. CASE n # 1
    <3>1. n - 1 \in Event /\ n - 1 < n
          BY <1>1, <2>2 DEF Event
    <3>2. n - 1 <= lastId
          BY <3>1 DEF Mirror, Mirrored
    <3> QED BY <1>1, <3>2
  <2> QED BY <2>1, <2>2
<1>3. S \subseteq 1..n /\ \A k \in 1..n : (\E m \in S : m <= k) => k \in S
      BY <1>1, <1>2 DEF Mirror, Mirrored
<1>4. stream' = S \/ stream' = Newest(S, StreamMax)
      BY DEF XAdd, Entries
<1>5. stream' \subseteq S
      BY <1>4 DEF Newest
<1>6. ASSUME NEW k \in 1..n, NEW m \in stream', m <= k
      PROVE  k \in stream'
  <2>1. k \in S /\ m \in Nat /\ k \in Nat
        BY <1>3, <1>5, <1>6
  <2>2. CASE stream' = S
        BY <2>1, <2>2
  <2>3. CASE stream' = Newest(S, StreamMax)
    <3>1. IsFiniteSet(1..n) /\ S \in SUBSET (1..n)
          BY <1>1, <1>3, FS_Interval
    <3>2. \A x \in S : x \in Int
          BY <3>1
    <3> HIDE DEF S
    <3>3. IsFiniteSet({x \in S : x > m})
          BY <3>1, FS_Subset
    <3>4. {x \in S : x > k} \in SUBSET {x \in S : x > m}
      <4>1. \A x \in S : x > k => x > m
            BY <2>1, <1>6, <3>2
      <4> QED BY <4>1
    <3>5. Cardinality({x \in S : x > k}) <= Cardinality({x \in S : x > m})
          BY <3>3, <3>4, FS_Subset
    <3>6. /\ Cardinality({x \in S : x > k}) \in Nat /\ Cardinality({x \in S : x > m}) \in Nat
          BY <3>3, <3>4, FS_Subset, FS_CardinalityType
    <3>7. Cardinality({x \in S : x > m}) < StreamMax /\ StreamMax \in Nat
          BY <2>3 DEF Newest, ProgressAssumption
    <3>8. Cardinality({x \in S : x > k}) < StreamMax
          BY <3>5, <3>6, <3>7
    <3> QED BY <2>1, <2>3, <3>8 DEF Newest
  <2> QED BY <1>4, <2>2, <2>3
<1>7. Mirrored'
  <2>1. \A k \in Event : row'[k] = "published" =>
            k <= lastId' /\ \A m \in 1..k : row'[m] = "published"
    <3>1. \A k \in Event : k <= lastId => k <= lastId'
          BY <1>1, Positive
    <3> QED BY <3>1 DEF Mirror, Mirrored
  <2>2. \A k \in 1..lastId' : (\E m \in stream' : m <= k) => k \in stream'
        BY <1>1, <1>6
  <2> QED BY <2>1, <2>2 DEF Mirrored
<1> QED BY <1>1, <1>3, <1>5, <1>7

LEMMA AddKeeps ==
    ASSUME ProgressAssumption, Mirror, NEW r \in Relays, AddToStream(r)
    PROVE  Mirror'
<1> DEFINE n == relay[r].event
<1>1. /\ relay[r].stage = "add" /\ UNCHANGED <<sequence, row>> /\ n \in Event
      /\ \A m \in Event : m < n => row[m] = "published"
      BY DEF AddToStream, runVars, Mirror, Pass
<1>2. \E stage \in {"mark", "fail"} : /\ relay' = [relay EXCEPT ![r].stage = stage]
                                      /\ stage = "mark" => XAdd(n) \/ n <= lastId
                                      /\ XAdd(n) \/ UNCHANGED redisVars
      BY DEF AddToStream, Goto, AlreadyThere
<1>3. PICK stage \in {"mark", "fail"} : /\ relay' = [relay EXCEPT ![r].stage = stage]
                                        /\ stage = "mark" => XAdd(n) \/ n <= lastId
                                        /\ XAdd(n) \/ UNCHANGED redisVars
      BY <1>2
<1>4. n \in Nat /\ lastId \in Nat /\ lastId \in 0..MaxEvents /\ stream \subseteq 1..lastId
      BY <1>1, Positive DEF Mirror
<1> HIDE DEF n
<1>5. CASE XAdd(n)
  <2>1. lastId' \in 0..MaxEvents /\ lastId' >= n /\ lastId' >= lastId
        /\ stream' \subseteq 1..lastId' /\ Mirrored'
        BY <1>1, <1>5, XAddKeeps
  <2> QED BY <1>1, <1>3, <2>1, PassKeeps DEF RelayStage, n
<1>6. CASE ~XAdd(n)
  <2>1. UNCHANGED redisVars /\ (stage = "mark" => n <= lastId)
        BY <1>3, <1>6
  <2>2. /\ lastId' = lastId /\ stream' = stream
        /\ lastId' \in 0..MaxEvents /\ lastId' >= lastId /\ stream' \subseteq 1..lastId'
        BY <1>4, <2>1 DEF redisVars
  <2>3. Mirrored'
        BY <1>1, <2>2 DEF Mirror, Mirrored
  <2> QED BY <1>1, <1>3, <1>4, <2>1, <2>2, <2>3, PassKeeps DEF RelayStage, n
<1> QED BY <1>5, <1>6

LEMMA RelayDiesKeeps ==
    ASSUME ProgressAssumption, Mirror, NEW r \in Relays, RelayDies(r)
    PROVE  Mirror'
<1>1. relay' = [relay EXCEPT ![r] = Idle] /\ UNCHANGED <<sequence, row, stream, lastId>>
      BY DEF RelayDies, runVars, redisVars
<1>2. Idle \in Pass /\ Idle.stage = "idle"
      BY Positive DEF Idle, Pass, RelayStage
<1>3. /\ relay' \in [Relays -> Pass]
      /\ \A x \in Relays : relay'[x] = relay[x] \/ relay'[x].stage = "idle"
      BY <1>1, <1>2 DEF Mirror
<1>4. Mirrored'
      BY <1>1 DEF Mirror, Mirrored
<1> QED BY <1>1, <1>3, <1>4 DEF Mirror

LEMMA MirrorKept ==
    ASSUME ProgressAssumption, Mirror, ~lost', [Next]_vars
    PROVE  Mirror'
<1>1. CASE UNCHANGED <<sequence, row, relay, stream, lastId>>
      BY <1>1 DEF Mirror, Mirrored
<1>2. CASE UNCHANGED vars
      BY <1>1, <1>2 DEF vars
<1>3. CASE Run
      BY <1>1, <1>3, AppendKeeps DEF Run, Reopen, redisVars
<1>4. ASSUME NEW r \in Relays,
             (\E n \in Event : ClaimNext(r, n)) \/ Publish(r) \/ RelayDies(r)
      PROVE  Mirror'
      BY <1>4, ClaimNextKeeps, CheckKeeps, AddKeeps, SettleKeeps, RelayDiesKeeps DEF Publish
<1>5. ~LoseEntries
      BY DEF LoseEntries
<1>6. ASSUME NEW b \in Browsers, Stream(b) \/ Disconnect(b) \/ Poll(b)
      PROVE  Mirror'
      BY <1>1, <1>6 DEF Stream, Connect, ReadStatus, ReadCount, ReadStream, ReadPostgres, Deliver,
         EndPass, Reconnect, Disconnect, Poll, elsewhere, runVars, redisVars
<1> QED BY <1>2, <1>3, <1>4, <1>5, <1>6 DEF Next

(* What is lost is not found again. *)
LEMMA LostStays ==
    ASSUME lost = TRUE, [Next]_vars
    PROVE  lost' = TRUE
BY DEF Next, vars, Run, AppendProgress, Reopen, ClaimNext, Publish, CheckPredecessor, AddToStream,
   XAdd, MarkPublished, MarkFailed, Settle, RelayDies, LoseEntries, Stream, Connect, ReadStatus,
   ReadCount, ReadStream, ReadPostgres, Deliver, EndPass, Reconnect, Disconnect, Poll, elsewhere,
   redisVars

(* As long as Redis keeps what it acknowledged, the stream is a suffix of  *)
(* the published progress without a hole, whatever relays hold a row twice *)
(* or die (_publish_progress).                                             *)
THEOREM StreamMirrorsProgress == ProgressAssumption => (Spec => []MirrorInOrder)
<1> SUFFICES ASSUME ProgressAssumption PROVE Spec => []MirrorInOrder
    OBVIOUS
<1> DEFINE Kept == lost \in BOOLEAN /\ (lost = FALSE => Mirror)
<1>1. Kept => MirrorInOrder
      BY DEF Mirror, MirrorInOrder
<1>2. Init => Kept
      BY MirrorInitially DEF Init
<1>3. Kept /\ [Next]_vars => Kept'
  <2> SUFFICES ASSUME Kept, [Next]_vars PROVE Kept'
      OBVIOUS
  <2>1. CASE lost = TRUE
        BY <2>1, LostStays
  <2>2. CASE lost = FALSE
    <3>1. lost' \in BOOLEAN
          BY <2>2 DEF Next, vars, Run, AppendProgress, Reopen, ClaimNext, Publish,
             CheckPredecessor, AddToStream, XAdd, MarkPublished, MarkFailed, Settle, RelayDies,
             LoseEntries, Stream, Connect, ReadStatus, ReadCount, ReadStream, ReadPostgres,
             Deliver, EndPass, Reconnect, Disconnect, Poll, elsewhere, redisVars
    <3>2. lost' = FALSE => Mirror'
          BY <2>2, MirrorKept
    <3> QED BY <3>1, <3>2
  <2> QED BY <2>1, <2>2
<1> QED BY <1>1, <1>2, <1>3, PTL DEF Spec
=============================================================================
