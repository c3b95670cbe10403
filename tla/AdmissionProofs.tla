-------------------------- MODULE AdmissionProofs ---------------------------
(***************************************************************************)
(* Proofs about module Admission, for every set of requests, every policy  *)
(* and every combination of faults.                                        *)
(***************************************************************************)
EXTENDS Admission, FiniteSetTheorems, WellFoundedInduction, TLAPS

\* The runs of r's session that count against its concurrency.
Admitted(r) == ActiveRuns(r) \ reopened

\* Who holds the lock has looked for a submission of its key, and nobody can
\* have added one since.
KeyFree == \A r \in holder :
    stage[r] \in {"checking", "checked", "reserved"} /\ Existing(r) = {}

\* What a request has checked under the lock still holds.
RoomChecked == \A r \in holder : stage[r] \in {"checked", "reserved"} =>
    Cardinality(Queued) < QueueCapacity /\ Cardinality(Admitted(r)) < Concurrent

\* Manual retries aside, nobody is admitted past a limit.
WithinLimits ==
    /\ \A r \in Requests : Cardinality(Admitted(r)) <= Concurrent
    /\ Cardinality(Queued) <= QueueCapacity

\* Where a request that has a reservation and no run can be.
QuotaHeld == \A w \in Windows, r \in Requests :
    <<w, r>> \in tokens => status[r] # "none" \/ stage[r] \in {"reserved", "releasing", "dead"}

IInv == TypeOK /\ KeyFree /\ RoomChecked /\ WithinLimits /\ QuotaHeld

-----------------------------------------------------------------------------
(* Kinds of steps *)

\* A step of a request, of Redis or of the clock that makes no run.
Quiet == UNCHANGED <<sent, status, reopened>>

\* A request commits its run and gives the lock away.
Commits == \E r \in holder :
    /\ stage[r] = "reserved"
    /\ stage' \in {[stage EXCEPT ![r] = s] : s \in {"created", "releasing"}}
    /\ status' = [status EXCEPT ![r] = "queued"]
    /\ holder' = {}
    /\ UNCHANGED <<now, began, reserved, sent, tokens, reopened>>

\* A run starts, ends or is reopened.
Progresses == \E r \in Requests :
    /\ \/ /\ status[r] = "queued"
          /\ status' = [status EXCEPT ![r] = "running"]
          /\ UNCHANGED reopened
       \/ /\ status[r] \in {"queued", "running"}
          /\ status' = [status EXCEPT ![r] = "ended"]
          /\ UNCHANGED reopened
       \/ /\ status[r] = "ended"
          /\ status' = [status EXCEPT ![r] = "running"]
          /\ reopened' = reopened \cup {r}
    /\ UNCHANGED <<now, sent, stage, holder, began, reserved, tokens>>

LEMMA StepKinds == [Next]_vars => Quiet \/ Commits \/ Progresses
<1> SUFFICES ASSUME [Next]_vars PROVE Quiet \/ Commits \/ Progresses
    OBVIOUS
<1>1. CASE UNCHANGED vars \/ LoseData \/ Tick
    BY <1>1 DEF vars, LoseData, Tick, runVars, Quiet
<1>2. ASSUME NEW r \in Requests, Begin(r) \/ Crash(r) \/ Disconnect(r)
      PROVE  Quiet
    BY <1>2 DEF Begin, Crash, Disconnect, runVars, Quiet
<1>3. ASSUME NEW r \in Requests, Submit(r)
      PROVE  Quiet \/ Commits
    <2>1. CASE Create(r) \/ CommitUnanswered(r)
        BY <2>1 DEF Create, CommitUnanswered, Goto, timeVars, Commits
    <2>2. CASE Lock(r) \/ Check(r) \/ Refuse(r) \/ Rollback(r) \/ Release(r)
        BY <2>2 DEF Lock, Check, Refuse, Rollback, Release, runVars, Quiet
    <2>3. CASE Reserve(r) \/ ReserveDenied(r) \/ ReserveFails(r)
        BY <2>3 DEF Reserve, ReserveDenied, ReserveFails, runVars, Quiet
    <2> QED BY <1>3, <2>1, <2>2, <2>3 DEF Submit
<1>4. ASSUME NEW r \in Requests, StartRun(r) \/ EndRun(r) \/ ReopenRun(r)
      PROVE  Progresses
    BY <1>4 DEF StartRun, EndRun, ReopenRun, timeVars, Progresses
<1> QED
    BY <1>1, <1>2, <1>3, <1>4 DEF Next

-----------------------------------------------------------------------------
(* Counting *)

\* One more run makes a set of runs larger by at most one.
LEMMA OneMore ==
    ASSUME NEW S \in SUBSET Requests, NEW T \in SUBSET Requests, NEW r \in Requests,
           T \subseteq S \cup {r}
    PROVE  Cardinality(S) \in Nat /\ Cardinality(T) <= Cardinality(S) + 1
<1>1. IsFiniteSet(S) /\ Cardinality(S) \in Nat
    BY AdmissionAssumption, FS_Subset, FS_CardinalityType
<1>2. /\ IsFiniteSet(S \cup {r})
      /\ Cardinality(S \cup {r}) <= Cardinality(S) + 1
    BY <1>1, FS_AddElement
<1>3. Cardinality(T) <= Cardinality(S \cup {r})
    BY <1>2, FS_Subset
<1>4. Cardinality(T) \in Nat /\ Cardinality(S \cup {r}) \in Nat
    BY <1>2, AdmissionAssumption, FS_Subset, FS_CardinalityType
<1> QED
    BY <1>1, <1>2, <1>3, <1>4

\* A smaller set of runs counts no more.
LEMMA NoMore ==
    ASSUME NEW S \in SUBSET Requests, NEW T \in SUBSET S
    PROVE  /\ Cardinality(S) \in Nat /\ Cardinality(T) \in Nat
           /\ Cardinality(T) <= Cardinality(S)
<1>1. IsFiniteSet(S)
    BY AdmissionAssumption, FS_Subset
<1> QED
    BY <1>1, FS_Subset, FS_CardinalityType

-----------------------------------------------------------------------------
(* The invariant *)

LEMMA InitIInv == Init => IInv
<1> SUFFICES ASSUME Init PROVE IInv
    OBVIOUS
<1>1. Cardinality({}) = 0
    BY FS_EmptySet
<1>2. TypeOK
    BY <1>1, AdmissionAssumption DEF Init, TypeOK, Stage
<1>3. Queued = {} /\ \A r \in Requests : Admitted(r) = {}
    BY DEF Init, Queued, Admitted, ActiveRuns
<1>4. WithinLimits
    BY <1>1, <1>3, AdmissionAssumption DEF WithinLimits
<1> QED
    BY <1>2, <1>4 DEF Init, IInv, KeyFree, RoomChecked, QuotaHeld

\* The lock has at most one holder, and is taken only when it is free.
LEMMA LockStep ==
    ASSUME TypeOK, [Next]_vars
    PROVE  \/ holder' \subseteq holder
           \/ \E r \in Requests : holder = {} /\ holder' = {r} /\ Lock(r)
<1>1. CASE UNCHANGED vars \/ LoseData \/ Tick
    BY <1>1 DEF vars, LoseData, Tick
<1>2. ASSUME NEW r \in Requests, Begin(r) \/ Crash(r) \/ Disconnect(r)
      PROVE  holder' \subseteq holder
    BY <1>2 DEF Begin, Crash, Disconnect
<1>3. ASSUME NEW r \in Requests, StartRun(r) \/ EndRun(r) \/ ReopenRun(r)
      PROVE  holder' \subseteq holder
    BY <1>3 DEF StartRun, EndRun, ReopenRun
<1>4. ASSUME NEW r \in Requests, Submit(r), ~Lock(r)
      PROVE  holder' \subseteq holder
    BY <1>4 DEF Submit, Check, Refuse, Reserve, ReserveDenied, ReserveFails, Create,
                CommitUnanswered, Rollback, Release
<1>5. ASSUME NEW r \in Requests, Lock(r)
      PROVE  holder' \subseteq holder \/ (holder = {} /\ holder' = {r})
    BY <1>5 DEF Lock
<1> QED
    BY <1>1, <1>2, <1>3, <1>4, <1>5 DEF Next

LEMMA HolderType == TypeOK /\ [Next]_vars => holder' \subseteq Requests /\ Cardinality(holder') <= 1
<1> SUFFICES ASSUME TypeOK, [Next]_vars
             PROVE  holder' \subseteq Requests /\ Cardinality(holder') <= 1
    OBVIOUS
<1>1. CASE holder' \subseteq holder
    <2>1. Cardinality(holder') <= Cardinality(holder) /\ Cardinality(holder) \in Nat
             /\ Cardinality(holder') \in Nat
        BY <1>1, NoMore DEF TypeOK
    <2> QED BY <1>1, <2>1 DEF TypeOK
<1>2. ASSUME NEW r \in Requests, holder' = {r}
      PROVE  holder' \subseteq Requests /\ Cardinality(holder') <= 1
    BY <1>2, FS_Singleton
<1> QED
    BY <1>1, <1>2, LockStep

LEMMA TypeStep == TypeOK /\ [Next]_vars => TypeOK'
<1> SUFFICES ASSUME TypeOK, [Next]_vars PROVE TypeOK'
    OBVIOUS
<1>h. holder' \subseteq Requests /\ Cardinality(holder') <= 1
    BY HolderType
<1>f. \A k \in AdmissionFaults : Fault(k) => faults' \in 0..MaxFaults
    BY AdmissionAssumption DEF Fault, TypeOK
<1>l. \A r \in Requests, s \in Stage : Leave(r, s) =>
          stage' \in [Requests -> Stage] /\ began' \in [Requests -> 0..MaxTime]
    BY AdmissionAssumption DEF Leave, Goto, TypeOK
<1>s. /\ {"waiting", "checking", "checked", "reserved", "releasing", "created",
          "replayed", "conflict", "refused", "dead"} \subseteq Stage
      /\ {"crash", "disconnect", "outage", "loss", "retry"} \subseteq AdmissionFaults
    BY DEF Stage, AdmissionFaults
<1>1. CASE UNCHANGED vars
    BY <1>1 DEF vars, TypeOK
<1>2. CASE LoseData
    BY <1>2, <1>h, <1>f, <1>s DEF LoseData, timeVars, runVars, TypeOK
<1>3. CASE Tick
    BY <1>3, <1>h, AdmissionAssumption DEF Tick, runVars, TypeOK
<1>4. ASSUME NEW r \in Requests, Begin(r)
      PROVE  TypeOK'
    BY <1>4, <1>h, <1>s DEF Begin, Goto, runVars, TypeOK
<1>5. ASSUME NEW r \in Requests, Crash(r)
      PROVE  TypeOK'
    BY <1>5, <1>h, <1>f, <1>l, <1>s DEF Crash, runVars, TypeOK
<1>6. ASSUME NEW r \in Requests, Disconnect(r)
      PROVE  TypeOK'
    BY <1>6, <1>h, <1>f, <1>s DEF Disconnect, timeVars, runVars, TypeOK
<1>7. ASSUME NEW r \in Requests, StartRun(r) \/ EndRun(r)
      PROVE  TypeOK'
    BY <1>7, <1>h DEF StartRun, EndRun, timeVars, TypeOK
<1>8. ASSUME NEW r \in Requests, ReopenRun(r)
      PROVE  TypeOK'
    BY <1>8, <1>h, <1>f, <1>s DEF ReopenRun, timeVars, TypeOK
<1>9. ASSUME NEW r \in Requests, Submit(r)
      PROVE  TypeOK'
    <2>1. CASE Lock(r)
        <3>1. stage' \in [Requests -> Stage] /\ began' \in [Requests -> 0..MaxTime]
            BY <2>1, <1>l, <1>s DEF Lock, Goto, TypeOK
        <3> QED BY <2>1, <3>1, <1>h DEF Lock, runVars, TypeOK
    <2>2. CASE Check(r)
        BY <2>2, <1>h, <1>s DEF Check, Goto, timeVars, runVars, TypeOK
    <2>3. CASE Refuse(r)
        BY <2>3, <1>h, <1>l, <1>s DEF Refuse, runVars, TypeOK
    <2>4. CASE Reserve(r)
        BY <2>4, <1>h, <1>s DEF Reserve, Goto, runVars, TypeOK
    <2>5. CASE ReserveDenied(r)
        BY <2>5, <1>h, <1>l, <1>s DEF ReserveDenied, runVars, TypeOK
    <2>6. CASE ReserveFails(r)
        BY <2>6, <1>h, <1>f, <1>l, <1>s DEF ReserveFails, runVars, TypeOK
    <2>7. CASE Create(r)
        BY <2>7, <1>h, <1>s DEF Create, Goto, timeVars, TypeOK
    <2>8. CASE CommitUnanswered(r)
        BY <2>8, <1>h, <1>f, <1>s DEF CommitUnanswered, Goto, timeVars, TypeOK
    <2>9. CASE Rollback(r)
        BY <2>9, <1>h, <1>s DEF Rollback, Goto, timeVars, runVars, TypeOK
    <2>10. CASE Release(r)
        <3>1. stage' \in [Requests -> Stage] /\ began' \in [Requests -> 0..MaxTime]
            BY <2>10, <1>l, <1>s DEF Release, TypeOK
        <3>2. reserved' \in [Requests -> 0..MaxTime]
            <4>1. reserved' \in {reserved, [reserved EXCEPT ![r] = 0]}
                BY <2>10 DEF Release
            <4> QED BY <4>1, AdmissionAssumption DEF TypeOK
        <3>4. tokens' \subseteq tokens
            BY <2>10 DEF Release
        <3>3. faults' \in 0..MaxFaults
            BY <2>10, <1>f, <1>s DEF Release, TypeOK
        <3> QED BY <2>10, <3>1, <3>2, <3>3, <3>4, <1>h DEF Release, runVars, TypeOK
    <2> QED BY <1>9, <2>1, <2>2, <2>3, <2>4, <2>5, <2>6, <2>7, <2>8, <2>9, <2>10 DEF Submit
<1> QED
    BY <1>1, <1>2, <1>3, <1>4, <1>5, <1>6, <1>7, <1>8, <1>9 DEF Next

\* Nothing but a commit adds a submission or a queued run.
LEMMA RunsKept ==
    ASSUME TypeOK, Quiet \/ Progresses
    PROVE  /\ Submissions' = Submissions
           /\ \A r \in Requests : Existing(r)' = Existing(r)
           /\ Queued' \subseteq Queued
           /\ \A r \in Requests : Admitted(r)' \subseteq Admitted(r)
<1>1. CASE Quiet
    BY <1>1 DEF Quiet, Submissions, Existing, Queued, Admitted, ActiveRuns
<1>2. CASE Progresses
    <2>1. PICK r \in Requests :
            /\ \/ /\ status[r] = "queued"
                  /\ status' = [status EXCEPT ![r] = "running"]
                  /\ UNCHANGED reopened
               \/ /\ status[r] \in {"queued", "running"}
                  /\ status' = [status EXCEPT ![r] = "ended"]
                  /\ UNCHANGED reopened
               \/ /\ status[r] = "ended"
                  /\ status' = [status EXCEPT ![r] = "running"]
                  /\ reopened' = reopened \cup {r}
            /\ UNCHANGED sent
        BY <1>2 DEF Progresses
    <2>2. \A q \in Requests : /\ status'[q] # "none" <=> status[q] # "none"
                              /\ status'[q] = "queued" => status[q] = "queued"
                              /\ status'[q] \in {"queued", "running"} =>
                                    status[q] \in {"queued", "running"} \/ q \in reopened'
                              /\ q \in reopened => q \in reopened'
        BY <2>1 DEF TypeOK
    <2>3. Submissions' = Submissions
        BY <2>2 DEF Submissions
    <2>4. \A q \in Requests : Existing(q)' = Existing(q)
        BY <2>1, <2>3 DEF Existing
    <2>5. Queued' \subseteq Queued
        BY <2>2 DEF Queued
    <2>6. \A q \in Requests : Admitted(q)' \subseteq Admitted(q)
        BY <2>2 DEF Admitted, ActiveRuns
    <2> QED BY <2>3, <2>4, <2>5, <2>6
<1> QED
    BY <1>1, <1>2

\* A commit adds one run.
LEMMA CommitAdds ==
    ASSUME TypeOK, NEW r \in Requests,
           status' = [status EXCEPT ![r] = "queued"], UNCHANGED reopened
    PROVE  /\ Queued' \subseteq Queued \cup {r}
           /\ \A q \in Requests : /\ Admitted(q)' \subseteq Admitted(q) \cup {r}
                                  /\ SessionOf[q] # SessionOf[r] => Admitted(q)' = Admitted(q)
                                  /\ SessionOf[q] = SessionOf[r] => Admitted(q) = Admitted(r)
<1>1. \A q \in Requests : status'[q] = IF q = r THEN "queued" ELSE status[q]
    BY DEF TypeOK
<1> QED
    BY <1>1 DEF Queued, Admitted, ActiveRuns

LEMMA CountsAreNumbers ==
    /\ Queued \subseteq Requests /\ Cardinality(Queued) \in Nat
    /\ \A r \in Requests : Admitted(r) \subseteq Requests /\ Cardinality(Admitted(r)) \in Nat
<1>1. Queued \subseteq Requests /\ \A r \in Requests : Admitted(r) \subseteq Requests
    BY DEF Queued, Admitted, ActiveRuns
<1>2. \A S \in SUBSET Requests : Cardinality(S) \in Nat
    BY NoMore
<1> QED
    BY <1>1, <1>2

LEMMA LimitStep == IInv /\ [Next]_vars => WithinLimits'
<1> SUFFICES ASSUME IInv, [Next]_vars PROVE WithinLimits'
    OBVIOUS
<1>0. /\ TypeOK /\ RoomChecked /\ WithinLimits
      /\ Concurrent \in Nat /\ QueueCapacity \in Nat
    BY AdmissionAssumption DEF IInv
<1>1. CASE Quiet \/ Progresses
    <2>1. Cardinality(Queued') <= Cardinality(Queued) /\ Cardinality(Queued') \in Nat
        BY <1>0, <1>1, RunsKept, CountsAreNumbers, NoMore
    <2>2. ASSUME NEW r \in Requests
          PROVE  /\ Cardinality(Admitted(r)') <= Cardinality(Admitted(r))
                 /\ Cardinality(Admitted(r)') \in Nat
        BY <1>0, <1>1, RunsKept, CountsAreNumbers, NoMore
    <2> QED BY <1>0, <2>1, <2>2, CountsAreNumbers DEF WithinLimits
<1>2. CASE Commits
    <2>1. PICK r \in holder : /\ stage[r] = "reserved"
                              /\ status' = [status EXCEPT ![r] = "queued"]
                              /\ UNCHANGED reopened
        BY <1>2 DEF Commits
    <2>2. r \in Requests
        BY <1>0 DEF TypeOK
    <2>3. Cardinality(Queued) < QueueCapacity /\ Cardinality(Admitted(r)) < Concurrent
        BY <1>0, <2>1 DEF RoomChecked
    <2>4. Queued' \subseteq Requests /\ \A q \in Requests : Admitted(q)' \subseteq Requests
        BY DEF Queued, Admitted, ActiveRuns
    <2>5. Cardinality(Queued') <= QueueCapacity
        <3>1. Cardinality(Queued') <= Cardinality(Queued) + 1 /\ Cardinality(Queued') \in Nat
            BY <1>0, <2>1, <2>2, <2>4, CommitAdds, CountsAreNumbers, OneMore, NoMore
        <3> QED BY <1>0, <2>3, <3>1, CountsAreNumbers
    <2>6. ASSUME NEW q \in Requests
          PROVE  Cardinality(Admitted(q)') <= Concurrent
        <3>1. CASE SessionOf[q] # SessionOf[r]
            <4>1. Admitted(q)' = Admitted(q)
                BY <1>0, <2>1, <2>2, <3>1, CommitAdds
            <4> QED BY <1>0, <4>1 DEF WithinLimits
        <3>2. CASE SessionOf[q] = SessionOf[r]
            <4>1. Admitted(q)' \subseteq Admitted(q) \cup {r} /\ Admitted(q) = Admitted(r)
                BY <1>0, <2>1, <2>2, <3>2, CommitAdds
            <4>2. /\ Cardinality(Admitted(q)') <= Cardinality(Admitted(q)) + 1
                  /\ Cardinality(Admitted(q)') \in Nat
                BY <2>2, <2>4, <4>1, CountsAreNumbers, OneMore, NoMore
            <4> QED BY <1>0, <2>3, <4>1, <4>2, CountsAreNumbers
        <3> QED BY <3>1, <3>2
    <2> QED BY <2>5, <2>6 DEF WithinLimits
<1> QED
    BY <1>1, <1>2, StepKinds

\* How a request that holds the lock after a step got there.
LEMMA HolderMoves ==
    ASSUME TypeOK, KeyFree, [Next]_vars, NEW r \in holder'
    PROVE  \/ /\ r \in holder
              /\ \/ stage'[r] = stage[r]
                 \/ stage[r] = "checked" /\ stage'[r] = "reserved"
                 \/ stage'[r] = "checked" /\ Check(r)
           \/ stage'[r] = "checking" /\ Existing(r) = {}
<1> DEFINE Goal == \/ /\ r \in holder
                      /\ \/ stage'[r] = stage[r]
                         \/ stage[r] = "checked" /\ stage'[r] = "reserved"
                         \/ stage'[r] = "checked" /\ Check(r)
                   \/ stage'[r] = "checking" /\ Existing(r) = {}
<1>t. stage \in [Requests -> Stage] /\ holder \subseteq Requests
    BY DEF TypeOK
<1>h. r \in holder => stage[r] \in {"checking", "checked", "reserved"}
    BY DEF KeyFree
<1>1. CASE UNCHANGED vars \/ LoseData \/ Tick
    BY <1>1 DEF vars, LoseData, Tick
<1>2. ASSUME NEW q \in Requests, Begin(q) \/ Crash(q) \/ Disconnect(q)
      PROVE  Goal
    BY <1>2, <1>t, <1>h DEF Begin, Crash, Disconnect, Goto, Leave
<1>3. ASSUME NEW q \in Requests, StartRun(q) \/ EndRun(q) \/ ReopenRun(q)
      PROVE  Goal
    BY <1>3 DEF StartRun, EndRun, ReopenRun
<1>4. ASSUME NEW q \in Requests, Submit(q)
      PROVE  Goal
    <2>1. CASE Lock(q)
        BY <2>1, <1>t, <1>h DEF Lock, Goto, Leave
    <2>2. CASE Check(q)
        <3>1. CASE q = r
            BY <2>2, <3>1, <1>t DEF Check, Goto
        <3>2. CASE q # r
            BY <2>2, <3>2, <1>t DEF Check, Goto
        <3> QED BY <3>1, <3>2
    <2>3. CASE Refuse(q) \/ ReserveDenied(q) \/ ReserveFails(q)
        BY <2>3, <1>t DEF Refuse, ReserveDenied, ReserveFails, Goto, Leave
    <2>4. CASE Reserve(q)
        BY <2>4, <1>t DEF Reserve, Goto
    <2>5. CASE Create(q) \/ CommitUnanswered(q)
        BY <2>5 DEF Create, CommitUnanswered
    <2>6. CASE Rollback(q)
        BY <2>6, <1>t DEF Rollback, Goto
    <2>7. CASE Release(q)
        BY <2>7, <1>t, <1>h DEF Release, Goto, Leave
    <2> QED BY <1>4, <2>1, <2>2, <2>3, <2>4, <2>5, <2>6, <2>7 DEF Submit
<1> QED
    BY <1>1, <1>2, <1>3, <1>4 DEF Next

LEMMA KeyStep == IInv /\ [Next]_vars => KeyFree'
<1> SUFFICES ASSUME IInv, [Next]_vars, NEW r \in holder'
             PROVE  stage'[r] \in {"checking", "checked", "reserved"} /\ Existing(r)' = {}
    BY DEF KeyFree, Existing
<1>1. TypeOK /\ KeyFree /\ r \in Requests
    BY HolderType DEF IInv
<1>2. stage'[r] \in {"checking", "checked", "reserved"} /\ Existing(r) = {}
    BY <1>1, HolderMoves DEF KeyFree
<1>3. ~Commits
    BY DEF Commits
<1> QED
    BY <1>1, <1>2, <1>3, StepKinds, RunsKept

LEMMA RoomStep == IInv /\ [Next]_vars => RoomChecked'
<1> SUFFICES ASSUME IInv, [Next]_vars,
                    NEW r \in holder', stage'[r] \in {"checked", "reserved"}
             PROVE  /\ Cardinality(Queued') < QueueCapacity
                    /\ Cardinality(Admitted(r)') < Concurrent
    BY DEF RoomChecked, Queued, Admitted, ActiveRuns
<1>1. /\ TypeOK /\ KeyFree /\ RoomChecked /\ r \in Requests
      /\ Concurrent \in Nat /\ QueueCapacity \in Nat
    BY HolderType, AdmissionAssumption DEF IInv
<1>2. Quiet \/ Progresses
    BY StepKinds DEF Commits
<1>3. /\ Cardinality(Queued') <= Cardinality(Queued) /\ Cardinality(Queued') \in Nat
      /\ Cardinality(Admitted(r)') <= Cardinality(Admitted(r))
      /\ Cardinality(Admitted(r)') \in Nat
    BY <1>1, <1>2, RunsKept, CountsAreNumbers, NoMore
<1>4. Cardinality(Queued) < QueueCapacity /\ Cardinality(Admitted(r)) < Concurrent
    <2>1. CASE r \in holder /\ stage[r] \in {"checked", "reserved"}
        BY <1>1, <2>1 DEF RoomChecked
    <2>2. CASE Check(r)
        <3>1. Admitted(r) \subseteq ActiveRuns(r) /\ ActiveRuns(r) \subseteq Requests
            BY DEF Admitted, ActiveRuns
        <3>2. /\ Cardinality(Admitted(r)) <= Cardinality(ActiveRuns(r))
              /\ Cardinality(ActiveRuns(r)) \in Nat
            BY <3>1, NoMore
        <3>3. Cardinality(ActiveRuns(r)) < Concurrent /\ ~(Cardinality(Queued) >= QueueCapacity)
            BY <2>2 DEF Check, Admissible, QueueFull
        <3> QED BY <1>1, <3>2, <3>3, CountsAreNumbers
    <2> QED BY <1>1, <2>1, <2>2, HolderMoves
<1> QED
    BY <1>1, <1>3, <1>4, CountsAreNumbers

LEMMA QuotaStep == IInv /\ [Next]_vars => QuotaHeld'
<1> SUFFICES ASSUME IInv, [Next]_vars, NEW w \in Windows, NEW r \in Requests,
                    <<w, r>> \in tokens', status'[r] = "none"
             PROVE  stage'[r] \in {"reserved", "releasing", "dead"}
    BY DEF QuotaHeld
<1>t. /\ stage \in [Requests -> Stage]
      /\ status \in [Requests -> {"none", "queued", "running", "ended"}]
    BY DEF IInv, TypeOK
<1>h. <<w, r>> \in tokens /\ status[r] = "none" => stage[r] \in {"reserved", "releasing", "dead"}
    BY DEF IInv, QuotaHeld
<1>1. CASE UNCHANGED vars \/ LoseData \/ Tick
    BY <1>1, <1>h DEF vars, LoseData, Tick, runVars
<1>2. ASSUME NEW q \in Requests, Begin(q) \/ Crash(q) \/ Disconnect(q)
      PROVE  stage'[r] \in {"reserved", "releasing", "dead"}
    BY <1>2, <1>t, <1>h DEF Begin, Crash, Disconnect, Goto, Leave, runVars
<1>3. ASSUME NEW q \in Requests, StartRun(q) \/ EndRun(q) \/ ReopenRun(q)
      PROVE  stage'[r] \in {"reserved", "releasing", "dead"}
    BY <1>3, <1>t, <1>h DEF StartRun, EndRun, ReopenRun
<1>4. ASSUME NEW q \in Requests, Submit(q)
      PROVE  stage'[r] \in {"reserved", "releasing", "dead"}
    <2>1. CASE Lock(q)
        BY <2>1, <1>t, <1>h DEF Lock, Goto, Leave, runVars
    <2>2. CASE Check(q) \/ Refuse(q) \/ ReserveDenied(q) \/ Rollback(q)
        BY <2>2, <1>t, <1>h DEF Check, Refuse, ReserveDenied, Rollback, Goto, Leave, runVars
    <2>3. CASE Reserve(q)
        <3>1. CASE q = r
            BY <2>3, <3>1, <1>t DEF Reserve, Goto
        <3>2. CASE q # r
            BY <2>3, <3>2, <1>t, <1>h DEF Reserve, Goto, runVars
        <3> QED BY <3>1, <3>2
    <2>4. CASE ReserveFails(q)
        <3>1. CASE q = r
            BY <2>4, <3>1, <1>t DEF ReserveFails, Leave, Goto
        <3>2. CASE q # r
            BY <2>4, <3>2, <1>t, <1>h DEF ReserveFails, Leave, Goto, runVars
        <3> QED BY <3>1, <3>2
    <2>5. CASE Create(q) \/ CommitUnanswered(q)
        BY <2>5, <1>t, <1>h DEF Create, CommitUnanswered, Goto
    <2>6. CASE Release(q)
        <3>1. CASE q = r
            BY <2>6, <3>1, <1>t, <1>h DEF Release, Leave, Goto, runVars
        <3>2. CASE q # r
            BY <2>6, <3>2, <1>t, <1>h DEF Release, Leave, Goto, runVars
        <3> QED BY <3>1, <3>2
    <2> QED BY <1>4, <2>1, <2>2, <2>3, <2>4, <2>5, <2>6 DEF Submit
<1> QED
    BY <1>1, <1>2, <1>3, <1>4 DEF Next

LEMMA Inductive == Spec => []IInv
<1>1. IInv /\ [Next]_vars => IInv'
    BY TypeStep, KeyStep, RoomStep, LimitStep, QuotaStep DEF IInv
<1> QED
    BY InitIInv, <1>1, PTL DEF Spec

-----------------------------------------------------------------------------
(* The theorems *)

\* Every row, reservation and request keeps its type; the lock on the active
\* configuration has one holder.
THEOREM AdmissionTypeCorrect == Spec => []TypeOK
<1>1. IInv => TypeOK
    BY DEF IInv
<1> QED
    BY <1>1, Inductive, PTL

\* Requests with one Idempotency-Key never collide at the unique constraint:
\* the first is seen before the second has cost anything (create_analysis).
THEOREM KeysNeverCollide == Spec => []NoKeyCollision
<1>1. IInv => NoKeyCollision
    BY DEF IInv, KeyFree, NoKeyCollision, Taken, Existing
<1> QED
    BY <1>1, Inductive, PTL

\* The session's concurrency, manual retries aside, and the queue's capacity
\* are never exceeded, whatever the overlap (create_analysis, _quota_decision).
THEOREM LimitsHold == Spec => []RunsWithinLimits
<1>1. IInv => RunsWithinLimits
    <2> SUFFICES ASSUME IInv PROVE RunsWithinLimits
        OBVIOUS
    <2>1. WithinLimits /\ Concurrent \in Nat /\ reopened \subseteq Requests
        BY AdmissionAssumption DEF IInv, TypeOK
    <2>2. ASSUME NEW r \in Requests
          PROVE  Cardinality(ActiveRuns(r)) <= Concurrent + Cardinality(reopened)
        <3>1. IsFiniteSet(Admitted(r)) /\ IsFiniteSet(reopened)
            BY <2>1, AdmissionAssumption, CountsAreNumbers, FS_Subset
        <3>2. /\ IsFiniteSet(Admitted(r) \cup reopened)
              /\ Cardinality(Admitted(r) \cup reopened)
                    <= Cardinality(Admitted(r)) + Cardinality(reopened)
            <4>1. IsFiniteSet(Admitted(r) \cap reopened)
                BY <3>1, FS_Subset
            <4>2. /\ Cardinality(Admitted(r) \cap reopened) \in Nat
                  /\ Cardinality(Admitted(r)) \in Nat /\ Cardinality(reopened) \in Nat
                BY <3>1, <4>1, FS_CardinalityType
            <4>3. /\ IsFiniteSet(Admitted(r) \cup reopened)
                  /\ Cardinality(Admitted(r) \cup reopened) =
                        Cardinality(Admitted(r)) + Cardinality(reopened)
                            - Cardinality(Admitted(r) \cap reopened)
                BY <3>1, FS_Union
            <4> QED BY <4>2, <4>3
        <3>3. ActiveRuns(r) \subseteq Admitted(r) \cup reopened
            BY DEF Admitted
        <3>4. /\ Cardinality(ActiveRuns(r)) <= Cardinality(Admitted(r) \cup reopened)
              /\ Cardinality(ActiveRuns(r)) \in Nat
              /\ Cardinality(Admitted(r) \cup reopened) \in Nat
              /\ Cardinality(reopened) \in Nat
            BY <3>1, <3>2, <3>3, FS_Subset, FS_CardinalityType
        <3> QED BY <2>1, <3>2, <3>4, CountsAreNumbers DEF WithinLimits
    <2> QED BY <2>1, <2>2 DEF WithinLimits, RunsWithinLimits, ActiveRuns
<1> QED
    BY <1>1, Inductive, PTL

\* An orderly refusal or rollback keeps no quota (_reserve_rate, _release_rate).
THEOREM QuotaNeverLeaks == Spec => []NoLeak
<1>1. IInv => NoLeak
    BY DEF IInv, QuotaHeld, NoLeak, Working
<1> QED
    BY <1>1, Inductive, PTL

-----------------------------------------------------------------------------
(* The windows *)

\* A request that has not committed has no submission.
Fresh == \A r \in Requests :
    stage[r] \in {"idle", "waiting", "checking", "checked", "reserved"} => status[r] = "none"

\* No transaction begins in the future.
Dated == \A r \in Requests : began[r] <= now

\* The reservations Redis still has of one window.
Holding(w, r, t) ==
    {q \in Sharing(w, r) : /\ <<w, q>> \in tokens
                           /\ t - Length(w) < reserved[q] /\ reserved[q] <= t}

\* Redis never lets a window overflow with reservations it remembers.
TokensFit == \A w \in Windows, r \in Requests, t \in 0..MaxTime :
    Cardinality(Holding(w, r, t)) <= Limit(w)

\* The runs of one window that PostgreSQL dates when they were admitted.
WellDated(w, r, t) == {q \in Created(w, r, t - Length(w), t) : reserved[q] <= began[q]}

\* PostgreSQL never lets a window overflow with runs it dates correctly.
RowsFit == \A w \in Windows, r \in Requests, t \in 0..MaxTime :
    Cardinality(WellDated(w, r, t)) <= Limit(w)

\* The holder of the lock has found room among the submissions, and nobody has
\* taken it since, unless time has passed before its reservation.
RowsChecked == \A r \in holder, w \in Windows :
    /\ stage[r] = "checked" /\ began[r] = now => ~Full(Counted(w, r, now), w)
    /\ stage[r] = "reserved" /\ reserved[r] <= began[r] =>
          ~Full(Counted(w, r, reserved[r]), w)

WindowInv == IInv /\ Fresh /\ Dated /\ TokensFit /\ RowsFit /\ RowsChecked

\* Windows have a length and a limit, and requests share a window or do not.
LEMMA WindowFacts ==
    /\ \A w \in Windows : Length(w) \in Nat \ {0} /\ Limit(w) \in Nat
    /\ \A w \in Windows, r \in Requests :
          /\ Sharing(w, r) \subseteq Requests
          /\ \A q \in Sharing(w, r) : Sharing(w, q) = Sharing(w, r)
    /\ \A w \in Windows, r \in Requests : Sharing(w, r)' = Sharing(w, r)
<1>1. \A w \in Windows : Length(w) \in Nat \ {0} /\ Limit(w) \in Nat
    BY AdmissionAssumption DEF Length, Limit
<1>2. ASSUME NEW w \in Windows, NEW r \in Requests
      PROVE  /\ Sharing(w, r) \subseteq Requests
             /\ \A q \in Sharing(w, r) : Sharing(w, q) = Sharing(w, r)
             /\ Sharing(w, r)' = Sharing(w, r)
    BY DEF Sharing
<1> QED
    BY <1>1, <1>2

LEMMA InitWindow == Init => WindowInv
<1> SUFFICES ASSUME Init PROVE WindowInv
    OBVIOUS
<1>1. Cardinality({}) = 0
    BY FS_EmptySet
<1>2. Submissions = {}
    BY DEF Init, Submissions
<1>3. ASSUME NEW w \in Windows, NEW r \in Requests, NEW t \in 0..MaxTime
      PROVE  Holding(w, r, t) = {} /\ WellDated(w, r, t) = {}
    BY <1>2 DEF Init, Holding, WellDated, Created
<1>4. ASSUME NEW w \in Windows, NEW r \in Requests, NEW t \in 0..MaxTime
      PROVE  /\ Cardinality(Holding(w, r, t)) <= Limit(w)
             /\ Cardinality(WellDated(w, r, t)) <= Limit(w)
    <2>1. Limit(w) \in Nat
        BY WindowFacts
    <2>2. Cardinality(Holding(w, r, t)) = 0 /\ Cardinality(WellDated(w, r, t)) = 0
        BY <1>1, <1>3
    <2> QED BY <2>1, <2>2
<1>5. TokensFit /\ RowsFit
    BY <1>4 DEF TokensFit, RowsFit
<1> QED
    BY <1>5, InitIInv DEF Init, WindowInv, Fresh, Dated, RowsChecked

\* A commit is the only step that gives a request a run, and it leaves it past
\* its reservation.
LEMMA FreshStep == WindowInv /\ [Next]_vars => Fresh'
<1> SUFFICES ASSUME WindowInv, [Next]_vars, NEW r \in Requests,
                    stage'[r] \in {"idle", "waiting", "checking", "checked", "reserved"}
             PROVE  status'[r] = "none"
    BY DEF Fresh
<1>t. /\ stage \in [Requests -> Stage]
      /\ status \in [Requests -> {"none", "queued", "running", "ended"}]
      /\ holder \subseteq Requests
    BY DEF WindowInv, IInv, TypeOK
<1>h. stage[r] \in {"idle", "waiting", "checking", "checked", "reserved"} => status[r] = "none"
    BY DEF WindowInv, Fresh
<1>s. stage[r] \in {"idle", "waiting", "checking", "checked", "reserved"}
    <2>1. CASE UNCHANGED vars \/ LoseData \/ Tick
        BY <2>1 DEF vars, LoseData, Tick
    <2>2. ASSUME NEW q \in Requests, Begin(q) \/ Crash(q) \/ Disconnect(q)
          PROVE  stage[r] \in {"idle", "waiting", "checking", "checked", "reserved"}
        BY <2>2, <1>t DEF Begin, Crash, Disconnect, Goto, Leave
    <2>3. ASSUME NEW q \in Requests, StartRun(q) \/ EndRun(q) \/ ReopenRun(q)
          PROVE  stage[r] \in {"idle", "waiting", "checking", "checked", "reserved"}
        BY <2>3 DEF StartRun, EndRun, ReopenRun
    <2>4. ASSUME NEW q \in Requests, Submit(q)
          PROVE  stage[r] \in {"idle", "waiting", "checking", "checked", "reserved"}
        <3>1. CASE Lock(q) \/ Check(q) \/ Refuse(q)
            BY <3>1, <1>t DEF Lock, Check, Refuse, Goto, Leave
        <3>2. CASE Reserve(q) \/ ReserveDenied(q) \/ ReserveFails(q)
            BY <3>2, <1>t DEF Reserve, ReserveDenied, ReserveFails, Goto, Leave
        <3>3. CASE Create(q) \/ CommitUnanswered(q) \/ Rollback(q)
            BY <3>3, <1>t DEF Create, CommitUnanswered, Rollback, Goto, Leave
        <3>4. CASE Release(q)
            BY <3>4, <1>t DEF Release, Goto, Leave
        <3> QED BY <2>4, <3>1, <3>2, <3>3, <3>4 DEF Submit
    <2> QED BY <2>1, <2>2, <2>3, <2>4 DEF Next
<1>1. CASE Quiet
    BY <1>1, <1>h, <1>s DEF Quiet
<1>2. CASE Commits
    <2>1. PICK q \in holder : /\ stage' \in {[stage EXCEPT ![q] = s] : s \in {"created", "releasing"}}
                              /\ status' = [status EXCEPT ![q] = "queued"]
        BY <1>2 DEF Commits
    <2>2. q # r
        BY <2>1, <1>t
    <2> QED BY <2>1, <2>2, <1>t, <1>h, <1>s
<1>3. CASE Progresses
    <2>1. PICK q \in Requests : \/ /\ status[q] = "queued"
                                   /\ status' = [status EXCEPT ![q] = "running"]
                                \/ /\ status[q] \in {"queued", "running"}
                                   /\ status' = [status EXCEPT ![q] = "ended"]
                                \/ /\ status[q] = "ended"
                                   /\ status' = [status EXCEPT ![q] = "running"]
        BY <1>3 DEF Progresses
    <2>2. q # r
        BY <2>1, <1>h, <1>s
    <2> QED BY <2>1, <2>2, <1>t, <1>h, <1>s
<1> QED
    BY <1>1, <1>2, <1>3, StepKinds

\* What a step may do to the times of the requests: those of a submission are
\* settled.
LEMMA TimesStep ==
    ASSUME WindowInv, [Next]_vars
    PROVE  /\ now' >= now /\ Dated'
           /\ \A q \in Submissions : began'[q] = began[q] /\ reserved'[q] = reserved[q]
<1>t. /\ began \in [Requests -> 0..MaxTime] /\ reserved \in [Requests -> 0..MaxTime]
      /\ status \in [Requests -> {"none", "queued", "running", "ended"}]
      /\ now \in 0..MaxTime /\ MaxTime \in Nat
    BY AdmissionAssumption DEF WindowInv, IInv, TypeOK
<1>f. /\ \A q \in Requests : status[q] # "none" =>
            stage[q] \notin {"idle", "waiting", "checking", "checked", "reserved"}
      /\ \A q \in Requests : began[q] <= now
    BY DEF WindowInv, Fresh, Dated
<1> DEFINE Fine == /\ \A q \in Requests : began'[q] <= now'
                   /\ \A q \in Requests : status[q] # "none" =>
                          began'[q] = began[q] /\ reserved'[q] = reserved[q]
<1>l. ASSUME NEW q \in Requests, NEW s, Leave(q, s)
      PROVE  \A p \in Requests : /\ began'[p] <= now
                                 /\ status[p] # "none" => began'[p] = began[p]
    <2>1. began' = began \/ (status[q] = "none" /\ began' = [began EXCEPT ![q] = 0])
        BY <1>l DEF Leave
    <2> QED BY <2>1, <1>t, <1>f
<1>n. now' >= now /\ now' \in Int
    BY <1>t DEF Next, vars, LoseData, Tick, Begin, Crash, Disconnect, StartRun, EndRun,
        ReopenRun, Submit, Lock, Check, Refuse, Reserve, ReserveDenied, ReserveFails,
        Create, CommitUnanswered, Rollback, Release, timeVars
<1>g. Fine
    <2>1. CASE UNCHANGED vars \/ LoseData \/ Tick
        BY <2>1, <1>t, <1>f, <1>n DEF vars, LoseData, Tick, timeVars
    <2>2. ASSUME NEW r \in Requests, Begin(r)
          PROVE  Fine
        BY <2>2, <1>t, <1>f DEF Begin
    <2>3. ASSUME NEW r \in Requests, Crash(r)
          PROVE  Fine
        BY <2>3, <1>l DEF Crash
    <2>4. ASSUME NEW r \in Requests, Disconnect(r) \/ StartRun(r) \/ EndRun(r) \/ ReopenRun(r)
          PROVE  Fine
        BY <2>4, <1>f DEF Disconnect, StartRun, EndRun, ReopenRun, timeVars
    <2>5. ASSUME NEW r \in Requests, Submit(r)
          PROVE  Fine
        <3>1. CASE Lock(r)
            <4>1. UNCHANGED <<now, reserved, began>>
                     \/ (UNCHANGED <<now, reserved>> /\ \E s : Leave(r, s))
                BY <3>1 DEF Lock
            <4> QED BY <4>1, <1>l, <1>f
        <3>2. CASE Check(r) \/ Create(r) \/ CommitUnanswered(r) \/ Rollback(r)
            BY <3>2, <1>f DEF Check, Create, CommitUnanswered, Rollback, timeVars
        <3>3. CASE Refuse(r) \/ ReserveDenied(r)
            BY <3>3, <1>l DEF Refuse, ReserveDenied
        <3>4. CASE Reserve(r)
            <4>1. status[r] = "none"
                BY <3>4, <1>f DEF Reserve
            <4> QED BY <3>4, <4>1, <1>t, <1>f DEF Reserve
        <3>5. CASE ReserveFails(r)
            <4>1. status[r] = "none"
                BY <3>5, <1>f DEF ReserveFails
            <4>2. \A q \in Requests : status[q] # "none" => reserved'[q] = reserved[q]
                BY <3>5, <4>1, <1>t DEF ReserveFails
            <4>3. now' = now /\ Leave(r, "dead")
                BY <3>5 DEF ReserveFails
            <4> QED BY <4>2, <4>3, <1>l
        <3>6. CASE Release(r)
            <4>1. now' = now /\ \A q \in Requests : status[q] # "none" => reserved'[q] = reserved[q]
                BY <3>6, <1>t DEF Release
            <4>2. UNCHANGED began \/ \E s : Leave(r, s)
                BY <3>6 DEF Release
            <4> QED BY <4>1, <4>2, <1>l, <1>f
        <3> QED BY <2>5, <3>1, <3>2, <3>3, <3>4, <3>5, <3>6 DEF Submit
    <2> QED BY <2>1, <2>2, <2>3, <2>4, <2>5 DEF Next
<1> QED
    BY <1>n, <1>g DEF Dated, Submissions

\* Redis forgets reservations, or the script adds one to windows with room.
LEMMA TokenStep ==
    ASSUME WindowInv, [Next]_vars
    PROVE  \/ /\ tokens' \subseteq tokens
              /\ \A w \in Windows, q \in Requests :
                    <<w, q>> \in tokens' => reserved'[q] = reserved[q]
           \/ \E r \in Requests : /\ Blocked(r) = {}
                                  /\ tokens' = tokens \cup (Windows \X {r})
                                  /\ reserved' = [reserved EXCEPT ![r] = now]
<1>t. reserved \in [Requests -> 0..MaxTime] /\ tokens \subseteq Windows \X Requests
    BY DEF WindowInv, IInv, TypeOK
<1> DEFINE Forgets == /\ tokens' \subseteq tokens
                      /\ \A w \in Windows, q \in Requests :
                            <<w, q>> \in tokens' => reserved'[q] = reserved[q]
<1>1. CASE UNCHANGED vars \/ LoseData \/ Tick
    BY <1>1 DEF vars, LoseData, Tick, timeVars
<1>2. ASSUME NEW r \in Requests,
             Begin(r) \/ Crash(r) \/ Disconnect(r) \/ StartRun(r) \/ EndRun(r) \/ ReopenRun(r)
      PROVE  Forgets
    BY <1>2 DEF Begin, Crash, Disconnect, StartRun, EndRun, ReopenRun, timeVars
<1>3. ASSUME NEW r \in Requests, Submit(r), ~(Reserve(r) \/ ReserveFails(r))
      PROVE  Forgets
    <2>1. CASE Release(r)
        <3>1. tokens' \subseteq tokens
            BY <2>1 DEF Release
        <3>2. \/ UNCHANGED reserved
              \/ (\A w \in Windows : <<w, r>> \notin tokens) /\ reserved' = [reserved EXCEPT ![r] = 0]
            BY <2>1 DEF Release
        <3> QED BY <3>1, <3>2, <1>t
    <2> QED
        BY <1>3, <2>1 DEF Submit, Lock, Check, Refuse, ReserveDenied, Create,
                        CommitUnanswered, Rollback, timeVars
<1>4. ASSUME NEW r \in Requests, Reserve(r) \/ ReserveFails(r)
      PROVE  \/ Forgets
             \/ /\ Blocked(r) = {}
                /\ tokens' = tokens \cup (Windows \X {r})
                /\ reserved' = [reserved EXCEPT ![r] = now]
    BY <1>4 DEF Reserve, ReserveFails
<1> QED
    BY <1>1, <1>2, <1>3, <1>4 DEF Next

\* A set of requests that grows by one at most stays within a limit it had not
\* reached.
LEMMA RoomForOne ==
    ASSUME NEW S \in SUBSET Requests, NEW T \in SUBSET Requests, NEW r \in Requests,
           NEW w \in Windows, T \subseteq S \cup {r}, ~Full(S, w)
    PROVE  Cardinality(T) <= Limit(w)
<1>1. Cardinality(S) \in Nat /\ Cardinality(T) <= Cardinality(S) + 1
    BY OneMore
<1>2. Cardinality(T) \in Nat
    BY NoMore
<1>3. Limit(w) \in Nat /\ ~(Cardinality(S) >= Limit(w))
    BY WindowFacts DEF Full
<1> QED
    BY <1>1, <1>2, <1>3

\* A smaller set is no fuller.
LEMMA StaysWithin ==
    ASSUME NEW S \in SUBSET Requests, NEW T \in SUBSET S, NEW w \in Windows
    PROVE  /\ ~Full(S, w) => ~Full(T, w)
           /\ Cardinality(S) <= Limit(w) => Cardinality(T) <= Limit(w)
<1>1. /\ Cardinality(S) \in Nat /\ Cardinality(T) \in Nat
      /\ Cardinality(T) <= Cardinality(S)
    BY NoMore
<1>2. Limit(w) \in Nat
    BY WindowFacts
<1> QED
    BY <1>1, <1>2 DEF Full

\* The script counts what it adds to: _reserve_rate.
LEMMA TokensFitStep == WindowInv /\ [Next]_vars => TokensFit'
<1> SUFFICES ASSUME WindowInv, [Next]_vars,
                    NEW w \in Windows, NEW r \in Requests, NEW t \in 0..MaxTime
             PROVE  Cardinality(Holding(w, r, t)') <= Limit(w)
    BY DEF TokensFit, Holding, Windows, Sharing, Length, Limit
<1>t. /\ reserved \in [Requests -> 0..MaxTime] /\ now \in 0..MaxTime
      /\ tokens \subseteq Windows \X Requests
      /\ MaxTime \in Nat
    BY AdmissionAssumption DEF WindowInv, IInv, TypeOK
<1>h. Cardinality(Holding(w, r, t)) <= Limit(w)
    BY DEF WindowInv, TokensFit
<1>s. /\ Holding(w, r, t) \subseteq Requests /\ Holding(w, r, t)' \subseteq Requests
      /\ Length(w) \in Nat
    BY WindowFacts DEF Holding
<1>1. CASE /\ tokens' \subseteq tokens
           /\ \A v \in Windows, q \in Requests : <<v, q>> \in tokens' => reserved'[q] = reserved[q]
    <2>1. Holding(w, r, t)' \subseteq Holding(w, r, t)
        BY <1>1, WindowFacts DEF Holding
    <2> QED BY <1>h, <1>s, <2>1, StaysWithin
<1>2. ASSUME NEW a \in Requests, Blocked(a) = {}, tokens' = tokens \cup (Windows \X {a}),
             reserved' = [reserved EXCEPT ![a] = now]
      PROVE  Cardinality(Holding(w, r, t)') <= Limit(w)
    <2>1. \A q \in Requests : /\ q # a => reserved'[q] = reserved[q]
                              /\ <<w, q>> \in tokens' => <<w, q>> \in tokens \/ q = a
                              /\ reserved'[a] = now
        BY <1>2, <1>t
    <2>2. CASE a \in Sharing(w, r) /\ t - Length(w) < now /\ now <= t
        <3>1. Sharing(w, a) = Sharing(w, r)
            BY <2>2, WindowFacts
        <3>2. ~Full(Held(w, a, now), w)
            BY <1>2 DEF Blocked
        <3>3. Holding(w, r, t)' \subseteq Held(w, a, now) \cup {a}
            <4> SUFFICES ASSUME NEW q \in Holding(w, r, t)', q # a PROVE q \in Held(w, a, now)
                OBVIOUS
            <4>1. q \in Requests /\ q \in Sharing(w, a) /\ <<w, q>> \in tokens'
                     /\ t - Length(w) < reserved'[q]
                BY <3>1, WindowFacts DEF Holding
            <4>2. <<w, q>> \in tokens /\ t - Length(w) < reserved[q] /\ reserved[q] \in Int
                BY <4>1, <2>1, <1>t
            <4>3. reserved[q] > now - Length(w)
                BY <4>2, <2>2, <1>t, <1>s
            <4> QED BY <4>1, <4>2, <4>3 DEF Held
        <3>4. Held(w, a, now) \subseteq Requests
            BY DEF Held, Sharing
        <3> QED BY <1>s, <3>2, <3>3, <3>4, RoomForOne
    <2>3. CASE ~(a \in Sharing(w, r) /\ t - Length(w) < now /\ now <= t)
        <3>1. Holding(w, r, t)' \subseteq Holding(w, r, t)
            <4> SUFFICES ASSUME NEW q \in Holding(w, r, t)' PROVE q \in Holding(w, r, t)
                OBVIOUS
            <4>1. q \in Requests /\ q \in Sharing(w, r) /\ <<w, q>> \in tokens'
                     /\ t - Length(w) < reserved'[q] /\ reserved'[q] <= t
                BY WindowFacts DEF Holding
            <4>2. q # a
                BY <2>1, <2>3, <4>1
            <4> QED BY <4>1, <4>2, <2>1 DEF Holding
        <3> QED BY <1>h, <1>s, <3>1, StaysWithin
    <2> QED BY <2>2, <2>3
<1> QED
    BY <1>1, <1>2, TokenStep

\* While no run is committed, the submissions of a window do not change.
LEMMA CountedKept ==
    ASSUME WindowInv, [Next]_vars, Quiet \/ Progresses
    PROVE  /\ \A w \in Windows, r \in Requests, t \in Int :
                 Counted(w, r, t)' = Counted(w, r, t)
           /\ \A w \in Windows, r \in Requests, t \in 0..MaxTime :
                 WellDated(w, r, t)' = WellDated(w, r, t)
<1>1. Submissions' = Submissions
    BY RunsKept DEF WindowInv, IInv
<1>2. \A q \in Submissions : began'[q] = began[q] /\ reserved'[q] = reserved[q]
    BY TimesStep
<1>3. ASSUME NEW w \in Windows, NEW r \in Requests, NEW t \in Int
      PROVE  Counted(w, r, t)' = Counted(w, r, t)
    BY <1>1, <1>2, WindowFacts DEF Counted
<1>4. ASSUME NEW w \in Windows, NEW r \in Requests, NEW t \in 0..MaxTime
      PROVE  WellDated(w, r, t)' = WellDated(w, r, t)
    BY <1>1, <1>2, WindowFacts DEF WellDated, Created
<1> QED
    BY <1>3, <1>4

\* How a request that has checked its limits under the lock got there.
LEMMA CheckedMoves ==
    ASSUME WindowInv, [Next]_vars, NEW r \in holder', stage'[r] \in {"checked", "reserved"}
    PROVE  /\ r \in Requests /\ r \in holder /\ began'[r] = began[r]
           /\ \/ Check(r)
              \/ Reserve(r)
              \/ stage'[r] = stage[r] /\ reserved'[r] = reserved[r]
<1>t. /\ stage \in [Requests -> Stage] /\ holder \subseteq Requests
      /\ began \in [Requests -> 0..MaxTime] /\ reserved \in [Requests -> 0..MaxTime]
    BY DEF WindowInv, IInv, TypeOK
<1>h. /\ r \in Requests /\ r \in holder
      /\ \/ stage'[r] = stage[r]
         \/ stage[r] = "checked" /\ stage'[r] = "reserved"
         \/ stage'[r] = "checked" /\ Check(r)
    BY HolderMoves, HolderType DEF WindowInv, IInv
<1> DEFINE Goal == /\ began'[r] = began[r]
                   /\ \/ Check(r)
                      \/ Reserve(r)
                      \/ stage'[r] = stage[r] /\ reserved'[r] = reserved[r]
<1>1. CASE UNCHANGED vars \/ LoseData \/ Tick
    BY <1>1, <1>h DEF vars, LoseData, Tick, timeVars
<1>2. ASSUME NEW q \in Requests, Begin(q)
      PROVE  Goal
    <2>1. stage' = [stage EXCEPT ![q] = "waiting"] /\ began' = [began EXCEPT ![q] = now]
             /\ UNCHANGED reserved /\ stage[q] = "idle"
        BY <1>2 DEF Begin, Goto
    <2>2. q # r
        BY <1>t, <1>h, <2>1
    <2> QED BY <1>t, <1>h, <2>1, <2>2
<1>3. ASSUME NEW q \in Requests, Crash(q)
      PROVE  Goal
    BY <1>3, <1>t, <1>h DEF Crash, Leave, Goto
<1>4. ASSUME NEW q \in Requests, Disconnect(q) \/ StartRun(q) \/ EndRun(q) \/ ReopenRun(q)
      PROVE  Goal
    BY <1>4 DEF Disconnect, StartRun, EndRun, ReopenRun, timeVars
<1>5. ASSUME NEW q \in Requests, Submit(q)
      PROVE  Goal
    <2>1. CASE Lock(q)
        BY <2>1, <1>t, <1>h DEF Lock, Leave, Goto
    <2>2. CASE Check(q)
        BY <2>2, <1>t, <1>h DEF Check, Goto, timeVars
    <2>3. CASE Refuse(q) \/ ReserveDenied(q) \/ ReserveFails(q)
        BY <2>3, <1>t, <1>h DEF Refuse, ReserveDenied, ReserveFails, Leave, Goto
    <2>4. CASE Reserve(q)
        BY <2>4, <1>t, <1>h DEF Reserve, Goto
    <2>5. CASE Create(q) \/ CommitUnanswered(q) \/ Rollback(q)
        BY <2>5, <1>t, <1>h DEF Create, CommitUnanswered, Rollback, Goto, timeVars
    <2>6. CASE Release(q)
        BY <2>6, <1>t, <1>h DEF Release, Leave, Goto
    <2> QED BY <1>5, <2>1, <2>2, <2>3, <2>4, <2>5, <2>6 DEF Submit
<1> QED
    BY <1>h, <1>1, <1>2, <1>3, <1>4, <1>5 DEF Next

\* What the check under the lock found stays true until the commit: nobody
\* else commits, and an honestly dated row needs the clock to have stood.
LEMMA RowsCheckedStep == WindowInv /\ [Next]_vars => RowsChecked'
<1> SUFFICES ASSUME WindowInv, [Next]_vars, NEW r \in holder', NEW w \in Windows
             PROVE  /\ stage'[r] = "checked" /\ began'[r] = now'
                          => ~Full(Counted(w, r, now)', w)
                    /\ stage'[r] = "reserved" /\ reserved'[r] <= began'[r]
                          => ~Full(Counted(w, r, reserved[r])', w)
    BY DEF RowsChecked, Full, Windows, Limit
<1>t. /\ stage \in [Requests -> Stage] /\ now \in 0..MaxTime
      /\ began \in [Requests -> 0..MaxTime] /\ reserved \in [Requests -> 0..MaxTime]
      /\ status \in [Requests -> {"none", "queued", "running", "ended"}]
      /\ MaxTime \in Nat
    BY AdmissionAssumption DEF WindowInv, IInv, TypeOK
<1>n. now' \in 0..MaxTime /\ reserved' \in [Requests -> 0..MaxTime]
    BY TypeStep DEF WindowInv, IInv, TypeOK
<1>q. Quiet \/ Progresses
    BY StepKinds DEF Commits
<1>s. /\ Submissions' = Submissions
      /\ \A q \in Submissions : q \in Requests /\ began'[q] = began[q]
      /\ now' >= now
    BY <1>q, RunsKept, TimesStep DEF WindowInv, IInv, Submissions
<1>l. Length(w) \in Nat /\ \A q \in Requests : Sharing(w, q)' = Sharing(w, q)
    BY WindowFacts
<1>1. ASSUME stage'[r] = "checked", began'[r] = now'
      PROVE  ~Full(Counted(w, r, now)', w)
    <2>1. /\ r \in Requests /\ r \in holder /\ began'[r] = began[r]
          /\ \/ Check(r)
             \/ Reserve(r)
             \/ stage'[r] = stage[r]
        BY <1>1, CheckedMoves
    <2>2. ~Reserve(r)
        BY <1>1, <1>t, <2>1 DEF Reserve, Goto
    <2>3. ~Full(Counted(w, r, now), w)
        <3>1. CASE Check(r)
            BY <3>1 DEF Check, Admissible, Denied
        <3>2. CASE stage[r] = "checked"
            <4>1. began[r] <= now
                BY <2>1 DEF WindowInv, Dated
            <4>2. began[r] = now
                BY <1>1, <1>s, <1>t, <1>n, <2>1, <4>1
            <4> QED BY <2>1, <3>2, <4>2 DEF WindowInv, RowsChecked
        <3> QED BY <1>1, <2>1, <2>2, <3>1, <3>2
    <2>4. Counted(w, r, now)' \subseteq Counted(w, r, now)
        BY <1>s, <1>l, <1>t, <1>n, <2>1 DEF Counted
    <2>5. Counted(w, r, now) \subseteq Requests
        BY DEF Counted, Sharing
    <2> QED BY <2>3, <2>4, <2>5, StaysWithin
<1>2. ASSUME stage'[r] = "reserved", reserved'[r] <= began'[r]
      PROVE  ~Full(Counted(w, r, reserved[r])', w)
    <2>1. /\ r \in Requests /\ r \in holder /\ began'[r] = began[r]
          /\ \/ Check(r)
             \/ Reserve(r)
             \/ stage'[r] = stage[r] /\ reserved'[r] = reserved[r]
        BY <1>2, CheckedMoves
    <2>2. ~Check(r)
        BY <1>2, <1>t, <2>1 DEF Check, Goto
    <2>3. ~Full(Counted(w, r, reserved'[r]), w)
        <3>1. CASE Reserve(r)
            <4>1. stage[r] = "checked" /\ reserved'[r] = now
                BY <3>1, <1>t, <2>1 DEF Reserve
            <4>2. began[r] <= now
                BY <2>1 DEF WindowInv, Dated
            <4>3. began[r] = now
                BY <1>2, <1>t, <2>1, <4>1, <4>2
            <4> QED BY <2>1, <4>1, <4>3 DEF WindowInv, RowsChecked
        <3>2. CASE stage[r] = "reserved" /\ reserved'[r] = reserved[r]
            BY <1>2, <2>1, <3>2 DEF WindowInv, RowsChecked
        <3> QED BY <1>2, <2>1, <2>2, <3>1, <3>2
    <2>4. Counted(w, r, reserved[r])' \subseteq Counted(w, r, reserved'[r])
        BY <1>s, <1>l, <2>1 DEF Counted
    <2>5. Counted(w, r, reserved'[r]) \subseteq Requests
        BY DEF Counted, Sharing
    <2> QED BY <2>3, <2>4, <2>5, StaysWithin
<1> QED
    BY <1>1, <1>2

\* A commit adds one run, to windows its request found not full.
LEMMA RowsFitStep == WindowInv /\ [Next]_vars => RowsFit'
<1> SUFFICES ASSUME WindowInv, [Next]_vars,
                    NEW w \in Windows, NEW r \in Requests, NEW t \in 0..MaxTime
             PROVE  Cardinality(WellDated(w, r, t)') <= Limit(w)
    BY DEF RowsFit, Windows, Limit
<1>t. /\ began \in [Requests -> 0..MaxTime] /\ reserved \in [Requests -> 0..MaxTime]
      /\ status \in [Requests -> {"none", "queued", "running", "ended"}]
      /\ holder \subseteq Requests /\ MaxTime \in Nat
    BY AdmissionAssumption DEF WindowInv, IInv, TypeOK
<1>h. Cardinality(WellDated(w, r, t)) <= Limit(w)
    BY DEF WindowInv, RowsFit
<1>1. CASE Quiet \/ Progresses
    BY <1>1, <1>h, CountedKept
<1>2. CASE Commits
    <2>1. PICK a \in holder : /\ stage[a] = "reserved"
                              /\ status' = [status EXCEPT ![a] = "queued"]
                              /\ UNCHANGED <<began, reserved>>
        BY <1>2 DEF Commits
    <2>2. a \in Requests /\ Submissions' = Submissions \cup {a} /\ Submissions \subseteq Requests
        BY <2>1, <1>t DEF Submissions
    <2>3. /\ Sharing(w, r)' = Sharing(w, r) /\ Sharing(w, r) \subseteq Requests
          /\ Length(w) \in Nat
        BY WindowFacts
    <2>4. /\ WellDated(w, r, t)' \subseteq WellDated(w, r, t) \cup {a}
          /\ WellDated(w, r, t) \subseteq Requests /\ WellDated(w, r, t)' \subseteq Requests
        BY <2>1, <2>2, <2>3 DEF WellDated, Created
    <2>5. CASE a \notin WellDated(w, r, t)'
        <3>1. WellDated(w, r, t)' \subseteq WellDated(w, r, t)
            BY <2>4, <2>5
        <3> QED BY <1>h, <2>4, <3>1, StaysWithin
    <2>6. CASE a \in WellDated(w, r, t)'
        <3>1. /\ a \in Sharing(w, r) /\ t - Length(w) < reserved[a] /\ reserved[a] <= t
              /\ reserved[a] <= began[a]
            BY <2>1, <2>3, <2>6 DEF WellDated, Created
        <3>2. ~Full(Counted(w, a, reserved[a]), w)
            BY <2>1, <3>1 DEF WindowInv, RowsChecked
        <3>3. WellDated(w, r, t) \subseteq Counted(w, a, reserved[a])
            <4> SUFFICES ASSUME NEW q \in WellDated(w, r, t) PROVE q \in Counted(w, a, reserved[a])
                OBVIOUS
            <4>1. /\ q \in Submissions /\ q \in Sharing(w, r) /\ q \in Requests
                  /\ t - Length(w) < reserved[q] /\ reserved[q] <= began[q]
                BY <2>3 DEF WellDated, Created
            <4>2. q \in Sharing(w, a)
                BY <3>1, <4>1, WindowFacts
            <4>3. began[q] > reserved[a] - Length(w)
                BY <1>t, <2>2, <2>3, <3>1, <4>1
            <4> QED BY <4>1, <4>2, <4>3 DEF Counted
        <3>4. /\ Counted(w, a, reserved[a]) \subseteq Requests
              /\ WellDated(w, r, t)' \subseteq Counted(w, a, reserved[a]) \cup {a}
            BY <2>4, <3>3 DEF Counted, Sharing
        <3> QED BY <2>2, <2>4, <3>2, <3>4, RoomForOne
    <2> QED BY <2>5, <2>6
<1> QED
    BY <1>1, <1>2, StepKinds

LEMMA WindowInductive == Spec => []WindowInv
<1>1. WindowInv /\ [Next]_vars => WindowInv'
    <2>1. IInv /\ [Next]_vars => IInv'
        BY TypeStep, KeyStep, RoomStep, LimitStep, QuotaStep DEF IInv
    <2> QED BY <2>1, FreshStep, TimesStep, TokensFitStep, RowsFitStep, RowsCheckedStep DEF WindowInv
<1> QED
    BY InitWindow, <1>1, PTL DEF Spec

\* What is left of a set beyond a limit when a part within the limit is taken away.
LEMMA Excess ==
    ASSUME NEW S \in SUBSET Requests, NEW A \in SUBSET S, NEW B \in SUBSET Requests,
           NEW n \in Nat, S \subseteq A \cup B, Cardinality(B) <= n
    PROVE  Cardinality(A) >= Cardinality(S) - n
<1>1. IsFiniteSet(A) /\ IsFiniteSet(B) /\ IsFiniteSet(A \cap B)
    BY AdmissionAssumption, FS_Subset
<1>2. /\ IsFiniteSet(A \cup B)
      /\ Cardinality(A \cup B) = Cardinality(A) + Cardinality(B) - Cardinality(A \cap B)
    BY <1>1, FS_Union
<1>3. Cardinality(S) <= Cardinality(A \cup B)
    BY <1>2, FS_Subset
<1>4. Cardinality(A) \in Nat /\ Cardinality(B) \in Nat /\ Cardinality(A \cap B) \in Nat
    BY <1>1, FS_CardinalityType
<1>5. Cardinality(S) \in Nat
    BY NoMore
<1> QED
    BY <1>2, <1>3, <1>4, <1>5

\* In no stretch of an hour or a day are more runs admitted than the limit,
\* except by runs PostgreSQL dates too early in so far as Redis has lost
\* reservations as well (create_analysis, _limits, _reserve_rate).
THEOREM WindowsHold == Spec => []AdmissionWindow
<1>1. WindowInv => AdmissionWindow
    <2> SUFFICES ASSUME WindowInv, NEW w \in Windows, NEW r \in Submissions, NEW t \in 0..now
                 PROVE  LET admitted == Created(w, r, t - Length(w), t)
                            misdated == {q \in admitted : began[q] < reserved[q]}
                            missing  == {q \in admitted : <<w, q>> \notin tokens}
                            excess   == Cardinality(admitted) - Limit(w)
                        IN excess > 0 => /\ Cardinality(misdated) >= excess
                                         /\ Cardinality(missing) >= excess
        BY DEF AdmissionWindow
    <2> DEFINE admitted == Created(w, r, t - Length(w), t)
               misdated == {q \in admitted : began[q] < reserved[q]}
               missing  == {q \in admitted : <<w, q>> \notin tokens}
    <2>1. /\ r \in Requests /\ t \in 0..MaxTime /\ Limit(w) \in Nat
          /\ began \in [Requests -> 0..MaxTime] /\ reserved \in [Requests -> 0..MaxTime]
          /\ MaxTime \in Nat
        BY WindowFacts, AdmissionAssumption DEF WindowInv, IInv, TypeOK, Submissions
    <2>2. admitted \subseteq Requests
        BY DEF Created, Submissions
    <2>3. /\ Cardinality(WellDated(w, r, t)) <= Limit(w)
          /\ Cardinality(Holding(w, r, t)) <= Limit(w)
        BY <2>1 DEF WindowInv, RowsFit, TokensFit
    <2>4. /\ WellDated(w, r, t) \subseteq Requests
          /\ Holding(w, r, t) \subseteq Requests
        BY <2>2 DEF WellDated, Holding, Sharing
    <2>5. admitted \subseteq misdated \cup WellDated(w, r, t)
        BY <2>1, <2>2 DEF WellDated
    <2>6. admitted \subseteq missing \cup Holding(w, r, t)
        BY DEF Holding, Created
    <2>7. Cardinality(misdated) >= Cardinality(admitted) - Limit(w)
        <3>1. misdated \subseteq admitted
            OBVIOUS
        <3> HIDE DEF misdated, admitted
        <3> QED BY <2>1, <2>2, <2>3, <2>4, <2>5, <3>1, Excess
    <2>8. Cardinality(missing) >= Cardinality(admitted) - Limit(w)
        <3>1. missing \subseteq admitted
            OBVIOUS
        <3> HIDE DEF missing, admitted
        <3> QED BY <2>1, <2>2, <2>3, <2>4, <2>6, <3>1, Excess
    <2> QED BY <2>7, <2>8
<1> QED
    BY <1>1, WindowInductive, PTL

-----------------------------------------------------------------------------
(* The time of a refusal *)

LEMMA Least ==
    ASSUME NEW T \in SUBSET Nat, T # {}
    PROVE  \E x \in T : \A y \in T : x <= y
<1> DEFINE R == {ss \in Nat \X Nat : ss[1] < ss[2]}
<1>1. R = OpToRel(<, Nat)
    BY DEF OpToRel
<1>2. IsWellFoundedOn(R, Nat)
    BY <1>1, NatLessThanWellFounded
<1>3. \E x \in T : \A y \in T : <<y, x>> \notin R
    <2> HIDE DEF R
    <2> QED BY <1>2, WFMin
<1>4. PICK x \in T : \A y \in T : <<y, x>> \notin R
    BY <1>3
<1>5. ASSUME NEW y \in T
      PROVE  x <= y
    <2>1. <<y, x>> \in Nat \X Nat /\ <<y, x>>[1] = y /\ <<y, x>>[2] = x
        OBVIOUS
    <2>2. ~(<<y, x>>[1] < <<y, x>>[2])
        BY <1>4, <2>1
    <2> QED BY <2>1, <2>2
<1> QED
    BY <1>5

\* The n-th oldest of a set exists.
LEMMA OldestExists ==
    ASSUME NEW f \in [Requests -> 0..MaxTime], NEW S \in SUBSET Requests,
           NEW n \in Nat, n < Cardinality(S)
    PROVE  LET t == TimeOf(f, S, n)
           IN  t \in {f[q] : q \in S} /\ Cardinality({q \in S : f[q] <= t}) > n
<1> DEFINE Upto(t) == {q \in S : f[q] <= t}
           K == {t \in Nat : Cardinality(Upto(t)) > n}
<1>0. MaxTime \in Nat /\ S \subseteq Requests
    BY AdmissionAssumption
<1>1. MaxTime \in K
    <2>1. Upto(MaxTime) = S
        BY <1>0
    <2> QED BY <1>0, <2>1
<1>2. PICK t \in K : \A u \in K : t <= u
    <2>1. K \in SUBSET Nat /\ K # {}
        BY <1>1
    <2> HIDE DEF K
    <2> QED BY <2>1, Least
<1>3. t \in Nat /\ Cardinality(Upto(t)) > n
    BY <1>2
<1>4. {q \in S : f[q] < t} \in SUBSET Requests /\ Upto(t) \in SUBSET Requests
    BY <1>0
<1>5. Cardinality({q \in S : f[q] < t}) <= n
    <2>1. CASE t = 0
        <3>1. {q \in S : f[q] < t} = {}
            BY <1>0, <2>1
        <3> QED BY <3>1, FS_EmptySet
    <2>2. CASE t # 0
        <3>1. t - 1 \in Nat /\ t - 1 \notin K
            BY <1>2, <1>3, <2>2
        <3>2. {q \in S : f[q] < t} = Upto(t - 1)
            BY <1>0, <1>3, <2>2
        <3>3. Cardinality(Upto(t - 1)) \in Nat
            <4>1. Upto(t - 1) \in SUBSET Requests
                BY <1>0
            <4> QED BY <4>1, NoMore
        <3> QED BY <3>1, <3>2, <3>3
    <2> QED BY <2>1, <2>2
<1>6. t \in {f[q] : q \in S}
    <2> SUFFICES ASSUME t \notin {f[q] : q \in S} PROVE FALSE
        OBVIOUS
    <2>1. {q \in S : f[q] < t} = Upto(t)
        BY <1>0, <1>3
    <2>2. Cardinality(Upto(t)) \in Nat
        BY <1>4, NoMore
    <2> QED BY <1>3, <1>5, <2>1, <2>2
<1>7. \E u \in {f[q] : q \in S} : /\ Cardinality({q \in S : f[q] < u}) <= n
                                  /\ Cardinality({q \in S : f[q] <= u}) > n
    BY <1>3, <1>5, <1>6
<1> QED
    BY <1>7 DEF TimeOf

\* A full window has room when its n-th oldest entry has left it.
LEMMA RoomComes ==
    ASSUME NEW f \in [Requests -> 0..MaxTime], NEW S \in SUBSET Requests, NEW w \in Windows,
           Limit(w) > 0, Full(S, w), NEW T \in Int, T >= RoomAt(f, S, w)
    PROVE  ~Full({q \in S : f[q] > T - Length(w)}, w)
<1> DEFINE n == Cardinality(S) - Limit(w)
           t == TimeOf(f, S, n)
           old == {q \in S : f[q] <= t}
           young == {q \in S : f[q] > T - Length(w)}
<1>1. /\ Cardinality(S) \in Nat /\ Limit(w) \in Nat /\ n \in Nat /\ n < Cardinality(S)
    BY WindowFacts, NoMore DEF Full
<1>2. t \in {f[q] : q \in S} /\ Cardinality(old) > n
    <2> HIDE DEF n
    <2> QED BY <1>1, OldestExists
<1>3. t \in Int /\ Length(w) \in Nat /\ T >= t + Length(w)
    BY <1>2, WindowFacts, AdmissionAssumption DEF RoomAt
<1>4. young \subseteq S \ old /\ old \subseteq S /\ S \subseteq Requests
    <2> HIDE DEF t
    <2>1. \A q \in S : f[q] \in Int
        BY AdmissionAssumption
    <2> QED BY <1>3, <2>1
<1>5. IsFiniteSet(S) /\ IsFiniteSet(old) /\ IsFiniteSet(S \ old) /\ IsFiniteSet(young)
    <2> HIDE DEF old, young
    <2> QED BY <1>4, AdmissionAssumption, FS_Subset
<1>6. Cardinality(S \ old) = Cardinality(S) - Cardinality(old)
    <2> HIDE DEF old
    <2>1. S \cap old = old
        BY <1>4
    <2>2. Cardinality(S \ old) = Cardinality(S) - Cardinality(S \cap old)
        BY <1>5, FS_Difference
    <2> QED BY <2>1, <2>2
<1>7. Cardinality(young) <= Cardinality(S \ old)
    <2> HIDE DEF young, old
    <2> QED BY <1>4, <1>5, FS_Subset
<1>8. Cardinality(young) \in Nat /\ Cardinality(old) \in Nat
    <2> HIDE DEF young, old
    <2> QED BY <1>5, FS_CardinalityType
<1>9. Cardinality(young) < Limit(w)
    <2>1. Cardinality(old) > Cardinality(S) - Limit(w)
        BY <1>2
    <2> HIDE DEF young, old
    <2> QED BY <1>1, <1>6, <1>7, <1>8, <2>1
<1> QED
    BY <1>1, <1>8, <1>9 DEF Full

\* The last of several times exists.
LEMMA LatestExists ==
    ASSUME NEW S, S \subseteq Nat, S # {}, NEW B \in Nat, \A x \in S : x <= B
    PROVE  RetryAt(S) \in S /\ \A y \in S : RetryAt(S) >= y
<1>1. PICK d \in {B - x : x \in S} : \A e \in {B - x : x \in S} : d <= e
    <2>0. \A x \in S : B - x \in Nat
        OBVIOUS
    <2>1. {B - x : x \in S} \in SUBSET Nat /\ {B - x : x \in S} # {}
        BY <2>0
    <2> QED BY <2>1, Least
<1>2. PICK x \in S : d = B - x
    OBVIOUS
<1>3. ASSUME NEW y \in S
      PROVE  x >= y
    <2>1. B - x <= B - y
        BY <1>1, <1>2
    <2> QED BY <2>1
<1>4. \E z \in S : \A y \in S : z >= y
    BY <1>2, <1>3
<1> QED
    BY <1>4 DEF RetryAt, Max

\* A refused request that waits until retry_at finds room in every window,
\* unless somebody else is admitted before it (_limits, _recovery).  A limit of
\* zero has no room at any time: _limits gives no time for it.
THEOREM RetryTimeIsEnough ==
    PerHour > 0 /\ PerDay > 0 => (Spec => []RetryAtIsEnough)
<1> SUFFICES ASSUME PerHour > 0, PerDay > 0 PROVE Spec => []RetryAtIsEnough
    OBVIOUS
<1>1. TypeOK => RetryAtIsEnough
    <2> SUFFICES ASSUME TypeOK, NEW r \in Requests, ResetTimes(r) # {}
                 PROVE  RoomFor(r, RetryAt(ResetTimes(r)))
        BY DEF RetryAtIsEnough
    <2> DEFINE times == ResetTimes(r)
               T == RetryAt(times)
    <2>t. /\ now \in 0..MaxTime /\ MaxTime \in Nat
          /\ began \in [Requests -> 0..MaxTime] /\ reserved \in [Requests -> 0..MaxTime]
        BY AdmissionAssumption DEF TypeOK
    <2>w. ASSUME NEW w \in Windows
          PROVE  /\ Length(w) \in Nat /\ Limit(w) \in Nat /\ Limit(w) > 0 /\ Length(w) <= Day
                 /\ Counted(w, r, now) \in SUBSET Requests
                 /\ Held(w, r, now) \in SUBSET Requests
        <3>1. Length(w) \in Nat /\ Limit(w) \in Nat /\ Limit(w) > 0 /\ Length(w) <= Day
            <4>1. CASE w = "hourly"
                BY <4>1, AdmissionAssumption DEF Length, Limit
            <4>2. CASE w # "hourly"
                BY <4>2, AdmissionAssumption DEF Length, Limit
            <4> QED BY <4>1, <4>2
        <3>2. Counted(w, r, now) \in SUBSET Requests /\ Held(w, r, now) \in SUBSET Requests
            BY DEF Counted, Held, Submissions, Sharing
        <3> QED BY <3>1, <3>2
    <2>1. ASSUME NEW w \in Windows, NEW S \in SUBSET Requests, Full(S, w),
                 NEW f \in [Requests -> 0..MaxTime], \A q \in S : f[q] > now - Length(w)
          PROVE  /\ RoomAt(f, S, w) \in Nat /\ RoomAt(f, S, w) > now
                 /\ RoomAt(f, S, w) <= MaxTime + Day
        <3>1. /\ Cardinality(S) \in Nat /\ Cardinality(S) - Limit(w) \in Nat
              /\ Cardinality(S) - Limit(w) < Cardinality(S)
            BY <2>1, <2>w, NoMore DEF Full
        <3>2. TimeOf(f, S, Cardinality(S) - Limit(w)) \in {f[q] : q \in S}
            <4> DEFINE n == Cardinality(S) - Limit(w)
            <4> HIDE DEF n
            <4>1. n \in Nat /\ n < Cardinality(S)
                BY <3>1 DEF n
            <4>2. TimeOf(f, S, n) \in {f[q] : q \in S}
                BY <4>1, OldestExists
            <4> QED BY <4>2 DEF n
        <3>3. PICK q \in S : RoomAt(f, S, w) = f[q] + Length(w)
            BY <3>2 DEF RoomAt
        <3>4. f[q] \in 0..MaxTime /\ f[q] > now - Length(w)
            BY <2>1
        <3> QED BY <2>t, <2>w, <3>3, <3>4, AdmissionAssumption
    <2>2. ASSUME NEW w \in Windows
          PROVE  /\ \A q \in Counted(w, r, now) : began[q] > now - Length(w)
                 /\ \A q \in Held(w, r, now) : reserved[q] > now - Length(w)
        BY DEF Counted, Held
    <2>3. \A x \in times : x \in Nat /\ x > now /\ x <= MaxTime + Day
        <3> SUFFICES ASSUME NEW x \in times PROVE x \in Nat /\ x > now /\ x <= MaxTime + Day
            OBVIOUS
        <3>1. \E w \in Windows :
                 \/ Full(Counted(w, r, now), w) /\ x = RoomAt(began, Counted(w, r, now), w)
                 \/ Full(Held(w, r, now), w) /\ x = RoomAt(reserved, Held(w, r, now), w)
            BY DEF ResetTimes
        <3> QED BY <2>t, <2>w, <2>1, <2>2, <3>1
    <2>4. T \in times /\ \A x \in times : T >= x
        <3> HIDE DEF times
        <3>1. times \subseteq Nat /\ times # {} /\ MaxTime + Day \in Nat
            BY <2>3, <2>t, AdmissionAssumption DEF times
        <3> QED BY <2>3, <3>1, LatestExists
    <2>5. T \in Nat /\ T > now
        BY <2>3, <2>4
    <2> HIDE DEF T
    <2>6. ASSUME NEW w \in Windows
          PROVE  ~Full(Counted(w, r, T), w) /\ ~Full(Held(w, r, T), w)
        <3>1. /\ Counted(w, r, T) = {q \in Counted(w, r, now) : began[q] > T - Length(w)}
              /\ Held(w, r, T) = {q \in Held(w, r, now) : reserved[q] > T - Length(w)}
            <4>1. /\ \A q \in Requests : began[q] > T - Length(w) => began[q] > now - Length(w)
                  /\ \A q \in Requests : reserved[q] > T - Length(w) => reserved[q] > now - Length(w)
                <5>1. /\ \A q \in Requests : began[q] \in Int /\ reserved[q] \in Int
                      /\ Length(w) \in Int /\ T \in Int /\ now \in Int
                    BY <2>t, <2>w, <2>5
                <5> QED BY <2>5, <5>1
            <4>2. /\ Counted(w, r, T) = {q \in Counted(w, r, now) : began[q] > T - Length(w)}
                BY <4>1 DEF Counted, Submissions
            <4>3. Held(w, r, T) = {q \in Held(w, r, now) : reserved[q] > T - Length(w)}
                BY <4>1 DEF Held, Sharing
            <4> QED BY <4>2, <4>3
        <3>2. ~Full(Counted(w, r, T), w)
            <4>1. CASE Full(Counted(w, r, now), w)
                <5>1. RoomAt(began, Counted(w, r, now), w) \in times
                    BY <2>w, <4>1 DEF ResetTimes
                <5>2. T >= RoomAt(began, Counted(w, r, now), w)
                    BY <2>4, <5>1
                <5> QED BY <2>t, <2>w, <2>5, <3>1, <4>1, <5>2, RoomComes
            <4>2. CASE ~Full(Counted(w, r, now), w)
                <5>1. Counted(w, r, T) \in SUBSET Counted(w, r, now)
                    BY <3>1
                <5> QED BY <2>w, <4>2, <5>1, StaysWithin
            <4> QED BY <4>1, <4>2
        <3>3. ~Full(Held(w, r, T), w)
            <4>1. CASE Full(Held(w, r, now), w)
                <5>1. RoomAt(reserved, Held(w, r, now), w) \in times
                    BY <2>w, <4>1 DEF ResetTimes
                <5>2. T >= RoomAt(reserved, Held(w, r, now), w)
                    BY <2>4, <5>1
                <5> QED BY <2>t, <2>w, <2>5, <3>1, <4>1, <5>2, RoomComes
            <4>2. CASE ~Full(Held(w, r, now), w)
                <5>1. Held(w, r, T) \in SUBSET Held(w, r, now)
                    BY <3>1
                <5> QED BY <2>w, <4>2, <5>1, StaysWithin
            <4> QED BY <4>1, <4>2
        <3> QED BY <3>2, <3>3
    <2> QED BY <2>6 DEF RoomFor, T
<1> QED
    BY <1>1, AdmissionTypeCorrect, PTL
=============================================================================
