-------------------------- MODULE ComponentProofs ---------------------------
(***************************************************************************)
(* Components beside the runtime, for every value of their constants: the  *)
(* publication of a report, the sessions of administrators, the calls of   *)
(* an agent, the graph of what is known, the catalog of models, the way of *)
(* a report from its reviews to the gate, the captions of its sources, and *)
(* the discovery of the videos they may be.  They share no state; each is  *)
(* an instance of its module over variables of its own.                    *)
(***************************************************************************)
EXTENDS Integers, Sequences, Selection, Sums, RowRules, SequenceTheorems, TLAPS

-----------------------------------------------------------------------------
(* Publication: for any number of requests and users, a revocation is      *)
(* final, and a run does not change hands.                                 *)

CONSTANTS Requests, UserOf, Nobody
VARIABLES run, tasks, report, publication, final, owner, fresh, step, answer, late

Publication == INSTANCE Publication

(* The rows change together, except that a publication may still be        *)
(* missing; and a request that has found an open publication began before  *)
(* the report was revoked.                                                 *)
PublicationTypeOK ==
    /\ report \in {"none", "published", "revoked"}
    /\ publication \in {"none", "open", "revoked"}
    /\ late \in [Requests -> BOOLEAN]
    /\ step \in [Requests -> {"idle", "found", "loaded"}]
    /\ answer \in [Requests -> {"none", "report", "not found", "link"}]

FoundInTime == \A r \in Requests : step[r] = "found" => ~late[r]

RevocationInv == PublicationTypeOK /\ FoundInTime /\ Publication!RevocationHolds

LEMMA RevocationInitially == Publication!Init => RevocationInv
BY DEF Publication!Init, RevocationInv, PublicationTypeOK, FoundInTime,
       Publication!RevocationHolds

(* The steps of the run and of an administrator leave the requests alone.  *)
LEMMA RunStepKeepsRevocation ==
    ASSUME RevocationInv,
           UNCHANGED Publication!requestVars,
           report' \in {"none", "published", "revoked"},
           publication' \in {"none", "open", "revoked"},
           report' = "revoked" <=> publication' = "revoked"
    PROVE  RevocationInv'
BY DEF RevocationInv, PublicationTypeOK, FoundInTime, Publication!RevocationHolds,
       Publication!requestVars

LEMMA RevocationKept == RevocationInv /\ [Publication!Next]_(Publication!vars) => RevocationInv'
<1> SUFFICES ASSUME RevocationInv, [Publication!Next]_(Publication!vars)
             PROVE  RevocationInv'
    OBVIOUS
<1> USE DEF RevocationInv, PublicationTypeOK, FoundInTime, Publication!RevocationHolds
<1>1. CASE \/ Publication!WriteReport \/ Publication!TasksEnd \/ Publication!ReadReport
           \/ Publication!ProjectionFails \/ Publication!Cancel \/ Publication!Retry
  <2>1. UNCHANGED Publication!requestVars /\ UNCHANGED publication
        BY <1>1 DEF Publication!WriteReport, Publication!TasksEnd, Publication!ReadReport,
                    Publication!ProjectionFails, Publication!Cancel, Publication!Retry,
     Publication!rowVars
  <2>2. report' = report \/ (report = "none" /\ report' = "published")
        BY <1>1 DEF Publication!WriteReport, Publication!TasksEnd, Publication!ReadReport,
                    Publication!ProjectionFails, Publication!Cancel, Publication!Retry,
     Publication!rowVars
  <2> QED BY <2>1, <2>2, RunStepKeepsRevocation
<1>2. CASE Publication!Conclude
  <2>1. UNCHANGED Publication!requestVars /\ UNCHANGED report
        BY <1>2 DEF Publication!Conclude
  <2>2. publication' = publication \/ (publication = "none" /\ publication' = "open")
        BY <1>2 DEF Publication!Conclude, Publication!Publish
  <2> QED BY <2>1, <2>2, RunStepKeepsRevocation
<1>3. CASE Publication!Revoke
      BY <1>3, RunStepKeepsRevocation DEF Publication!Revoke
<1>4. ASSUME NEW r \in Requests, Publication!FindPublication(r)
      PROVE  RevocationInv'
      BY <1>4 DEF Publication!FindPublication, Publication!Begin, Publication!rowVars
<1>5. ASSUME NEW r \in Requests, Publication!ServeReport(r)
      PROVE  RevocationInv'
      BY <1>5 DEF Publication!ServeReport, Publication!Reply, Publication!rowVars
<1>6. ASSUME NEW r \in Requests, Publication!AdoptAll(r)
      PROVE  RevocationInv'
      BY <1>6 DEF Publication!AdoptAll, Publication!rowVars
<1>7. ASSUME NEW r \in Requests, Publication!LoadRun(r)
      PROVE  RevocationInv'
      BY <1>7 DEF Publication!LoadRun, Publication!Begin, Publication!rowVars
<1>8. ASSUME NEW r \in Requests, Publication!AdoptRun(r)
      PROVE  RevocationInv'
      BY <1>8 DEF Publication!AdoptRun, Publication!Reply, Publication!rowVars
<1>9. CASE UNCHANGED Publication!vars
      BY <1>9 DEF Publication!vars, Publication!rowVars, Publication!requestVars
<1> QED BY <1>1, <1>2, <1>3, <1>4, <1>5, <1>6, <1>7, <1>8, <1>9 DEF Publication!Next

(* No request that begins after the revocation gets the report or its      *)
(* link, and the rows of a revoked report agree (revoke_report,            *)
(* publish_report, _publication).                                          *)
THEOREM RevocationIsFinal == Publication!Spec => []Publication!RevocationHolds
<1>1. RevocationInv => Publication!RevocationHolds
      BY DEF RevocationInv
<1> QED BY RevocationInitially, RevocationKept, <1>1, PTL DEF Publication!Spec

LEMMA OwnerStep ==
    [Publication!Next]_(Publication!vars) =>
        [\/ owner = Nobody
         \/ owner' = owner
         \/ \E r \in Requests : step[r] = "loaded"]_(Publication!vars)
<1> SUFFICES ASSUME Publication!Next
             PROVE  owner = Nobody \/ owner' = owner \/ \E r \in Requests : step[r] = "loaded"
    OBVIOUS
<1>1. CASE \/ Publication!WriteReport \/ Publication!TasksEnd \/ Publication!ReadReport
           \/ Publication!ProjectionFails \/ Publication!Conclude \/ Publication!Cancel
           \/ Publication!Retry \/ Publication!Revoke
      BY <1>1 DEF Publication!WriteReport, Publication!TasksEnd, Publication!ReadReport,
                  Publication!ProjectionFails, Publication!Conclude, Publication!Cancel,
     Publication!Retry, Publication!Revoke
<1>2. CASE \E r \in Requests : \/ Publication!FindPublication(r) \/ Publication!ServeReport(r)
                                 \/ Publication!LoadRun(r)
      BY <1>2 DEF Publication!FindPublication, Publication!ServeReport, Publication!LoadRun
<1>3. CASE \E r \in Requests : Publication!AdoptAll(r)
      BY <1>3 DEF Publication!AdoptAll, Publication!Unowned
<1>4. CASE \E r \in Requests : Publication!AdoptRun(r)
      BY <1>4 DEF Publication!AdoptRun
<1> QED BY <1>1, <1>2, <1>3, <1>4 DEF Publication!Next

(* A run changes its owner only by a request that had found it without one *)
(* (adopt_anonymous_runs, adopt_run, _authorized_run).                     *)
THEOREM RunKeepsOwner == Publication!Spec => Publication!OwnerKept
<1> QED BY OwnerStep, PTL DEF Publication!Spec, Publication!OwnerKept

-----------------------------------------------------------------------------
(* Sessions: for any number of sign-ins and requests and any lengths of    *)
(* the throttle and of the expiries, sessions are sound.                   *)

CONSTANTS Logins, Visits, Attempts, Window, Idle, Absolute, MaxTime
VARIABLES now, failures, expiry, account, login, session, visit

Access == INSTANCE Access

AccessStatuses == {"none", "live", "revoked"}
LoginPlaces ==
    {"idle", "admitted", "verified", "wrong", "counted", "refused", "opened", "done"}

AccessTypeOK ==
    /\ now \in Nat
    /\ failures \in [Access!Keys -> Nat] /\ expiry \in [Access!Keys -> Nat]
    /\ account \in [locked : Int, seen : SUBSET Logins]
    /\ login \in [Logins -> [at : LoginPlaces, read : Nat, lock : Int]]
    /\ session \in [Logins -> [status : AccessStatuses, idle : Nat, absolute : Nat]]
    /\ visit \in [Visits -> [at : {"idle", "touching", "accepted", "refused"},
                             of : Logins \cup {"none"}, idle : Nat,
                             since : AccessStatuses]]

(* A sign-in still has its session to open; one that found the right       *)
(* password and whose copy of the account is current found no lock.        *)
LoginInv == \A l \in Logins :
    /\ login[l].at \notin {"opened", "done", "refused"} => session[l].status = "none"
    /\ login[l].read <= now
    /\ login[l].at = "verified" /\ l \in account.seen => account.locked <= login[l].read

ExpiryInv == \A s \in Logins : session[s].idle <= session[s].absolute

(* What a request is about to write as idle expiry is within the absolute  *)
(* one of the session it found, which stays.                               *)
TouchInv == \A v \in Visits : visit[v].at = "touching" =>
    /\ visit[v].of \in Logins
    /\ session[visit[v].of].status # "none"
    /\ visit[v].idle <= session[visit[v].of].absolute

AccessInv == AccessTypeOK /\ LoginInv /\ ExpiryInv /\ TouchInv

(* What SessionsSound says of one step.                                    *)
SoundStep == \A s \in Logins :
    /\ Access!Opened(s) => account.locked <= now
    /\ session[s].status = "revoked" => session'[s].status = "revoked"
    /\ session'[s].idle <= session'[s].absolute

LEMMA LeastIsNat ==
    ASSUME NEW a \in Nat, NEW b \in Nat
    PROVE  Access!Least(a, b) \in Nat /\ Access!Least(a, b) <= b
BY DEF Access!Least

LEMMA AccessInitially == Access!AccessAssumption /\ Access!Init => AccessInv
BY DEF Access!Init, AccessInv, AccessTypeOK, LoginInv, ExpiryInv, TouchInv, Access!NoSession,
       Access!NoVisit,
       AccessStatuses, LoginPlaces, Access!Keys

-----------------------------------------------------------------------------
(* Steps of a sign-in *)

LEMMA ThrottleKeeps ==
    ASSUME AccessInv, NEW l \in Logins, Access!CheckThrottle(l)
    PROVE  AccessInv' /\ SoundStep
BY DEF Access!CheckThrottle, Access!Goto, AccessInv, AccessTypeOK, LoginInv, ExpiryInv,
       TouchInv, SoundStep,
       Access!Opened, LoginPlaces

LEMMA VerifyKeeps ==
    ASSUME AccessInv, NEW l \in Logins, NEW right \in BOOLEAN, Access!Verify(l, right)
    PROVE  AccessInv' /\ SoundStep
BY DEF Access!Verify, AccessInv, AccessTypeOK, LoginInv, ExpiryInv, TouchInv, SoundStep,
       Access!Opened,
       LoginPlaces

LEMMA CountKeeps ==
    ASSUME Access!AccessAssumption, AccessInv, NEW l \in Logins, Access!CountFailure(l)
    PROVE  AccessInv' /\ SoundStep
<1>1. Window \in Nat
      BY DEF Access!AccessAssumption
<1>2. failures' \in [Access!Keys -> Nat] /\ expiry' \in [Access!Keys -> Nat]
      BY <1>1 DEF Access!CountFailure, AccessInv, AccessTypeOK
<1> DEFINE count == [k \in Access!Keys |-> failures[k] + 1]
           end == [k \in Access!Keys |-> IF failures[k] = 0 THEN now + Window ELSE expiry[k]]
           lock == IF Access!Most(count["account"], count["ip"]) >= Attempts
                   THEN login[l].read + Access!Most(end["account"], end["ip"]) - now ELSE 0
<1>3. lock \in Int
  <2>1. end["account"] \in Nat /\ end["ip"] \in Nat /\ login[l].read \in Nat /\ now \in Nat
        BY <1>1 DEF AccessInv, AccessTypeOK, Access!Keys
  <2>2. Access!Most(end["account"], end["ip"]) \in Nat
        BY <2>1 DEF Access!Most
  <2> HIDE DEF count, end
  <2> QED BY <2>1, <2>2
<1>4. login' = [login EXCEPT ![l].at = "counted", ![l].lock = lock]
      BY DEF Access!CountFailure
<1> HIDE DEF lock
<1>5. UNCHANGED <<now, account, session, visit>> /\ login[l].at = "wrong"
      BY DEF Access!CountFailure
<1>6. login' \in [Logins -> [at : LoginPlaces, read : Nat, lock : Int]]
  <2> DEFINE row == [login[l] EXCEPT !.at = "counted", !.lock = lock]
  <2>1. row \in [at : LoginPlaces, read : Nat, lock : Int]
        BY <1>3 DEF AccessInv, AccessTypeOK, LoginPlaces
  <2>2. login' = [login EXCEPT ![l] = row]
        BY <1>4 DEF AccessInv, AccessTypeOK
  <2> HIDE DEF row
  <2> QED BY <2>1, <2>2 DEF AccessInv, AccessTypeOK
<1>7. AccessTypeOK'
      BY <1>2, <1>5, <1>6 DEF AccessInv, AccessTypeOK
<1>8. LoginInv'
      BY <1>4, <1>5, <1>6 DEF AccessInv, AccessTypeOK, LoginInv
<1> QED BY <1>5, <1>7, <1>8 DEF AccessInv, AccessTypeOK, ExpiryInv, TouchInv, SoundStep,
                                Access!Opened

LEMMA RecordKeeps ==
    ASSUME AccessInv, NEW l \in Logins, Access!RecordFailure(l)
    PROVE  AccessInv' /\ SoundStep
BY DEF Access!RecordFailure, Access!Goto, Access!WriteAccount, Access!Current, AccessInv,
       AccessTypeOK, LoginInv, ExpiryInv,
       TouchInv, SoundStep, Access!Opened, LoginPlaces

LEMMA OpenKeeps ==
    ASSUME Access!AccessAssumption, AccessInv, NEW l \in Logins, Access!OpenSession(l)
    PROVE  AccessInv' /\ SoundStep
<1> DEFINE absolute == login[l].read + Absolute
           idle == Access!Least(login[l].read + Idle, absolute)
<1>1. login[l].at = "verified" /\ session[l].status = "none"
      BY DEF Access!OpenSession, AccessInv, LoginInv
<1>2. idle \in Nat /\ absolute \in Nat /\ idle <= absolute
  <2>1. login[l].read \in Nat /\ Idle \in Nat /\ Absolute \in Nat
        BY DEF Access!AccessAssumption, AccessInv, AccessTypeOK
  <2>2. login[l].read + Idle \in Nat /\ absolute \in Nat
        BY <2>1
  <2> HIDE DEF absolute
  <2> QED BY <2>2, LeastIsNat
<1> HIDE DEF idle, absolute
<1>3. CASE ~Access!Current(l)
  <2>1. /\ login' = [login EXCEPT ![l].at = "refused"]
        /\ UNCHANGED <<now, failures, expiry, account, session, visit>>
        BY <1>3 DEF Access!OpenSession, Access!Goto
  <2>2. login' \in [Logins -> [at : LoginPlaces, read : Nat, lock : Int]]
        BY <2>1 DEF AccessInv, AccessTypeOK, LoginPlaces
  <2> QED BY <2>1, <2>2
          DEF AccessInv, AccessTypeOK, LoginInv, ExpiryInv, TouchInv, SoundStep, Access!Opened
<1>4. CASE Access!Current(l)
  <2>1. PICK prior \in Access!Replaced(l) :
            session' = [s \in Logins |->
                IF s = l THEN [status |-> "live", idle |-> idle, absolute |-> absolute]
                ELSE IF s \in prior THEN [session[s] EXCEPT !.status = "revoked"]
                ELSE session[s]]
        BY <1>4 DEF Access!OpenSession, idle, absolute
  <2>2. \A s \in prior : s \in Logins /\ session[s].status = "live"
        BY DEF Access!Replaced
  <2>3. /\ account' = [locked |-> 0, seen |-> {}]
        /\ login' = [login EXCEPT ![l].at = "opened"]
        /\ UNCHANGED <<now, failures, expiry, visit>>
        BY <1>4 DEF Access!OpenSession, Access!WriteAccount, Access!Goto
  <2>4. account.locked <= now
    <3>1. account.locked <= login[l].read /\ login[l].read <= now
          BY <1>1, <1>4 DEF AccessInv, LoginInv, Access!Current
    <3>2. account.locked \in Int /\ login[l].read \in Nat /\ now \in Nat
          BY DEF AccessInv, AccessTypeOK
    <3> QED BY <3>1, <3>2
  <2>5. \A s \in Logins :
            /\ session'[s] \in [status : AccessStatuses, idle : Nat, absolute : Nat]
            /\ session'[s].idle <= session'[s].absolute
            /\ s # l => /\ session'[s].absolute = session[s].absolute
                        /\ session'[s].status = "none" <=> session[s].status = "none"
                        /\ session[s].status = "revoked" => session'[s].status = "revoked"
                        /\ ~Access!Opened(s)
        BY <1>2, <2>1, <2>2 DEF AccessInv, AccessTypeOK, ExpiryInv, Access!Opened, AccessStatuses
  <2>6. AccessTypeOK'
    <3>1. login' \in [Logins -> [at : LoginPlaces, read : Nat, lock : Int]]
          BY <2>3 DEF AccessInv, AccessTypeOK, LoginPlaces
    <3>2. session' \in [Logins -> [status : AccessStatuses, idle : Nat, absolute : Nat]]
          BY <2>1, <2>5
    <3>3. account' \in [locked : Int, seen : SUBSET Logins]
          BY <2>3
    <3> QED BY <2>3, <3>1, <3>2, <3>3 DEF AccessInv, AccessTypeOK
  <2>7. LoginInv'
        BY <2>3, <2>5 DEF AccessInv, AccessTypeOK, LoginInv, LoginPlaces
  <2>8. TouchInv'
        BY <1>1, <2>3, <2>5 DEF AccessInv, TouchInv
  <2> QED BY <1>1, <2>4, <2>5, <2>6, <2>7, <2>8 DEF AccessInv, ExpiryInv, SoundStep
<1> QED BY <1>3, <1>4

LEMMA ClearKeeps ==
    ASSUME AccessInv, NEW l \in Logins, Access!ClearFailures(l)
    PROVE  AccessInv' /\ SoundStep
BY DEF Access!ClearFailures, Access!Goto, AccessInv, AccessTypeOK, LoginInv, ExpiryInv,
       TouchInv, SoundStep,
       Access!Opened, LoginPlaces, Access!Keys

-----------------------------------------------------------------------------
(* Steps of a request, of the scheduler and of the clock *)

LEMMA PresentKeeps ==
    ASSUME Access!AccessAssumption, AccessInv,
           NEW v \in Visits, NEW s \in Logins, Access!Present(v, s)
    PROVE  AccessInv' /\ SoundStep
<1> DEFINE idle == Access!Least(now + Idle, session[s].absolute)
<1>1. idle \in Nat /\ idle <= session[s].absolute
  <2>1. now \in Nat /\ Idle \in Nat /\ session[s].absolute \in Nat
        BY DEF Access!AccessAssumption, AccessInv, AccessTypeOK
  <2>2. now + Idle \in Nat
        BY <2>1
  <2> QED BY <2>1, <2>2, LeastIsNat
<1> HIDE DEF idle
<1>2. CASE Access!Live(s)
  <2>1. /\ visit' = [visit EXCEPT ![v] =
               [at |-> "touching", of |-> s, since |-> session[s].status, idle |-> idle]]
        /\ UNCHANGED <<now, failures, expiry, account, login, session>>
        BY <1>2 DEF Access!Present, idle
  <2> QED BY <1>1, <1>2, <2>1
          DEF Access!Live, AccessInv, AccessTypeOK, LoginInv, ExpiryInv, TouchInv, SoundStep,
              Access!Opened
<1>3. CASE ~Access!Live(s)
  <2>1. /\ visit' = [visit EXCEPT ![v] =
               [at |-> "refused", of |-> s, since |-> session[s].status, idle |-> 0]]
        /\ session' = [session EXCEPT ![s].status = "revoked"]
        /\ session[s].status # "none"
        /\ UNCHANGED <<now, failures, expiry, account, login>>
        BY <1>3 DEF Access!Present
  <2>2. \A t \in Logins :
            /\ session'[t].idle = session[t].idle
            /\ session'[t].absolute = session[t].absolute
            /\ session'[t].status = IF t = s THEN "revoked" ELSE session[t].status
        BY <2>1 DEF AccessInv, AccessTypeOK
  <2>3. AccessTypeOK'
        BY <2>1 DEF AccessInv, AccessTypeOK, AccessStatuses
  <2>4. LoginInv'
        BY <2>1, <2>2 DEF AccessInv, LoginInv
  <2>5. TouchInv'
        BY <2>1, <2>2 DEF AccessInv, AccessTypeOK, TouchInv
  <2> QED BY <2>1, <2>2, <2>3, <2>4, <2>5 DEF AccessInv, ExpiryInv, SoundStep, Access!Opened
<1> QED BY <1>2, <1>3

LEMMA TouchKeeps ==
    ASSUME AccessInv, NEW v \in Visits, Access!Touch(v)
    PROVE  AccessInv' /\ SoundStep
<1> DEFINE s == visit[v].of
           idle == visit[v].idle
<1>1. /\ s \in Logins /\ session[s].status # "none"
      /\ idle \in Nat /\ idle <= session[s].absolute
      BY DEF Access!Touch, AccessInv, AccessTypeOK, TouchInv
<1>2. /\ visit' = [visit EXCEPT ![v].at = "accepted"]
      /\ \/ session' = [session EXCEPT ![s] = [session[s] EXCEPT !.idle = idle]]
         \/ session' = session
      /\ UNCHANGED <<now, failures, expiry, account, login>>
      BY DEF Access!Touch, Access!Touched
<1> HIDE DEF s, idle
<1>3. \A t \in Logins :
          /\ session'[t].status = session[t].status
          /\ session'[t].absolute = session[t].absolute
          /\ session'[t].idle = session[t].idle \/ (t = s /\ session'[t].idle = idle)
      BY <1>2 DEF AccessInv, AccessTypeOK
<1>4. AccessTypeOK'
  <2> DEFINE row == [session[s] EXCEPT !.idle = idle]
  <2>1. row \in [status : AccessStatuses, idle : Nat, absolute : Nat]
        BY <1>1 DEF AccessInv, AccessTypeOK
  <2>2. session' = [session EXCEPT ![s] = row] \/ session' = session
        BY <1>2
  <2> HIDE DEF row
  <2>3. session' \in [Logins -> [status : AccessStatuses, idle : Nat, absolute : Nat]]
        BY <2>1, <2>2 DEF AccessInv, AccessTypeOK
  <2>4. visit' \in [Visits -> [at : {"idle", "touching", "accepted", "refused"},
                                of : Logins \cup {"none"}, idle : Nat, since : AccessStatuses]]
        BY <1>2 DEF AccessInv, AccessTypeOK
  <2> QED BY <1>2, <2>3, <2>4 DEF AccessInv, AccessTypeOK
<1>5. LoginInv'
      BY <1>2, <1>3 DEF AccessInv, LoginInv
<1>6. TouchInv'
      BY <1>2, <1>3 DEF AccessInv, AccessTypeOK, TouchInv
<1> QED BY <1>1, <1>3, <1>4, <1>5, <1>6 DEF AccessInv, ExpiryInv, SoundStep, Access!Opened

LEMMA AccessEndKeeps ==
    ASSUME AccessInv, NEW v \in Visits, NEW s \in Logins, Access!End(v, s)
    PROVE  AccessInv' /\ SoundStep
<1>1. /\ session[s].status = "live"
      /\ session' = [session EXCEPT ![s].status = "revoked"]
      /\ visit' = [visit EXCEPT ![v] = Access!NoVisit]
      /\ UNCHANGED <<now, failures, expiry, account, login>>
      BY DEF Access!End
<1>2. \A t \in Logins :
          /\ session'[t].idle = session[t].idle
          /\ session'[t].absolute = session[t].absolute
          /\ session'[t].status = IF t = s THEN "revoked" ELSE session[t].status
      BY <1>1 DEF AccessInv, AccessTypeOK
<1>3. AccessTypeOK'
      BY <1>1 DEF AccessInv, AccessTypeOK, AccessStatuses, Access!NoVisit
<1>4. LoginInv'
      BY <1>1, <1>2 DEF AccessInv, LoginInv
<1>5. TouchInv'
      BY <1>1, <1>2 DEF AccessInv, AccessTypeOK, TouchInv, Access!NoVisit
<1> QED BY <1>1, <1>2, <1>3, <1>4, <1>5 DEF AccessInv, ExpiryInv, SoundStep, Access!Opened

LEMMA SweepKeeps ==
    ASSUME AccessInv, Access!Sweep
    PROVE  AccessInv' /\ SoundStep
<1>1. /\ session' = [s \in Logins |->
             IF session[s].status = "live" /\ ~Access!Live(s)
             THEN [session[s] EXCEPT !.status = "revoked"] ELSE session[s]]
      /\ UNCHANGED <<now, failures, expiry, account, login, visit>>
      BY DEF Access!Sweep
<1>2. \A t \in Logins :
          /\ session'[t] \in [status : AccessStatuses, idle : Nat, absolute : Nat]
          /\ session'[t].idle = session[t].idle
          /\ session'[t].absolute = session[t].absolute
          /\ \/ session'[t].status = session[t].status
             \/ session[t].status = "live" /\ session'[t].status = "revoked"
  <2> SUFFICES ASSUME NEW t \in Logins
               PROVE  /\ session'[t] \in [status : AccessStatuses, idle : Nat, absolute : Nat]
                      /\ session'[t].idle = session[t].idle
                      /\ session'[t].absolute = session[t].absolute
                      /\ \/ session'[t].status = session[t].status
                         \/ session[t].status = "live" /\ session'[t].status = "revoked"
      OBVIOUS
  <2>1. session[t] \in [status : AccessStatuses, idle : Nat, absolute : Nat]
        BY DEF AccessInv, AccessTypeOK
  <2>2. \/ session'[t] = session[t]
        \/ session[t].status = "live" /\ session'[t] = [session[t] EXCEPT !.status = "revoked"]
        BY <1>1
  <2> QED BY <2>1, <2>2 DEF AccessStatuses
<1>3. AccessTypeOK'
  <2>1. session' \in [Logins -> [status : AccessStatuses, idle : Nat, absolute : Nat]]
        BY <1>1, <1>2
  <2> QED BY <1>1, <2>1 DEF AccessInv, AccessTypeOK
<1>4. LoginInv'
      BY <1>1, <1>2 DEF AccessInv, LoginInv
<1>5. TouchInv'
      BY <1>1, <1>2 DEF AccessInv, TouchInv
<1> QED BY <1>1, <1>2, <1>3, <1>4, <1>5 DEF AccessInv, ExpiryInv, SoundStep, Access!Opened

LEMMA TickKeeps ==
    ASSUME AccessInv, Access!Tick
    PROVE  AccessInv' /\ SoundStep
BY DEF Access!Tick, AccessInv, AccessTypeOK, LoginInv, ExpiryInv, TouchInv, SoundStep,
       Access!Opened

LEMMA StepKeeps ==
    ASSUME Access!AccessAssumption, AccessInv, [Access!Next]_(Access!vars)
    PROVE  AccessInv' /\ (SoundStep \/ UNCHANGED Access!vars)
<1>1. CASE UNCHANGED Access!vars
      BY <1>1 DEF Access!vars, AccessInv, AccessTypeOK, LoginInv, ExpiryInv, TouchInv
<1>2. CASE Access!Next
      BY <1>2, ThrottleKeeps, VerifyKeeps, CountKeeps, RecordKeeps, OpenKeeps, ClearKeeps,
         PresentKeeps, TouchKeeps, AccessEndKeeps, SweepKeeps, TickKeeps DEF Access!Next
<1> QED BY <1>1, <1>2

(* No sign-in that read the account before it was locked opens a session   *)
(* while the lock lasts, a session that was revoked stays so, and no idle  *)
(* expiry passes the absolute one (login, authenticate, logout).           *)
THEOREM SessionsAreSound == Access!AccessAssumption => (Access!Spec => Access!SessionsSound)
<1> SUFFICES ASSUME Access!AccessAssumption
             PROVE  Access!Spec => Access!SessionsSound
    OBVIOUS
<1>1. Access!Init => AccessInv
      BY AccessInitially
<1>2. AccessInv /\ [Access!Next]_(Access!vars) => AccessInv'
      BY StepKeeps
<1>3. AccessInv /\ [Access!Next]_(Access!vars) => [SoundStep]_(Access!vars)
      BY StepKeeps
<1>4. Access!Spec => [][SoundStep]_(Access!vars)
      BY <1>1, <1>2, <1>3, PTL DEF Access!Spec
<1> QED BY <1>4 DEF Access!SessionsSound, SoundStep

-----------------------------------------------------------------------------
(* The calls of an agent: for any number of attempts and of retries by an  *)
(* administrator, what an attempt is told to correct stays what the record *)
(* says, and no call follows a cancellation.                               *)

CONSTANTS MaxAttempts, MaxManual
VARIABLES runStatus, task, allowed, attempts, worker, raised, past

Calls == INSTANCE AgentCall WITH run <- runStatus

Categories == {"none", "validation", "transient", "other", "cancelled", "worker_interrupted"}
CallStatuses == {"running", "succeeded", "failed", "cancelled"}
Places == {"prepare", "look", "call", "sent", "bind", "return", "done"}

Row == [status : CallStatuses, error : Categories, refused : Nat, corrects : Nat]
Outcomes == [category : Categories, again : BOOLEAN, refusal : BOOLEAN]

Shape ==
    /\ runStatus \in {"running", "cancelling"}
    /\ attempts \in Seq(Row)
    /\ worker \in Seq(Places) /\ Len(worker) = Calls!Last
    /\ raised \in Seq(Outcomes) /\ Len(raised) = Calls!Last

(* An attempt that is not over is the latest one, and its task runs: so    *)
(* what a later attempt was told does not change.                          *)
OnlyLast == \A i \in Calls!Numbers :
    attempts[i].status = "running" => i = Calls!Last /\ task \in {"running", "cancelling"}

CallInv == Shape /\ OnlyLast /\ Calls!CallsFollowUp

LEMMA CallInitially == Calls!Init => CallInv
BY DEF Calls!Init, CallInv, Shape, OnlyLast, Calls!CallsFollowUp, Calls!CorrectionsFollow,
       Calls!CallsStop, Calls!Numbers, Calls!Last

LEMMA NumbersAre == ASSUME Shape PROVE Calls!Numbers = 1..Calls!Last /\ Calls!Last \in Nat
BY DEF Shape, Calls!Numbers, Calls!Last

-----------------------------------------------------------------------------
(* Steps of a worker that leave the attempts alone *)

(* A worker goes somewhere, with what it raised, and begins no call after  *)
(* a cancellation.                                                         *)
LEMMA WorkerStepKeeps ==
    ASSUME CallInv, NEW i \in Calls!Numbers, NEW place \in Places, NEW out \in Outcomes,
           worker' = [worker EXCEPT ![i] = place],
           raised' = raised \/ raised' = [raised EXCEPT ![i] = out],
           UNCHANGED <<runStatus, task, allowed, attempts, past>>,
           runStatus = "cancelling" /\ place \in Calls!Calling => worker[i] \in Calls!Calling
    PROVE  CallInv'
<1>1. Calls!Numbers = 1..Calls!Last /\ i \in 1..Len(worker) /\ i \in 1..Len(raised)
      /\ Calls!Numbers' = Calls!Numbers /\ Calls!Last' = Calls!Last
      BY NumbersAre DEF CallInv, Shape, Calls!Numbers, Calls!Last
<1>2. /\ worker' \in Seq(Places) /\ Len(worker') = Len(worker)
      /\ \A j \in Calls!Numbers : worker'[j] = IF j = i THEN place ELSE worker[j]
      BY <1>1, ExceptSeq DEF CallInv, Shape
<1>3. raised' \in Seq(Outcomes) /\ Len(raised') = Len(raised)
  <2>1. raised \in Seq(Outcomes)
        BY DEF CallInv, Shape
  <2>2. CASE raised' = raised
        BY <2>1, <2>2
  <2>3. CASE raised' = [raised EXCEPT ![i] = out]
        BY <1>1, <2>1, <2>3, ExceptSeq
  <2> QED BY <2>2, <2>3
<1>4. Shape'
      BY <1>1, <1>2, <1>3 DEF CallInv, Shape
<1>5. OnlyLast' /\ Calls!CorrectionsFollow'
      BY <1>1 DEF CallInv, OnlyLast, Calls!CallsFollowUp, Calls!CorrectionsFollow
<1>6. Calls!CallsStop'
      BY <1>1, <1>2 DEF CallInv, Calls!CallsFollowUp, Calls!CallsStop
<1> QED BY <1>4, <1>5, <1>6 DEF CallInv, Calls!CallsFollowUp

LEMMA OutcomesTyped ==
    /\ Calls!Output \in Outcomes /\ Calls!Refusal \in Outcomes
    /\ \A c \in Categories : /\ Calls!Outcome(c, FALSE, FALSE) \in Outcomes
                             /\ Calls!Outcome(c, TRUE, FALSE) \in Outcomes
BY DEF Calls!Output, Calls!Refusal, Calls!Outcome, Outcomes, Categories

LEMMA PrepareKeeps == ASSUME CallInv, NEW i \in Calls!Numbers, Calls!Prepare(i) PROVE CallInv'
<1>1. UNCHANGED <<runStatus, task, allowed, attempts, past>>
      BY DEF Calls!Prepare
<1>2. \/ worker' = [worker EXCEPT ![i] = "look"] /\ raised' = raised
      \/ /\ worker' = [worker EXCEPT ![i] = "return"]
         /\ \E out \in Outcomes : raised' = [raised EXCEPT ![i] = out]
  <2>1. Calls!Output \in Outcomes
        /\ \A c \in {"validation", "other"} : Calls!Outcome(c, FALSE, FALSE) \in Outcomes
        BY OutcomesTyped DEF Categories
  <2> QED BY <2>1 DEF Calls!Prepare, Calls!Goto, Calls!Raise
<1>3. CASE worker' = [worker EXCEPT ![i] = "look"] /\ raised' = raised
      BY <1>1, <1>3, WorkerStepKeeps, OutcomesTyped DEF Calls!Calling, Places, Categories
<1>4. ASSUME NEW out \in Outcomes, worker' = [worker EXCEPT ![i] = "return"],
             raised' = [raised EXCEPT ![i] = out]
      PROVE  CallInv'
      BY <1>1, <1>4, WorkerStepKeeps DEF Calls!Calling, Places
<1> QED BY <1>2, <1>3, <1>4

LEMMA LookKeeps == ASSUME CallInv, NEW i \in Calls!Numbers, Calls!Look(i) PROVE CallInv'
<1>1. UNCHANGED <<runStatus, task, allowed, attempts, past>>
      BY DEF Calls!Look
<1>2. \/ runStatus # "cancelling" /\ worker' = [worker EXCEPT ![i] = "call"] /\ raised' = raised
      \/ /\ worker' = [worker EXCEPT ![i] = "return"]
         /\ raised' = [raised EXCEPT ![i] = Calls!Outcome("cancelled", FALSE, FALSE)]
      BY DEF Calls!Look, Calls!LookForCancellation, Calls!Goto, Calls!Raise
<1>3. CASE runStatus # "cancelling" /\ worker' = [worker EXCEPT ![i] = "call"] /\ raised' = raised
      BY <1>1, <1>3, WorkerStepKeeps, OutcomesTyped DEF Places, Categories, Calls!Calling
<1>4. CASE /\ worker' = [worker EXCEPT ![i] = "return"]
           /\ raised' = [raised EXCEPT ![i] = Calls!Outcome("cancelled", FALSE, FALSE)]
      BY <1>1, <1>4, WorkerStepKeeps, OutcomesTyped DEF Calls!Calling, Places, Categories
<1> QED BY <1>2, <1>3, <1>4

LEMMA CallKeeps == ASSUME CallInv, NEW i \in Calls!Numbers, Calls!Call(i) PROVE CallInv'
<1>1. UNCHANGED <<runStatus, task, allowed, attempts, past>> /\ worker[i] \in Calls!Calling
      BY DEF Calls!Call, Calls!Calling
<1>2. CASE worker' = [worker EXCEPT ![i] = "sent"] /\ raised' = raised
      BY <1>1, <1>2, WorkerStepKeeps, OutcomesTyped DEF Places, Categories, Calls!Calling
<1>3. CASE /\ worker' = [worker EXCEPT ![i] = "return"]
           /\ raised' = [raised EXCEPT ![i] = Calls!Outcome("other", FALSE, FALSE)]
      BY <1>1, <1>3, WorkerStepKeeps, OutcomesTyped DEF Places, Categories, Calls!Calling
<1> QED BY <1>2, <1>3 DEF Calls!Call, Calls!Goto, Calls!Raise

LEMMA AnswerKeeps ==
    ASSUME CallInv, NEW i \in Calls!Numbers, Calls!ReceiveAnswer(i) \/ Calls!Bind(i)
    PROVE  CallInv'
<1>1. UNCHANGED <<runStatus, task, allowed, attempts, past>> /\ worker[i] \in Calls!Calling
      BY DEF Calls!ReceiveAnswer, Calls!Bind, Calls!Calling
<1>2. \/ worker' = [worker EXCEPT ![i] = "bind"] /\ raised' = raised
      \/ /\ worker' = [worker EXCEPT ![i] = "return"]
         /\ \E out \in Outcomes : raised' = [raised EXCEPT ![i] = out]
  <2>1. \A out \in Calls!ProviderErrors
                     \cup {Calls!Refusal, Calls!Output, Calls!Outcome("other", FALSE, FALSE)} :
            out \in Outcomes
        BY OutcomesTyped DEF Calls!ProviderErrors, Categories
  <2> QED BY <2>1 DEF Calls!ReceiveAnswer, Calls!Bind, Calls!Goto, Calls!Raise
<1>3. CASE worker' = [worker EXCEPT ![i] = "bind"] /\ raised' = raised
      BY <1>1, <1>3, WorkerStepKeeps, OutcomesTyped DEF Places, Categories, Calls!Calling
<1>4. ASSUME NEW out \in Outcomes, worker' = [worker EXCEPT ![i] = "return"],
             raised' = [raised EXCEPT ![i] = out]
      PROVE  CallInv'
      BY <1>1, <1>4, WorkerStepKeeps DEF Places, Calls!Calling
<1> QED BY <1>2, <1>3, <1>4

LEMMA DieKeeps == ASSUME CallInv, NEW i \in Calls!Numbers, Calls!Die(i) PROVE CallInv'
<1>1. UNCHANGED <<runStatus, task, allowed, attempts, past>>
      BY DEF Calls!Die
<1>2. worker' = [worker EXCEPT ![i] = "done"] /\ raised' = [raised EXCEPT ![i] = Calls!Output]
      BY DEF Calls!Die, Calls!Leave, Calls!Goto
<1> QED BY <1>1, <1>2, WorkerStepKeeps, OutcomesTyped DEF Calls!Calling, Places, Categories

-----------------------------------------------------------------------------
(* The latest attempt begins and ends *)

LEMMA ClaimKeeps == ASSUME CallInv, Calls!Claim PROVE CallInv'
<1> DEFINE row == [status |-> "running", error |-> "none", refused |-> 0,
                   corrects |-> Calls!Correction(Calls!Previous)]
<1>1. Calls!Numbers = 1..Calls!Last /\ Calls!Last \in Nat
      BY NumbersAre DEF CallInv
<1>2. row \in Row
  <2>1. Calls!Last # 0 => attempts[Calls!Last] \in Row
        BY <1>1 DEF CallInv, Shape, Calls!Last
  <2>2. Calls!Correction(Calls!Previous) \in Nat
        BY <2>1 DEF Calls!Correction, Calls!Previous, Row
  <2> QED BY <2>2 DEF Row, CallStatuses, Categories
<1>3. /\ attempts' = Append(attempts, row)
      /\ worker' = Append(worker, "prepare") /\ raised' = Append(raised, Calls!Output)
      /\ UNCHANGED <<runStatus, allowed, past>> /\ runStatus = "running"
      /\ task = "queued" /\ task' = "running"
      BY DEF Calls!Claim
<1>4. row.corrects = Calls!Correction(Calls!Previous)
      OBVIOUS
<1> HIDE DEF row
<1>5. /\ attempts' \in Seq(Row) /\ Calls!Last' = Calls!Last + 1
      /\ \A j \in Calls!Numbers : attempts'[j] = attempts[j]
      /\ attempts'[Calls!Last + 1] = row
      BY <1>1, <1>2, <1>3, AppendProperties DEF CallInv, Shape, Calls!Last
<1>6. Calls!Numbers' = 1..(Calls!Last + 1)
      BY <1>5 DEF Calls!Numbers, Calls!Last
<1>7. worker' \in Seq(Places) /\ Len(worker') = Calls!Last + 1
      BY <1>3, AppendProperties DEF CallInv, Shape, Places
<1>8. raised' \in Seq(Outcomes) /\ Len(raised') = Calls!Last + 1
      BY <1>3, AppendProperties, OutcomesTyped DEF CallInv, Shape
<1>9. Shape'
      BY <1>3, <1>5, <1>7, <1>8 DEF CallInv, Shape
<1>10. OnlyLast'
  <2>1. \A j \in Calls!Numbers : attempts[j].status # "running"
        BY <1>3 DEF CallInv, OnlyLast
  <2> SUFFICES ASSUME NEW j \in Calls!Numbers'
               PROVE  attempts'[j].status = "running" =>
                          j = Calls!Last' /\ task' \in {"running", "cancelling"}
      BY DEF OnlyLast
  <2>2. j \in Calls!Numbers \/ j = Calls!Last'
        BY <1>1, <1>5, <1>6
  <2>3. task' \in {"running", "cancelling"}
        BY <1>3
  <2>4. CASE j \in Calls!Numbers
        BY <1>5, <2>1, <2>4
  <2> QED BY <2>2, <2>3, <2>4
<1>11. Calls!CorrectionsFollow'
  <2> SUFFICES ASSUME NEW j \in Calls!Numbers' \ {1}
               PROVE  attempts'[j].corrects =
                          IF attempts'[j-1].error = "validation"
                          THEN attempts'[j-1].refused ELSE 0
      BY DEF Calls!CorrectionsFollow
  <2>1. CASE j = Calls!Last + 1
    <3>1. Calls!Last \in Calls!Numbers /\ j - 1 = Calls!Last /\ Calls!Last # 0
          BY <2>1, <1>1, <1>6
    <3> QED BY <2>1, <3>1, <1>4, <1>5 DEF Calls!Correction, Calls!Previous
  <2>2. CASE j # Calls!Last + 1
    <3>1. j \in Calls!Numbers \ {1} /\ j - 1 \in Calls!Numbers
          BY <2>2, <1>1, <1>6
    <3> QED BY <3>1, <1>5 DEF CallInv, Calls!CallsFollowUp, Calls!CorrectionsFollow
  <2> QED BY <2>1, <2>2
<1>12. Calls!CallsStop'
      BY <1>3 DEF Calls!CallsStop
<1> QED BY <1>9, <1>10, <1>11, <1>12 DEF CallInv, Calls!CallsFollowUp

(* The latest attempt ends, and its worker, if it moves, makes no call.    *)
LEMMA CallEndKeeps ==
    ASSUME CallInv, NEW row \in Row, Calls!Last # 0,
           row.status # "running", row.corrects = attempts[Calls!Last].corrects,
           attempts' = [attempts EXCEPT ![Calls!Last] = row],
           UNCHANGED <<runStatus, allowed, past>>,
           worker' \in Seq(Places), Len(worker') = Len(worker),
           raised' \in Seq(Outcomes), Len(raised') = Len(raised),
           \A j \in Calls!Numbers : worker'[j] \in Calls!Calling => worker[j] \in Calls!Calling
    PROVE  CallInv'
<1>1. Calls!Numbers = 1..Calls!Last /\ Calls!Last \in Nat /\ Calls!Last \in 1..Len(attempts)
      BY NumbersAre DEF CallInv, Calls!Last
<1>2. /\ attempts' \in Seq(Row) /\ Calls!Last' = Calls!Last
      /\ \A j \in Calls!Numbers : attempts'[j] = IF j = Calls!Last THEN row ELSE attempts[j]
      BY <1>1, ExceptSeq DEF CallInv, Shape, Calls!Last
<1>3. Calls!Numbers' = Calls!Numbers
      BY <1>1, <1>2 DEF Calls!Numbers, Calls!Last
<1>4. Shape'
      BY <1>2 DEF CallInv, Shape
<1>5. OnlyLast'
      BY <1>2, <1>3 DEF CallInv, OnlyLast
<1>6. Calls!CorrectionsFollow'
  <2> SUFFICES ASSUME NEW j \in Calls!Numbers \ {1}
               PROVE  attempts'[j].corrects =
                          IF attempts'[j-1].error = "validation"
                          THEN attempts'[j-1].refused ELSE 0
      BY <1>3 DEF Calls!CorrectionsFollow
  <2>1. j - 1 \in Calls!Numbers /\ j - 1 # Calls!Last
        BY <1>1
  <2>2. attempts'[j - 1] = attempts[j - 1] /\ attempts'[j].corrects = attempts[j].corrects
        BY <1>2, <2>1
  <2> QED BY <2>2 DEF CallInv, Calls!CallsFollowUp, Calls!CorrectionsFollow
<1>7. Calls!CallsStop'
      BY <1>3 DEF CallInv, Calls!CallsFollowUp, Calls!CallsStop
<1> QED BY <1>4, <1>5, <1>6, <1>7 DEF CallInv, Calls!CallsFollowUp

LEMMA EndedIs ==
    ASSUME Shape, NEW i \in Calls!Numbers, NEW status \in CallStatuses, status # "running",
           NEW outcome \in Outcomes, Calls!Ended(i, status, outcome)
    PROVE  \E row \in Row : /\ row.status # "running" /\ row.corrects = attempts[i].corrects
                            /\ attempts' = [attempts EXCEPT ![i] = row]
<1>1. Calls!Numbers = 1..Calls!Last /\ attempts[i] \in Row
      BY NumbersAre DEF Shape, Calls!Last
<1> DEFINE number == IF outcome.refusal THEN i ELSE 0
           row == [attempts[i] EXCEPT !.status = status, !.error = outcome.category,
                                      !.refused = number]
<1>2. outcome.category \in Categories /\ number \in Nat
      BY <1>1, NumbersAre DEF Outcomes
<1>3. attempts' = [attempts EXCEPT ![i].status = status, ![i].error = outcome.category,
                                   ![i].refused = number]
      BY DEF Calls!Ended
<1> HIDE DEF number
<1>4. row \in Row /\ row.status = status /\ row.corrects = attempts[i].corrects
      BY <1>1, <1>2 DEF Row
<1>5. attempts' = [attempts EXCEPT ![i] = row]
      BY <1>1, <1>3 DEF Row
<1> QED BY <1>4, <1>5

LEMMA ReturnKeeps == ASSUME CallInv, NEW i \in Calls!Numbers, Calls!Return(i) PROVE CallInv'
<1>1. /\ worker' = [worker EXCEPT ![i] = "done"] /\ raised' = [raised EXCEPT ![i] = Calls!Output]
      /\ UNCHANGED <<runStatus, allowed, past>>
      BY DEF Calls!Return, Calls!Leave, Calls!Goto
<1>2. CASE Calls!Over(i)
  <2>1. UNCHANGED <<task, attempts>>
        BY <1>2 DEF Calls!Return
  <2> QED BY <1>1, <2>1, WorkerStepKeeps, OutcomesTyped DEF Calls!Calling, Places, Categories
<1>3. CASE ~Calls!Over(i)
  <2>1. Calls!Numbers = 1..Calls!Last /\ i = Calls!Last /\ Calls!Last # 0
        /\ raised[i] \in Outcomes
        BY <1>3, NumbersAre DEF CallInv, Shape, OnlyLast, Calls!Over
  <2>2. \E status \in CallStatuses, outcome \in Outcomes :
            status # "running" /\ Calls!Ended(i, status, outcome)
    <3>1. [raised[i] EXCEPT !.category = IF @ = "none" THEN "cancelled" ELSE @] \in Outcomes
          BY <2>1 DEF Outcomes, Categories
    <3> QED BY <1>3, <2>1, <3>1 DEF Calls!Return, CallStatuses
  <2>3. PICK row \in Row : /\ row.status # "running" /\ row.corrects = attempts[i].corrects
                           /\ attempts' = [attempts EXCEPT ![i] = row]
        BY <2>2, EndedIs DEF CallInv
  <2>4. /\ worker' \in Seq(Places) /\ Len(worker') = Len(worker)
        /\ \A j \in Calls!Numbers : worker'[j] = IF j = i THEN "done" ELSE worker[j]
        BY <1>1, <2>1, ExceptSeq DEF CallInv, Shape, Places
  <2>5. raised' \in Seq(Outcomes) /\ Len(raised') = Len(raised)
        BY <1>1, <2>1, ExceptSeq, OutcomesTyped DEF CallInv, Shape
  <2>6. \A j \in Calls!Numbers : worker'[j] \in Calls!Calling => worker[j] \in Calls!Calling
        BY <2>4 DEF Calls!Calling
  <2> QED BY <1>1, <2>1, <2>3, <2>4, <2>5, <2>6, CallEndKeeps
<1> QED BY <1>2, <1>3

LEMMA LapseKeeps == ASSUME CallInv, Calls!Lapse PROVE CallInv'
<1>1. Calls!Numbers = 1..Calls!Last /\ Calls!Last # 0 /\ Calls!Last \in Calls!Numbers
      /\ attempts[Calls!Last] \in Row
      BY NumbersAre DEF CallInv, Shape, Calls!Lapse, Calls!Last
<1>2. UNCHANGED <<runStatus, allowed, worker, raised, past>>
      BY DEF Calls!Lapse
<1>3. \E status \in CallStatuses, error \in Categories : /\ status # "running"
          /\ attempts' = [attempts EXCEPT
                 ![Calls!Last].status = status, ![Calls!Last].error = error]
      BY DEF Calls!Lapse, CallStatuses, Categories
<1>4. PICK status \in CallStatuses, error \in Categories : /\ status # "running"
          /\ attempts' = [attempts EXCEPT
                 ![Calls!Last].status = status, ![Calls!Last].error = error]
      BY <1>3
<1> DEFINE row == [attempts[Calls!Last] EXCEPT !.status = status, !.error = error]
<1>5. row \in Row /\ row.status # "running" /\ row.corrects = attempts[Calls!Last].corrects
      BY <1>1, <1>4 DEF Row
<1>6. attempts' = [attempts EXCEPT ![Calls!Last] = row]
      BY <1>1, <1>4 DEF Row
<1> HIDE DEF row
<1> QED BY <1>1, <1>2, <1>5, <1>6, CallEndKeeps DEF CallInv, Shape

-----------------------------------------------------------------------------
(* Users and administrators *)

LEMMA OperatorKeeps == ASSUME CallInv, Calls!RequestCancellation \/ Calls!RetryTask PROVE CallInv'
<1>1. /\ UNCHANGED <<attempts, worker, raised>> /\ runStatus' \in {"running", "cancelling"}
      /\ Calls!Numbers' = Calls!Numbers /\ Calls!Last' = Calls!Last
      BY DEF CallInv, Shape, Calls!RequestCancellation, Calls!RetryTask, Calls!Numbers, Calls!Last
<1>2. Shape'
      BY <1>1 DEF CallInv, Shape
<1>3. OnlyLast'
      BY <1>1 DEF CallInv, OnlyLast, Calls!RequestCancellation, Calls!RetryTask
<1>4. Calls!CorrectionsFollow'
      BY <1>1 DEF CallInv, Calls!CallsFollowUp, Calls!CorrectionsFollow
<1>5. Calls!CallsStop'
      BY <1>1 DEF CallInv, Calls!CallsFollowUp, Calls!CallsStop, Calls!RequestCancellation,
                  Calls!RetryTask
<1> QED BY <1>2, <1>3, <1>4, <1>5 DEF CallInv, Calls!CallsFollowUp

LEMMA CallInvKept == CallInv /\ [Calls!Next]_(Calls!vars) => CallInv'
<1> SUFFICES ASSUME CallInv, [Calls!Next]_(Calls!vars) PROVE CallInv'
    OBVIOUS
<1>1. CASE UNCHANGED Calls!vars
      BY <1>1 DEF Calls!vars, CallInv, Shape, OnlyLast, Calls!CallsFollowUp,
                  Calls!CorrectionsFollow, Calls!CallsStop,
                  Calls!Numbers, Calls!Last
<1>2. ASSUME NEW i \in Calls!Numbers,
             \/ Calls!Prepare(i) \/ Calls!Look(i) \/ Calls!Call(i)
             \/ Calls!ReceiveAnswer(i) \/ Calls!Bind(i) \/ Calls!Return(i) \/ Calls!Die(i)
      PROVE  CallInv'
      BY <1>2, PrepareKeeps, LookKeeps, CallKeeps, AnswerKeeps, ReturnKeeps, DieKeeps
<1>3. CASE Calls!Claim \/ Calls!Lapse \/ Calls!RequestCancellation \/ Calls!RetryTask
      BY <1>3, ClaimKeeps, LapseKeeps, OperatorKeeps
<1> QED BY <1>1, <1>2, <1>3 DEF Calls!Next

(* An attempt corrects the output that the attempt right before it was     *)
(* refused, and after a cancellation no worker makes a call but one that   *)
(* had looked before it (execute_task_run, _complete_attempt_failure,      *)
(* task_is_cancelled).                                                     *)
THEOREM CorrectionsAreTrue == Calls!Spec => []Calls!CallsFollowUp
<1>1. CallInv => Calls!CallsFollowUp
      BY DEF CallInv
<1> QED BY CallInitially, CallInvKept, <1>1, PTL DEF Calls!Spec

-----------------------------------------------------------------------------
(* The knowledge graph: for any number of writers, nodes and versions, a   *)
(* committed version has its body unless the disk is damaged, and what is  *)
(* published is what was projected.                                        *)

CONSTANTS Writers, Nodes, Immutable, MaxVersions, MaxLinks, Faults
VARIABLES lock, current, author, file, node, workspace, written, edges, linking,
    published, graph, rebuild

Graph == INSTANCE Knowledge

(* A transaction that has written holds the lock of the workspace, and its *)
(* versions come right after the current ones.                             *)
WritersInv == \A w \in Writers : written[w] # {} =>
    /\ lock = w
    /\ \A x \in written[w] : /\ x[2] = current[x[1]] + 1
                             /\ file[x] \in {w, "damaged"}

(* A committed version has its author's file, unless that is damaged.      *)
FilesInv == \A x \in Graph!Committed :
    /\ author[x] \in Writers
    /\ file[x] \in {author[x], "damaged"}

QuarantineInv == \A n \in Nodes : node[n] = "quarantined" =>
    \E x \in Graph!Committed : x[1] = n /\ file[x] = "damaged"

BodiesInv == Graph!TypeOK /\ WritersInv /\ FilesInv /\ QuarantineInv

(* The versions that have a predecessor. *)
Later(S) == {x \in S : x[2] > 1}
Succession(S) == {Graph!Lineage(x) : x \in Later(S)}

(* A rebuild holds the lock; what it has read is what is committed.        *)
RebuildInv ==
    /\ Succession(Graph!Committed) \subseteq edges
    /\ published.versions \subseteq Graph!Committed
    /\ rebuild.stage # "idle" => lock = "rebuild"
    /\ rebuild.stage \in {"edges", "write", "mark"} =>
           rebuild.versions = Graph!Committed /\ rebuild.heads = current
    /\ rebuild.stage \in {"write", "mark"} => Succession(Graph!Committed) \subseteq rebuild.edges
    /\ rebuild.stage = "mark" =>
           /\ Graph!Committed \subseteq graph.versions /\ graph.heads = current
           /\ Succession(Graph!Committed) \subseteq graph.edges

GraphInv == BodiesInv /\ RebuildInv /\ Graph!PublishedIsProjected

-----------------------------------------------------------------------------
(* Types *)

LEMMA VersionsNumbered ==
    ASSUME Graph!KnowledgeAssumption
    PROVE  /\ MaxVersions \in Nat \ {0}
           /\ \A x \in Graph!Versions : /\ x = <<x[1], x[2]>> /\ x[1] \in Nodes
                                        /\ x[2] \in Nat /\ x[2] > 0 /\ x[2] <= MaxVersions
           /\ \A n \in Nodes, k \in Nat : k > 0 /\ k <= MaxVersions => <<n, k>> \in Graph!Versions
BY DEF Graph!KnowledgeAssumption, Graph!Versions

LEMMA CommittedAre ==
    ASSUME Graph!KnowledgeAssumption, Graph!TypeOK
    PROVE  Graph!Committed \subseteq Graph!Versions
BY DEF Graph!Committed

LEMMA KnowledgeInitially ==
    ASSUME Graph!KnowledgeAssumption, Graph!Init
    PROVE  GraphInv
<1>1. Graph!Committed = {}
      BY VersionsNumbered DEF Graph!Committed, Graph!Init
<1>2. Graph!TypeOK
      BY VersionsNumbered DEF Graph!Init, Graph!TypeOK, Graph!NoRebuild, Graph!Drafts
<1>3. WritersInv /\ FilesInv /\ QuarantineInv
      BY <1>1 DEF Graph!Init, WritersInv, FilesInv, QuarantineInv
<1>4. RebuildInv
      BY <1>1 DEF Graph!Init, RebuildInv, Succession, Later, Graph!NoRebuild
<1>5. Graph!PublishedIsProjected
      BY DEF Graph!Init, Graph!PublishedIsProjected
<1> QED BY <1>2, <1>3, <1>4, <1>5 DEF GraphInv, BodiesInv

LEMMA KnowledgeTypes ==
    ASSUME Graph!KnowledgeAssumption, Graph!TypeOK, WritersInv, Graph!Next
    PROVE  Graph!TypeOK'
<1> USE VersionsNumbered DEF Graph!rows, Graph!projection
<1>1. ASSUME NEW w \in Writers, NEW n \in Nodes, Graph!Write(w, n)
      PROVE  Graph!TypeOK'
  <2> DEFINE x == <<n, current[n] + 1>>
  <2>1. x \in Graph!Versions
        BY <1>1 DEF Graph!Write, Graph!Written, Graph!Writable, Graph!TypeOK
  <2> HIDE DEF x
  <2>2. /\ file' = [file EXCEPT ![x] = w] /\ written' = [written EXCEPT ![w] = written[w] \cup {x}]
        /\ lock' = w
        BY <1>1 DEF Graph!Write, Graph!Written, x
  <2> QED BY <1>1, <2>1, <2>2 DEF Graph!Write, Graph!TypeOK, Graph!Drafts
<1>2. ASSUME NEW w \in Writers, Graph!Commit(w)
      PROVE  Graph!TypeOK'
  <2>1. \A x \in written[w] : x \in Graph!Versions /\ x[2] = current[x[1]] + 1
        BY <1>2 DEF Graph!Commit, WritersInv, Graph!TypeOK
  <2>2. current' \in [Nodes -> 0..MaxVersions]
    <3>1. \A n \in Nodes : (\E x \in written[w] : x[1] = n) => current[n] + 1 \in 0..MaxVersions
          BY <2>1
    <3> QED BY <1>2, <3>1 DEF Graph!Commit, Graph!TypeOK
  <2>3. author' \in [Graph!Versions -> Writers \cup {"none"}]
        BY <1>2 DEF Graph!Commit, Graph!TypeOK
  <2>4. \A x \in written[w] : x[2] > 1 => Graph!Lineage(x) \in Graph!Edges
        BY <2>1 DEF Graph!Lineage, Graph!Edges
  <2>5. edges' \subseteq Graph!Edges
        BY <1>2, <2>4 DEF Graph!Commit, Graph!TypeOK
  <2> QED BY <1>2, <2>2, <2>3, <2>5 DEF Graph!Commit, Graph!Unlocked, Graph!TypeOK
<1>3. ASSUME NEW w \in Writers, Graph!RollBack(w)
      PROVE  Graph!TypeOK'
      BY <1>3 DEF Graph!RollBack, Graph!Unlocked, Graph!TypeOK
<1>4. ASSUME NEW m \in Nodes, NEW n \in Nodes, Graph!CheckLink(m, n)
      PROVE  Graph!TypeOK'
  <2> DEFINE e == [source |-> <<m, current[m]>>, target |-> <<n, current[n]>>]
  <2>1. e \in Graph!Edges
        BY <1>4 DEF Graph!CheckLink, Graph!TypeOK, Graph!Edges
  <2>2. linking' = linking \cup {e}
        BY <1>4 DEF Graph!CheckLink
  <2> HIDE DEF e
  <2> QED BY <1>4, <2>1, <2>2 DEF Graph!CheckLink, Graph!TypeOK
<1>5. ASSUME NEW e \in linking, Graph!InsertLink(e)
      PROVE  Graph!TypeOK'
      BY <1>5 DEF Graph!InsertLink, Graph!TypeOK
<1>6. CASE Graph!Reconcile
      BY <1>6 DEF Graph!Reconcile, Graph!TypeOK, Graph!Drafts
<1>7. CASE Graph!StartRebuild
      BY <1>7 DEF Graph!StartRebuild, Graph!TypeOK
<1>8. CASE Graph!ReadNodes
      BY <1>8, CommittedAre DEF Graph!ReadNodes, Graph!TypeOK
<1>9. CASE Graph!ReadEdges
      BY <1>9 DEF Graph!ReadEdges, Graph!TypeOK
<1>10. CASE Graph!WriteGraph
      BY <1>10 DEF Graph!WriteGraph, Graph!TypeOK
<1>11. CASE Graph!FailRebuild
      BY <1>11 DEF Graph!FailRebuild, Graph!TypeOK, Graph!NoRebuild, Graph!Unlocked
<1>12. CASE Graph!MarkPublished
      BY <1>12, CommittedAre DEF Graph!MarkPublished, Graph!TypeOK, Graph!NoRebuild, Graph!Unlocked
<1>13. ASSUME NEW x \in Graph!Versions, Graph!Damage(x)
      PROVE  Graph!TypeOK'
      BY <1>13 DEF Graph!Damage, Graph!TypeOK, Graph!Drafts
<1> QED BY <1>1, <1>2, <1>3, <1>4, <1>5, <1>6, <1>7, <1>8, <1>9, <1>10, <1>11, <1>12, <1>13
        DEF Graph!Next

-----------------------------------------------------------------------------
(* Bodies *)

(* What is committed does not change in a step that leaves the rows alone. *)
LEMMA CommittedStays ==
    ASSUME current' = current
    PROVE  Graph!Committed' = Graph!Committed
BY DEF Graph!Committed, Graph!Versions

LEMMA CommitAdds ==
    ASSUME Graph!KnowledgeAssumption, Graph!TypeOK, WritersInv, NEW w \in Writers, Graph!Commit(w)
    PROVE  /\ Graph!Committed' = Graph!Committed \cup written[w]
           /\ \A x \in written[w] : x \in Graph!Versions /\ x \notin Graph!Committed
           /\ \A n \in Nodes : current'[n] # current[n] => <<n, current'[n]>> \in written[w]
<1>1. \A x \in written[w] : /\ x \in Graph!Versions /\ x[2] = current[x[1]] + 1
                            /\ x[1] \in Nodes /\ x = <<x[1], x[2]>>
      BY VersionsNumbered DEF Graph!Commit, WritersInv, Graph!TypeOK
<1>2. \A n \in Nodes :
          /\ current[n] \in Nat
          /\ current'[n] = IF \E x \in written[w] : x[1] = n THEN current[n] + 1 ELSE current[n]
      BY VersionsNumbered DEF Graph!Commit, Graph!TypeOK
<1>3. \A n \in Nodes : (\E x \in written[w] : x[1] = n) <=> <<n, current[n] + 1>> \in written[w]
      BY <1>1
<1>4. ASSUME NEW x \in Graph!Versions
      PROVE  x[2] <= current'[x[1]] <=> x[2] <= current[x[1]] \/ x \in written[w]
  <2>1. x[1] \in Nodes /\ x[2] \in Nat /\ x = <<x[1], x[2]>>
        BY VersionsNumbered
  <2>2. CASE \E y \in written[w] : y[1] = x[1]
    <3>1. current'[x[1]] = current[x[1]] + 1 /\ <<x[1], current[x[1]] + 1>> \in written[w]
          BY <1>2, <1>3, <2>1, <2>2
    <3>2. x \in written[w] <=> x[2] = current[x[1]] + 1
          BY <1>1, <2>1, <3>1
    <3> QED BY <1>2, <2>1, <3>1, <3>2
  <2>3. CASE ~ \E y \in written[w] : y[1] = x[1]
        BY <1>2, <2>1, <2>3
  <2> QED BY <2>2, <2>3
<1>5. Graph!Committed' = Graph!Committed \cup written[w]
      BY <1>1, <1>4 DEF Graph!Committed, Graph!Versions
<1>6. \A x \in written[w] : x \notin Graph!Committed
      BY <1>1, <1>2 DEF Graph!Committed
<1> QED BY <1>1, <1>2, <1>3, <1>5, <1>6

LEMMA BodiesWrite ==
    ASSUME Graph!KnowledgeAssumption, BodiesInv, NEW w \in Writers, NEW n \in Nodes,
           Graph!Write(w, n)
    PROVE  WritersInv' /\ FilesInv' /\ QuarantineInv'
<1> DEFINE x == <<n, current[n] + 1>>
<1>1. /\ x \in Graph!Versions /\ x \notin Graph!Committed
      /\ x[1] = n /\ x[2] = current[n] + 1
      BY VersionsNumbered
      DEF BodiesInv, Graph!Write, Graph!Written, Graph!Writable, Graph!TypeOK, Graph!Committed
<1>2. \A v \in Writers : written[v] # {} => v = w
      BY DEF BodiesInv, WritersInv, Graph!Write, Graph!KnowledgeAssumption
<1>3. /\ lock' = w /\ UNCHANGED <<current, author, node>>
      /\ file' = [file EXCEPT ![x] = w]
      /\ written' = [written EXCEPT ![w] = written[w] \cup {x}]
      BY DEF Graph!Write, Graph!Written, Graph!rows
<1> HIDE DEF x
<1>4. \A y \in Graph!Versions : file'[y] = IF y = x THEN w ELSE file[y]
      BY <1>1, <1>3 DEF BodiesInv, Graph!TypeOK
<1>5. \A v \in Writers : /\ v = w => written'[v] = written[v] \cup {x}
                         /\ v # w => written'[v] = {}
                         /\ written[v] \subseteq Graph!Versions
      BY <1>2, <1>3 DEF BodiesInv, Graph!TypeOK
<1>6. WritersInv'
      BY <1>1, <1>3, <1>4, <1>5 DEF BodiesInv, WritersInv
<1>7. Graph!Committed' = Graph!Committed /\ Graph!Committed \subseteq Graph!Versions
      BY <1>3, CommittedStays, CommittedAre DEF BodiesInv
<1>8. \A y \in Graph!Committed : file'[y] = file[y]
      BY <1>1, <1>4, <1>7
<1> QED BY <1>3, <1>6, <1>7, <1>8 DEF BodiesInv, FilesInv, QuarantineInv

LEMMA BodiesCommit ==
    ASSUME Graph!KnowledgeAssumption, BodiesInv, NEW w \in Writers, Graph!Commit(w)
    PROVE  WritersInv' /\ FilesInv' /\ QuarantineInv'
<1>1. /\ Graph!Committed' = Graph!Committed \cup written[w]
      /\ \A x \in written[w] : x \in Graph!Versions /\ x \notin Graph!Committed
      BY CommitAdds DEF BodiesInv
<1>2. Graph!Committed \subseteq Graph!Versions
      BY CommittedAre DEF BodiesInv
<1>3. /\ UNCHANGED <<file, node>>
      /\ \A x \in Graph!Versions : author'[x] = IF x \in written[w] THEN w ELSE author[x]
      /\ \A v \in Writers : written'[v] = IF v = w THEN {} ELSE written[v]
      BY DEF Graph!Commit, BodiesInv, Graph!TypeOK
<1>4. \A v \in Writers : written[v] # {} => v = w
      BY DEF BodiesInv, WritersInv, Graph!Commit
<1>5. WritersInv'
      BY <1>3, <1>4 DEF WritersInv
<1>6. FilesInv'
  <2>1. \A x \in written[w] : file[x] \in {w, "damaged"}
        BY DEF BodiesInv, WritersInv, Graph!Commit
  <2> QED BY <1>1, <1>2, <1>3, <2>1 DEF BodiesInv, FilesInv
<1>7. QuarantineInv'
      BY <1>1, <1>3 DEF BodiesInv, QuarantineInv
<1> QED BY <1>5, <1>6, <1>7

LEMMA BodiesReconcile ==
    ASSUME Graph!KnowledgeAssumption, BodiesInv, Graph!Reconcile
    PROVE  WritersInv' /\ FilesInv' /\ QuarantineInv'
<1>1. UNCHANGED <<current, author, written>> /\ lock = "free"
      BY DEF Graph!Reconcile, Graph!rows
<1>2. Graph!Committed' = Graph!Committed /\ Graph!Committed \subseteq Graph!Versions
      BY <1>1, CommittedStays, CommittedAre DEF BodiesInv
<1>3. \A x \in Graph!Committed : file'[x] = file[x]
      BY <1>2 DEF Graph!Reconcile
<1>4. \A w \in Writers : written[w] = {}
      BY <1>1 DEF BodiesInv, WritersInv, Graph!KnowledgeAssumption
<1>5. \A n \in Nodes : node'[n] = "quarantined" =>
          node[n] = "quarantined" \/ \E x \in Graph!Committed : x[1] = n /\ file[x] # author[x]
      BY DEF Graph!Reconcile, Graph!Bad
<1>6. QuarantineInv'
      BY <1>2, <1>3, <1>5 DEF BodiesInv, FilesInv, QuarantineInv
<1> QED BY <1>1, <1>2, <1>3, <1>4, <1>6 DEF BodiesInv, WritersInv, FilesInv

LEMMA BodiesDamage ==
    ASSUME Graph!KnowledgeAssumption, BodiesInv, NEW x \in Graph!Versions, Graph!Damage(x)
    PROVE  WritersInv' /\ FilesInv' /\ QuarantineInv'
<1>1. /\ UNCHANGED <<lock, current, author, node, written>>
      /\ \A y \in Graph!Versions : file'[y] = IF y = x THEN "damaged" ELSE file[y]
      BY DEF Graph!Damage, Graph!rows, BodiesInv, Graph!TypeOK
<1>2. Graph!Committed' = Graph!Committed /\ Graph!Committed \subseteq Graph!Versions
      BY <1>1, CommittedStays, CommittedAre DEF BodiesInv
<1>3. \A w \in Writers : written[w] \subseteq Graph!Versions
      BY DEF BodiesInv, Graph!TypeOK
<1> QED BY <1>1, <1>2, <1>3 DEF BodiesInv, WritersInv, FilesInv, QuarantineInv

LEMMA BodiesKept ==
    ASSUME Graph!KnowledgeAssumption, BodiesInv, Graph!Next
    PROVE  BodiesInv'
<1>1. Graph!TypeOK'
      BY KnowledgeTypes DEF BodiesInv
<1>2. ASSUME NEW w \in Writers, Graph!RollBack(w)
      PROVE  WritersInv' /\ FilesInv' /\ QuarantineInv'
  <2>1. /\ UNCHANGED <<current, author, file, node>>
        /\ \A v \in Writers : written'[v] = IF v = w THEN {} ELSE written[v]
        BY <1>2 DEF Graph!RollBack, Graph!rows, BodiesInv, Graph!TypeOK
  <2>2. \A v \in Writers : written[v] # {} => v = w
        BY <1>2 DEF BodiesInv, WritersInv, Graph!RollBack
  <2>3. Graph!Committed' = Graph!Committed
        BY <2>1, CommittedStays
  <2> QED BY <2>1, <2>2, <2>3 DEF BodiesInv, WritersInv, FilesInv, QuarantineInv
<1>3. ASSUME \/ \E m, n \in Nodes : Graph!CheckLink(m, n)
             \/ \E e \in linking : Graph!InsertLink(e)
             \/ Graph!StartRebuild \/ Graph!ReadNodes \/ Graph!ReadEdges \/ Graph!WriteGraph
             \/ Graph!FailRebuild \/ Graph!MarkPublished
      PROVE  WritersInv' /\ FilesInv' /\ QuarantineInv'
  <2>1. /\ UNCHANGED <<current, author, file, node, written>>
        /\ lock' = lock \/ lock = "free" \/ (lock = "rebuild" /\ lock' = "free")
        BY <1>3 DEF Graph!CheckLink, Graph!InsertLink, Graph!StartRebuild, Graph!ReadNodes,
           Graph!ReadEdges, Graph!WriteGraph, Graph!FailRebuild, Graph!MarkPublished,
           Graph!Unlocked, Graph!rows
  <2>2. Graph!Committed' = Graph!Committed
        BY <2>1, CommittedStays
  <2>3. WritersInv'
        BY <2>1 DEF BodiesInv, WritersInv, Graph!KnowledgeAssumption
  <2> QED BY <2>1, <2>2, <2>3 DEF BodiesInv, FilesInv, QuarantineInv
<1> QED BY <1>1, <1>2, <1>3, BodiesWrite, BodiesCommit, BodiesReconcile, BodiesDamage
        DEF Graph!Next, BodiesInv

LEMMA BodiesRest ==
    ASSUME BodiesInv, UNCHANGED Graph!vars
    PROVE  BodiesInv'
BY DEF Graph!vars, BodiesInv, Graph!TypeOK, WritersInv, FilesInv, QuarantineInv,
   Graph!Committed, Graph!Versions, Graph!Edges, Graph!Drafts

(* Every version a transaction committed can be read with the body it was  *)
(* created with, unless its file was damaged, and nothing else quarantines *)
(* a node (read_version_body, reconcile_workspace).                        *)
THEOREM BodiesStay == Graph!KnowledgeAssumption => (Graph!Spec => []Graph!BodiesAvailable)
<1> SUFFICES ASSUME Graph!KnowledgeAssumption PROVE Graph!Spec => []Graph!BodiesAvailable
    OBVIOUS
<1>1. Graph!Init => BodiesInv
      BY KnowledgeInitially DEF GraphInv
<1>2. BodiesInv /\ [Graph!Next]_(Graph!vars) => BodiesInv'
  <2>1. CASE UNCHANGED Graph!vars
        BY <2>1, BodiesRest
  <2> QED BY <2>1, BodiesKept
<1>3. BodiesInv => Graph!BodiesAvailable
      BY DEF BodiesInv, FilesInv, QuarantineInv, Graph!BodiesAvailable, Graph!Bad, Graph!Damaged,
         Graph!KnowledgeAssumption
<1> QED BY <1>1, <1>2, <1>3, PTL DEF Graph!Spec

-----------------------------------------------------------------------------
(* The projection *)

LEMMA ProjectionCommit ==
    ASSUME Graph!KnowledgeAssumption, GraphInv, NEW w \in Writers, Graph!Commit(w)
    PROVE  RebuildInv' /\ Graph!PublishedIsProjected'
<1>1. /\ Graph!Committed' = Graph!Committed \cup written[w]
      /\ \A x \in written[w] : x \notin Graph!Committed
      /\ \A n \in Nodes : current'[n] # current[n] => <<n, current'[n]>> \in written[w]
      BY CommitAdds DEF GraphInv, BodiesInv
<1>2. rebuild.stage = "idle"
      BY DEF GraphInv, BodiesInv, WritersInv, RebuildInv, Graph!Commit, Graph!KnowledgeAssumption
<1>3. /\ UNCHANGED <<published, graph, rebuild>>
      /\ edges' = edges \cup {Graph!Lineage(x) : x \in {y \in written[w] : y[2] > 1}}
      BY DEF Graph!Commit, Graph!projection
<1>4. Succession(Graph!Committed)' \subseteq edges'
      BY <1>1, <1>3 DEF GraphInv, RebuildInv, Succession, Later, Graph!Lineage
<1>5. RebuildInv'
      BY <1>1, <1>2, <1>3, <1>4 DEF GraphInv, RebuildInv
<1>6. \A n \in Nodes : <<n, current'[n]>> \in published.versions => current'[n] = current[n]
      BY <1>1 DEF GraphInv, RebuildInv
<1>7. Graph!PublishedIsProjected'
      BY <1>3, <1>6 DEF GraphInv, Graph!PublishedIsProjected, Graph!Lineage
<1> QED BY <1>5, <1>7

(* Steps that leave the committed versions, the projection and the rebuild *)
(* as they are, and take no relation away.                                 *)
LEMMA ProjectionRests ==
    ASSUME GraphInv, UNCHANGED <<current, published, graph, rebuild>>, edges \subseteq edges',
           lock = "rebuild" => lock' = "rebuild"
    PROVE  RebuildInv' /\ Graph!PublishedIsProjected'
<1>1. Graph!Committed' = Graph!Committed
      BY CommittedStays
<1>2. Succession(Graph!Committed)' = Succession(Graph!Committed)
      BY <1>1 DEF Succession, Later, Graph!Lineage
<1>3. RebuildInv'
      BY <1>1, <1>2 DEF GraphInv, RebuildInv
<1>4. Graph!PublishedIsProjected'
      BY DEF GraphInv, Graph!PublishedIsProjected, Graph!Lineage
<1> QED BY <1>3, <1>4

LEMMA ProjectionRebuild ==
    ASSUME Graph!KnowledgeAssumption, GraphInv,
           \/ Graph!StartRebuild \/ Graph!ReadNodes \/ Graph!ReadEdges \/ Graph!WriteGraph
           \/ Graph!FailRebuild \/ Graph!MarkPublished
    PROVE  RebuildInv' /\ Graph!PublishedIsProjected'
<1>1. UNCHANGED <<current, edges>>
      BY DEF Graph!StartRebuild, Graph!ReadNodes, Graph!ReadEdges, Graph!WriteGraph,
         Graph!FailRebuild, Graph!MarkPublished, Graph!rows
<1>2. Graph!Committed' = Graph!Committed
      BY <1>1, CommittedStays
<1>3. Succession(Graph!Committed)' = Succession(Graph!Committed)
      BY <1>2 DEF Succession, Later, Graph!Lineage
<1>4. /\ published \in [versions : SUBSET Graph!Versions, edges : SUBSET Graph!Edges]
      /\ rebuild \in [stage : {"idle", "nodes", "edges", "write", "mark"},
                      versions : SUBSET Graph!Versions, heads : [Nodes -> 0..MaxVersions],
                      edges : SUBSET Graph!Edges]
      BY DEF GraphInv, BodiesInv, Graph!TypeOK
<1>5. CASE Graph!StartRebuild
  <2>1. lock' = "rebuild" /\ rebuild' = [rebuild EXCEPT !.stage = "nodes"]
        /\ UNCHANGED <<published, graph>>
        BY <1>5 DEF Graph!StartRebuild
  <2>2. RebuildInv'
        BY <1>1, <1>2, <1>3, <1>4, <2>1 DEF GraphInv, RebuildInv
  <2>3. Graph!PublishedIsProjected'
        BY <1>1, <2>1 DEF GraphInv, Graph!PublishedIsProjected, Graph!Lineage
  <2> QED BY <2>2, <2>3
<1>6. CASE Graph!ReadNodes
  <2>1. /\ lock' = lock /\ rebuild.stage = "nodes" /\ UNCHANGED <<published, graph>>
        /\ rebuild' = [rebuild EXCEPT !.stage = "edges", !.versions = Graph!Committed,
                                      !.heads = current]
        BY <1>6 DEF Graph!ReadNodes
  <2>2. RebuildInv'
        BY <1>1, <1>2, <1>3, <1>4, <2>1 DEF GraphInv, RebuildInv
  <2>3. Graph!PublishedIsProjected'
        BY <1>1, <2>1 DEF GraphInv, Graph!PublishedIsProjected, Graph!Lineage
  <2> QED BY <2>2, <2>3
<1>7. CASE Graph!ReadEdges
  <2>1. /\ lock' = lock /\ rebuild.stage = "edges" /\ UNCHANGED <<published, graph>>
        /\ rebuild' = [rebuild EXCEPT !.stage = "write", !.edges = edges]
        BY <1>7 DEF Graph!ReadEdges
  <2>2. RebuildInv'
        BY <1>1, <1>2, <1>3, <1>4, <2>1 DEF GraphInv, RebuildInv
  <2>3. Graph!PublishedIsProjected'
        BY <1>1, <2>1 DEF GraphInv, Graph!PublishedIsProjected, Graph!Lineage
  <2> QED BY <2>2, <2>3
<1>8. CASE Graph!WriteGraph
  <2>1. /\ lock' = lock /\ rebuild.stage = "write" /\ published' = published
        /\ rebuild' = [rebuild EXCEPT !.stage = "mark"]
        /\ graph'.versions = rebuild.versions /\ graph'.heads = rebuild.heads
        /\ graph'.edges = {e \in rebuild.edges : {e.source, e.target} \subseteq rebuild.versions}
        BY <1>8 DEF Graph!WriteGraph
  <2>2. rebuild.versions = Graph!Committed /\ rebuild.heads = current
        /\ Succession(Graph!Committed) \subseteq rebuild.edges
        BY <2>1 DEF GraphInv, RebuildInv
  <2>3. ASSUME NEW x \in Later(Graph!Committed)
        PROVE  /\ Graph!Lineage(x).source \in Graph!Committed
               /\ Graph!Lineage(x).target \in Graph!Committed
    <3>1. /\ x \in Graph!Committed /\ x \in Graph!Versions /\ x[2] > 1
          /\ x[1] \in Nodes /\ x[2] \in Nat /\ x[2] <= MaxVersions /\ x[2] <= current[x[1]]
          /\ current[x[1]] \in Nat /\ MaxVersions \in Nat
          BY VersionsNumbered DEF Later, Graph!Committed, GraphInv, BodiesInv, Graph!TypeOK
    <3>2. x[2] - 1 \in Nat /\ x[2] - 1 > 0 /\ x[2] - 1 <= MaxVersions /\ x[2] - 1 <= current[x[1]]
          BY <3>1
    <3>3. <<x[1], x[2] - 1>> \in Graph!Versions
          BY <3>1, <3>2, VersionsNumbered
    <3> QED BY <3>1, <3>2, <3>3 DEF Graph!Lineage, Graph!Committed
  <2>4. Succession(Graph!Committed) \subseteq graph'.edges
        BY <2>1, <2>2, <2>3 DEF Succession
  <2>5. RebuildInv'
        BY <1>1, <1>2, <1>3, <1>4, <2>1, <2>2, <2>4 DEF GraphInv, RebuildInv
  <2>6. {Graph!Lineage(x) : x \in {y \in published.versions : y[2] > 1}}
            \subseteq Succession(Graph!Committed)
        BY DEF GraphInv, RebuildInv, Succession, Later
  <2>7. Graph!PublishedIsProjected'
        BY <1>1, <2>1, <2>2, <2>4, <2>6
        DEF GraphInv, RebuildInv, Graph!PublishedIsProjected, Graph!Lineage
  <2> QED BY <2>5, <2>7
<1>9. CASE Graph!FailRebuild
  <2>1. /\ lock' = "free" /\ published' = published /\ graph'.whole = FALSE
        /\ rebuild'.stage = "idle"
        BY <1>9 DEF Graph!FailRebuild, Graph!Unlocked, Graph!NoRebuild, GraphInv, RebuildInv
  <2>2. RebuildInv'
        BY <1>1, <1>2, <1>3, <2>1 DEF GraphInv, RebuildInv
  <2> QED BY <2>1, <2>2 DEF Graph!PublishedIsProjected
<1>10. CASE Graph!MarkPublished
  <2>1. /\ graph' = graph /\ rebuild.stage = "mark" /\ rebuild'.stage = "idle"
        /\ published'.versions = Graph!Committed
        BY <1>10 DEF Graph!MarkPublished, Graph!NoRebuild
  <2>2. RebuildInv'
        BY <1>1, <1>2, <1>3, <2>1 DEF GraphInv, RebuildInv
  <2>3. /\ Graph!Committed \subseteq graph.versions /\ graph.heads = current
        /\ Succession(Graph!Committed) \subseteq graph.edges
        BY <2>1 DEF GraphInv, RebuildInv
  <2>4. Graph!PublishedIsProjected'
        BY <1>1, <2>1, <2>3 DEF Graph!PublishedIsProjected, Succession, Later, Graph!Lineage
  <2> QED BY <2>2, <2>4
<1> QED BY <1>5, <1>6, <1>7, <1>8, <1>9, <1>10

LEMMA ProjectionKept ==
    ASSUME Graph!KnowledgeAssumption, GraphInv, Graph!Next
    PROVE  GraphInv'
<1>1. BodiesInv'
      BY BodiesKept DEF GraphInv
<1>2. ASSUME \/ \E w \in Writers : (\E n \in Nodes : Graph!Write(w, n)) \/ Graph!RollBack(w)
             \/ \E m, n \in Nodes : Graph!CheckLink(m, n)
             \/ \E e \in linking : Graph!InsertLink(e)
             \/ Graph!Reconcile
             \/ \E x \in Graph!Versions : Graph!Damage(x)
      PROVE  RebuildInv' /\ Graph!PublishedIsProjected'
  <2>1. UNCHANGED <<current, published, graph, rebuild>> /\ edges \subseteq edges'
        BY <1>2 DEF Graph!Write, Graph!RollBack, Graph!CheckLink, Graph!InsertLink,
           Graph!Reconcile, Graph!Damage, Graph!rows, Graph!projection
  <2>2. lock = "rebuild" => lock' = "rebuild"
        BY <1>2 DEF Graph!Write, Graph!RollBack, Graph!CheckLink, Graph!InsertLink,
           Graph!Reconcile, Graph!Damage, Graph!Unlocked, Graph!KnowledgeAssumption
  <2> QED BY <2>1, <2>2, ProjectionRests
<1> QED BY <1>1, <1>2, ProjectionCommit, ProjectionRebuild DEF Graph!Next, GraphInv

(* What the outbox calls published is in Neo4j, with the versions that are *)
(* current, unless a rebuild failed since: nothing is committed between    *)
(* the reads of a rebuild and its mark (rebuild_neo4j_projection).         *)
THEOREM PublishedStays == Graph!KnowledgeAssumption => (Graph!Spec => []Graph!PublishedIsProjected)
<1> SUFFICES ASSUME Graph!KnowledgeAssumption PROVE Graph!Spec => []Graph!PublishedIsProjected
    OBVIOUS
<1>1. Graph!Init => GraphInv
      BY KnowledgeInitially
<1>2. GraphInv /\ [Graph!Next]_(Graph!vars) => GraphInv'
  <2> SUFFICES ASSUME GraphInv, [Graph!Next]_(Graph!vars) PROVE GraphInv'
      OBVIOUS
  <2>1. CASE UNCHANGED Graph!vars
    <3>1. BodiesInv'
          BY <2>1, BodiesRest DEF GraphInv
    <3>2. UNCHANGED <<lock, current, edges, published, graph, rebuild>>
          BY <2>1 DEF Graph!vars
    <3>3. GraphInv => RebuildInv' /\ Graph!PublishedIsProjected'
          BY <3>2, ProjectionRests
    <3> QED BY <3>1, <3>3 DEF GraphInv
  <2> QED BY <2>1, ProjectionKept
<1>3. GraphInv => Graph!PublishedIsProjected
      BY DEF GraphInv
<1> QED BY <1>1, <1>2, <1>3, PTL DEF Graph!Spec

-----------------------------------------------------------------------------
(* The catalog: for any number of refreshers, models and refreshes, a      *)
(* policy is validated against the newest lists.                           *)

CONSTANTS Refreshers, Scheduled, PlansOf, Models, Providers, StaleAfter, Every, MaxRefreshes,
    Horizon
VARIABLES clock, refreshes, refresher, refreshLock, policy, validation

Catalog == INSTANCE Catalog WITH now <- clock, lock <- refreshLock, MaxTime <- Horizon

Refresh == [target : Catalog!Targets, status : {"running", "succeeded", "failed"},
            started : Nat, completed : Nat, rows : SUBSET (Models \cup Providers), listed : Nat]

Desk == [left : Seq(Catalog!Targets), refresh : Nat, got : SUBSET (Models \cup Providers),
         since : Nat]

(* A list counts from the moment it was received. *)
CatalogInv ==
    /\ clock \in Nat
    /\ refreshes \in Seq(Refresh)
    /\ refresher \in [Refreshers -> Desk]
    /\ \A r \in Refreshers : /\ refresher[r].refresh <= Len(refreshes)
                             /\ refresher[r].since # 0 => refresher[r].refresh # 0
                             /\ refresher[r].refresh # 0 => refresher[r].left # <<>>
    /\ \A k \in 1..Len(refreshes) :
           refreshes[k].status = "succeeded" => refreshes[k].completed = refreshes[k].listed

LEMMA CatalogInitially ==
    ASSUME Catalog!CatalogAssumption, Catalog!Init
    PROVE  CatalogInv
<1>1. <<>> \in Seq(Refresh) /\ <<>> \in Seq(Catalog!Targets) /\ Len(<<>>) = 0
      OBVIOUS
<1> QED BY <1>1 DEF Catalog!Init, Catalog!Idle, CatalogInv, Desk

(* What became of one refresh. *)
LEMMA OutcomeKeeps ==
    ASSUME CatalogInv, NEW r \in Refreshers, refresher[r].refresh # 0,
           NEW row \in Refresh, row.status = "succeeded" => row.completed = row.listed,
           refreshes' = [refreshes EXCEPT ![refresher[r].refresh] = row]
    PROVE  /\ refreshes' \in Seq(Refresh) /\ Len(refreshes') = Len(refreshes)
           /\ \A k \in 1..Len(refreshes') :
                 refreshes'[k].status = "succeeded" => refreshes'[k].completed = refreshes'[k].listed
<1>1. refresher[r].refresh \in 1..Len(refreshes) /\ refreshes \in Seq(Refresh)
      BY DEF CatalogInv, Desk
<1>2. refreshes' \in Seq(Refresh) /\ Len(refreshes') = Len(refreshes)
      BY <1>1
<1>3. \A k \in 1..Len(refreshes) :
          refreshes'[k] = IF k = refresher[r].refresh THEN row ELSE refreshes[k]
      BY <1>1
<1> QED BY <1>2, <1>3 DEF CatalogInv

(* A refresher that leaves its refresh is idle, or about to begin another. *)
LeftDesk == /\ refresher' \in [Refreshers -> Desk]
            /\ \A s \in Refreshers : \/ refresher'[s] = refresher[s]
                                     \/ refresher'[s].refresh = 0 /\ refresher'[s].since = 0

LEMMA LeavingIs ==
    ASSUME CatalogInv, NEW r \in Refreshers,
           NEW left \in Seq(Catalog!Targets), Catalog!Leave(r, left)
    PROVE  LeftDesk
BY DEF CatalogInv, Desk, LeftDesk, Catalog!Leave, Catalog!Idle

LEMMA LeftKeeps ==
    ASSUME CatalogInv, LeftDesk, clock' \in Nat, refreshes' \in Seq(Refresh),
           Len(refreshes') = Len(refreshes),
           \A k \in 1..Len(refreshes') :
              refreshes'[k].status = "succeeded" => refreshes'[k].completed = refreshes'[k].listed
    PROVE  CatalogInv'
BY DEF CatalogInv, LeftDesk

(* A validation reads; what it reads stays.                                *)
Validates ==
    \/ \E acknowledged \in BOOLEAN : Catalog!BeginValidation(acknowledged)
    \/ \E m \in Models : Catalog!FindEndpoints(m)
    \/ \E t \in Catalog!Targets : Catalog!Judge(t)
    \/ Catalog!PublishPolicy \/ Catalog!Refuse

LEMMA DeskSteps == Validates => UNCHANGED <<clock, refreshes, refresher>>
BY DEF Validates, Catalog!BeginValidation, Catalog!FindEndpoints, Catalog!Judge,
       Catalog!PublishPolicy, Catalog!Refuse

LEMMA CatalogKept ==
    ASSUME Catalog!CatalogAssumption, CatalogInv, [Catalog!Next]_(Catalog!vars)
    PROVE  CatalogInv'
<1>0. /\ clock \in Nat /\ refreshes \in Seq(Refresh) /\ refresher \in [Refreshers -> Desk]
      /\ Len(refreshes) \in Nat /\ <<>> \in Seq(Catalog!Targets) /\ {} \in SUBSET (Models \cup Providers)
      /\ \A r \in Refreshers : refresher[r].left \in Seq(Catalog!Targets)
      BY DEF CatalogInv, Desk
<1>1. ASSUME NEW r \in Refreshers, NEW plan \in PlansOf[r],
             refresher[r] = Catalog!Idle,
             refresher' = [refresher EXCEPT ![r].left = plan], UNCHANGED <<clock, refreshes>>
      PROVE  CatalogInv'
  <2>1. plan \in Seq(Catalog!Targets)
        BY DEF Catalog!CatalogAssumption, Catalog!Targets
  <2>2. /\ refresher' \in [Refreshers -> Desk]
        /\ \A s \in Refreshers : \/ refresher'[s] = refresher[s]
                                 \/ refresher'[s].refresh = 0 /\ refresher'[s].since = 0
    <3>1. \A s \in Refreshers : refresher'[s] = IF s = r THEN [refresher[r] EXCEPT !.left = plan]
                                                   ELSE refresher[s]
          BY <1>0, <1>1
    <3>2. [refresher[r] EXCEPT !.left = plan] \in Desk
          BY <1>0, <2>1 DEF Desk
    <3>3. refresher' \in [Refreshers -> Desk]
          BY <1>0, <1>1, <3>1, <3>2
    <3>4. [refresher[r] EXCEPT !.left = plan].refresh = 0 /\ [refresher[r] EXCEPT !.left = plan].since = 0
          BY <1>1 DEF Catalog!Idle
    <3> QED BY <3>1, <3>3, <3>4
  <2>3. LeftDesk
        BY <2>2 DEF LeftDesk
  <2> QED BY <1>0, <1>1, <2>3, LeftKeeps DEF CatalogInv
<1>2. ASSUME NEW r \in Refreshers, Catalog!BeginRefresh(r)
      PROVE  CatalogInv'
  <2> DEFINE row == [target |-> Head(refresher[r].left), status |-> "running",
                     started |-> clock, completed |-> 0, rows |-> {}, listed |-> 0]
  <2>1. /\ refreshes' = Append(refreshes, row) /\ clock' = clock
        /\ refresher' = [refresher EXCEPT ![r].refresh = Len(refreshes')]
        /\ refresher[r].left # <<>>
        BY <1>2 DEF Catalog!BeginRefresh
  <2>2. refresher[r].left \in Seq(Catalog!Targets)
        BY <1>0
  <2>3. Head(refresher[r].left) \in Catalog!Targets
        BY <2>1, <2>2
  <2>4. row \in Refresh /\ row.status = "running"
        BY <1>0, <2>3 DEF Refresh
  <2> HIDE DEF row
  <2>5. /\ refreshes' \in Seq(Refresh) /\ Len(refreshes') = Len(refreshes) + 1
        /\ \A k \in 1..Len(refreshes') :
              refreshes'[k] = IF k <= Len(refreshes) THEN refreshes[k] ELSE row
        BY <1>0, <2>1, <2>4
  <2>6. /\ refresher' \in [Refreshers -> Desk]
        /\ \A s \in Refreshers : /\ refresher'[s].left = refresher[s].left
                                 /\ refresher'[s].since = refresher[s].since
                                 /\ \/ refresher'[s].refresh = refresher[s].refresh
                                    \/ s = r /\ refresher'[s].refresh = Len(refreshes')
    <3> DEFINE n == Len(refreshes')
    <3>1. n \in Nat /\ refresher' = [refresher EXCEPT ![r].refresh = n]
          BY <1>0, <2>1, <2>5
    <3> HIDE DEF n
    <3>2. /\ refresher' \in [Refreshers -> Desk]
          /\ \A s \in Refreshers : /\ refresher'[s].left = refresher[s].left
                                   /\ refresher'[s].since = refresher[s].since
                                   /\ \/ refresher'[s].refresh = refresher[s].refresh
                                      \/ s = r /\ refresher'[s].refresh = n
          BY <1>0, <3>1 DEF Desk
    <3> QED BY <3>2 DEF n
  <2>7. \A s \in Refreshers : /\ refresher'[s].refresh <= Len(refreshes')
                              /\ refresher'[s].since # 0 => refresher'[s].refresh # 0
                              /\ refresher'[s].refresh # 0 => refresher'[s].left # <<>>
    <3> SUFFICES ASSUME NEW s \in Refreshers
                 PROVE  /\ refresher'[s].refresh <= Len(refreshes')
                        /\ refresher'[s].since # 0 => refresher'[s].refresh # 0
                        /\ refresher'[s].refresh # 0 => refresher'[s].left # <<>>
        OBVIOUS
    <3>1. CASE refresher'[s].refresh = refresher[s].refresh
          BY <1>0, <2>5, <2>6, <3>1 DEF CatalogInv, Desk
    <3>2. CASE s = r /\ refresher'[s].refresh = Len(refreshes')
          BY <1>0, <2>1, <2>5, <2>6, <3>2
    <3> QED BY <2>6, <3>1, <3>2
  <2>8. \A k \in 1..Len(refreshes') :
            refreshes'[k].status = "succeeded" => refreshes'[k].completed = refreshes'[k].listed
        BY <1>0, <2>4, <2>5 DEF CatalogInv
  <2> QED BY <1>0, <2>1, <2>5, <2>6, <2>7, <2>8 DEF CatalogInv
<1>3. ASSUME NEW r \in Refreshers, Catalog!ReceiveList(r)
      PROVE  CatalogInv'
  <2>1. PICK list \in SUBSET (Models \cup Providers) :
            /\ refresher' = [refresher EXCEPT ![r].got = list, ![r].since = clock + 1]
            /\ refresher[r].refresh # 0 /\ UNCHANGED <<clock, refreshes>>
        BY <1>3 DEF Catalog!ReceiveList, Catalog!Listing, Catalog!ListsOf
  <2> DEFINE desk == [refresher[r] EXCEPT !.got = list, !.since = clock + 1]
  <2>2. \A s \in Refreshers : refresher'[s] = IF s = r THEN desk ELSE refresher[s]
    <3>1. ASSUME NEW s \in Refreshers, s # r PROVE refresher'[s] = refresher[s]
          BY <1>0, <2>1, <3>1
    <3>2. refresher'[r] = [[refresher[r] EXCEPT !.got = list] EXCEPT !.since = clock + 1]
          BY <1>0, <2>1
    <3>3. desk = [[refresher[r] EXCEPT !.got = list] EXCEPT !.since = clock + 1]
          BY <1>0 DEF Desk
    <3> QED BY <3>1, <3>2, <3>3
  <2>3. desk \in Desk /\ desk.refresh = refresher[r].refresh /\ desk.left = refresher[r].left
    <3>1. refresher[r] \in Desk /\ clock + 1 \in Nat
          BY <1>0
    <3> QED BY <3>1 DEF Desk
  <2> HIDE DEF desk
  <2>4. /\ refresher' \in [Refreshers -> Desk]
        /\ \A s \in Refreshers : /\ refresher'[s].refresh = refresher[s].refresh
                                 /\ refresher'[s].left = refresher[s].left
                                 /\ s # r => refresher'[s] = refresher[s]
    <3>1. refresher' = [s \in Refreshers |-> refresher'[s]]
          BY <1>0, <2>1
    <3> QED BY <1>0, <2>2, <2>3, <3>1
  <2>5. \A s \in Refreshers : /\ refresher'[s].refresh <= Len(refreshes)
                              /\ refresher'[s].since # 0 => refresher'[s].refresh # 0
                              /\ refresher'[s].refresh # 0 => refresher'[s].left # <<>>
        BY <2>1, <2>4 DEF CatalogInv
  <2> QED BY <1>0, <2>1, <2>4, <2>5 DEF CatalogInv
<1>4. ASSUME NEW r \in Refreshers, Catalog!Store(r)
      PROVE  CatalogInv'
  <2> DEFINE row == [refreshes[refresher[r].refresh] EXCEPT
                         !.status = "succeeded", !.completed = refresher[r].since - 1,
                         !.rows = refresher[r].got, !.listed = refresher[r].since - 1]
  <2>1. /\ refreshes' = [refreshes EXCEPT ![refresher[r].refresh] = row] /\ clock' = clock
        /\ refresher[r].since # 0 /\ refresher[r].refresh # 0 /\ refresher[r].left # <<>>
        BY <1>4 DEF Catalog!Store, Catalog!Completed, CatalogInv
  <2>2. /\ refreshes[refresher[r].refresh] \in Refresh
        /\ refresher[r].since - 1 \in Nat /\ refresher[r].got \in SUBSET (Models \cup Providers)
        BY <1>0, <2>1 DEF CatalogInv, Desk
  <2>3. row \in Refresh /\ row.completed = row.listed
        BY <2>2 DEF Refresh
  <2> HIDE DEF row
  <2>4. PICK left \in {Tail(refresher[r].left), <<>>} : Catalog!Leave(r, left)
        BY <1>4 DEF Catalog!Store
  <2>5. left \in Seq(Catalog!Targets)
    <3>1. refresher[r].left \in Seq(Catalog!Targets) /\ refresher[r].left # <<>>
          BY <1>0, <2>1
    <3>2. Tail(refresher[r].left) \in Seq(Catalog!Targets)
          BY <3>1
    <3> QED BY <1>0, <2>4, <3>2
  <2>6. /\ refreshes' \in Seq(Refresh) /\ Len(refreshes') = Len(refreshes)
        /\ \A k \in 1..Len(refreshes') :
              refreshes'[k].status = "succeeded" => refreshes'[k].completed = refreshes'[k].listed
        BY <2>1, <2>3, OutcomeKeeps
  <2>7. LeftDesk
        BY <2>4, <2>5, LeavingIs
  <2> QED BY <1>0, <2>1, <2>6, <2>7, LeftKeeps
<1>5. ASSUME NEW r \in Refreshers, Catalog!FailRefresh(r)
      PROVE  CatalogInv'
  <2> DEFINE row == [refreshes[refresher[r].refresh] EXCEPT
                         !.status = "failed", !.completed = clock]
  <2>1. /\ refreshes' = [refreshes EXCEPT ![refresher[r].refresh] = row] /\ clock' = clock
        /\ refresher[r].refresh # 0 /\ Catalog!Leave(r, <<>>)
        BY <1>5 DEF Catalog!FailRefresh
  <2>2. refreshes[refresher[r].refresh] \in Refresh
        BY <1>0, <2>1 DEF CatalogInv, Desk
  <2>3. row \in Refresh /\ row.status = "failed"
        BY <1>0, <2>2 DEF Refresh
  <2> HIDE DEF row
  <2>4. /\ refreshes' \in Seq(Refresh) /\ Len(refreshes') = Len(refreshes)
        /\ \A k \in 1..Len(refreshes') :
              refreshes'[k].status = "succeeded" => refreshes'[k].completed = refreshes'[k].listed
        BY <2>1, <2>3, OutcomeKeeps
  <2>5. LeftDesk
        BY <1>0, <2>1, LeavingIs
  <2> QED BY <1>0, <2>1, <2>4, <2>5, LeftKeeps
<1>6. ASSUME NEW r \in Refreshers, Catalog!Die(r)
      PROVE  CatalogInv'
  <2>1. /\ refresher' = [refresher EXCEPT ![r] = Catalog!Idle]
        /\ clock' = clock /\ refreshes' = refreshes
        BY <1>6 DEF Catalog!Die
  <2>2. Catalog!Idle \in Desk /\ Catalog!Idle.refresh = 0 /\ Catalog!Idle.since = 0
        BY <1>0 DEF Desk, Catalog!Idle
  <2>3. LeftDesk
        BY <1>0, <2>1, <2>2 DEF LeftDesk
  <2> QED BY <1>0, <2>1, <2>3, LeftKeeps DEF CatalogInv
<1>7. CASE Catalog!Tick
      BY <1>0, <1>7 DEF Catalog!Tick, CatalogInv
<1>8. CASE UNCHANGED <<clock, refreshes, refresher>>
      BY <1>8 DEF CatalogInv
<1>9. ASSUME NEW r \in Refreshers, Catalog!BeginScheduled(r) \/ Catalog!BeginJob(r)
      PROVE  CatalogInv'
      BY <1>1, <1>9 DEF Catalog!BeginScheduled, Catalog!BeginJob
<1> QED BY <1>2, <1>3, <1>4, <1>5, <1>6, <1>7, <1>8, <1>9, DeskSteps
        DEF Catalog!Next, Catalog!vars, Catalog!LockExpires, Validates

(* A refresh that a process has in hand still runs, and no other process   *)
(* has it in hand: so nobody ends it twice.                                *)
InHand == \A r \in Refreshers : refresher[r].refresh # 0 =>
    /\ refreshes[refresher[r].refresh].status = "running"
    /\ \A s \in Refreshers : refresher[s].refresh = refresher[r].refresh => s = r

RefreshesStay == \A k \in DOMAIN refreshes : RefreshRule(refreshes[k], refreshes'[k])

LEMMA InHandInitially == Catalog!Init => InHand
BY DEF Catalog!Init, Catalog!Idle, InHand

(* A step that writes no refresh and takes none in hand.                   *)
LEMMA LettingGo ==
    ASSUME InHand, UNCHANGED refreshes,
           \A r \in Refreshers : refresher'[r].refresh \in {refresher[r].refresh, 0}
    PROVE  InHand' /\ RefreshesStay
BY DEF InHand, RefreshesStay, RefreshRule, Final

LEMMA Beginning ==
    ASSUME CatalogInv, InHand, NEW r \in Refreshers, Catalog!BeginRefresh(r)
    PROVE  InHand' /\ RefreshesStay
<1>1. PICK row : row.status = "running" /\ refreshes' = Append(refreshes, row)
      BY DEF Catalog!BeginRefresh
<1>2. /\ Len(refreshes) \in Nat /\ DOMAIN refreshes = 1..Len(refreshes)
      /\ \A s \in Refreshers : refresher[s].refresh \in 0..Len(refreshes)
      BY DEF CatalogInv, Desk
<1>3. /\ Len(refreshes') = Len(refreshes) + 1
      /\ \A k \in 1..Len(refreshes) : refreshes'[k] = refreshes[k]
      /\ refreshes'[Len(refreshes) + 1] = row
      BY <1>1 DEF CatalogInv
<1>4. \A s \in Refreshers : refresher'[s].refresh =
          IF s = r THEN Len(refreshes) + 1 ELSE refresher[s].refresh
      BY <1>3 DEF CatalogInv, Desk, Catalog!BeginRefresh
<1>5. RefreshesStay
      BY <1>2, <1>3 DEF RefreshesStay, RefreshRule, Final
<1>6. ASSUME NEW s \in Refreshers, refresher'[s].refresh # 0
      PROVE  /\ refreshes'[refresher'[s].refresh].status = "running"
             /\ \A z \in Refreshers : refresher'[z].refresh = refresher'[s].refresh => z = s
  <2>1. CASE s = r
        BY <1>1, <1>2, <1>3, <1>4, <2>1
  <2>2. CASE s # r
    <3>1. refresher'[s].refresh = refresher[s].refresh /\ refresher[s].refresh \in 1..Len(refreshes)
          BY <1>2, <1>4, <1>6, <2>2
    <3>2. refreshes'[refresher[s].refresh].status = "running"
          BY <1>3, <1>6, <3>1 DEF InHand
    <3>3. \A z \in Refreshers : refresher[z].refresh = refresher[s].refresh => z = s
          BY <1>6, <3>1 DEF InHand
    <3> QED BY <1>2, <1>4, <3>1, <3>2, <3>3
  <2> QED BY <2>1, <2>2
<1> QED BY <1>5, <1>6 DEF InHand

LEMMA Ending ==
    ASSUME CatalogInv, InHand, NEW r \in Refreshers, refresher[r].refresh # 0,
           NEW row, refreshes' = [refreshes EXCEPT ![refresher[r].refresh] = row],
           NEW left, Catalog!Leave(r, left)
    PROVE  InHand' /\ RefreshesStay
<1>1. /\ DOMAIN refreshes = 1..Len(refreshes) /\ refresher[r].refresh \in DOMAIN refreshes
      /\ refreshes[refresher[r].refresh].status = "running"
      BY DEF CatalogInv, Desk, InHand
<1>2. \A k \in DOMAIN refreshes : k # refresher[r].refresh => refreshes'[k] = refreshes[k]
      OBVIOUS
<1>3. \A s \in Refreshers : refresher'[s].refresh = IF s = r THEN 0 ELSE refresher[s].refresh
      BY DEF CatalogInv, Desk, Catalog!Leave, Catalog!Idle
<1>4. \A s \in Refreshers : refresher[s].refresh # 0 => refresher[s].refresh \in DOMAIN refreshes
      BY DEF CatalogInv, Desk
<1>5. RefreshesStay
      BY <1>1, <1>2 DEF RefreshesStay, RefreshRule, Final
<1>6. InHand'
      BY <1>2, <1>3, <1>4 DEF InHand
<1> QED BY <1>5, <1>6

LEMMA RefreshesEndOnce ==
    ASSUME CatalogInv, InHand, [Catalog!Next]_(Catalog!vars)
    PROVE  InHand' /\ RefreshesStay
<1>1. ASSUME NEW r \in Refreshers, Catalog!BeginScheduled(r) \/ Catalog!BeginJob(r)
      PROVE  InHand' /\ RefreshesStay
  <2>1. UNCHANGED refreshes /\ \E plan : refresher' = [refresher EXCEPT ![r].left = plan]
        BY <1>1 DEF Catalog!BeginScheduled, Catalog!BeginJob
  <2>2. \A s \in Refreshers : refresher'[s].refresh = refresher[s].refresh
        BY <2>1 DEF CatalogInv, Desk
  <2> QED BY <2>1, <2>2, LettingGo
<1>2. ASSUME NEW r \in Refreshers, Catalog!ReceiveList(r)
      PROVE  InHand' /\ RefreshesStay
  <2>1. UNCHANGED refreshes /\ \A s \in Refreshers : refresher'[s].refresh = refresher[s].refresh
        BY <1>2 DEF CatalogInv, Desk, Catalog!ReceiveList
  <2> QED BY <2>1, LettingGo
<1>3. ASSUME NEW r \in Refreshers, Catalog!Die(r)
      PROVE  InHand' /\ RefreshesStay
  <2>1. /\ UNCHANGED refreshes
        /\ \A s \in Refreshers : refresher'[s].refresh \in {refresher[s].refresh, 0}
        BY <1>3 DEF CatalogInv, Catalog!Die, Catalog!Idle
  <2> QED BY <2>1, LettingGo
<1>4. ASSUME NEW r \in Refreshers, Catalog!Store(r) \/ Catalog!FailRefresh(r)
      PROVE  InHand' /\ RefreshesStay
  <2>1. refresher[r].refresh # 0
        BY <1>4 DEF CatalogInv, Catalog!Store, Catalog!FailRefresh
  <2>2. \E row : refreshes' = [refreshes EXCEPT ![refresher[r].refresh] = row]
        BY <1>4 DEF Catalog!Store, Catalog!FailRefresh
  <2>3. \E left : Catalog!Leave(r, left)
        BY <1>4 DEF Catalog!Store, Catalog!FailRefresh
  <2> QED BY <2>1, <2>2, <2>3, Ending
<1>5. CASE UNCHANGED <<refreshes, refresher>>
      BY <1>5, LettingGo
<1> QED BY <1>1, <1>2, <1>3, <1>4, <1>5, Beginning, DeskSteps
        DEF Catalog!Next, Catalog!vars, Catalog!LockExpires, Catalog!Tick, Validates

(* The refreshes of a target are finitely many.                            *)
LEMMA RefreshesOf ==
    ASSUME CatalogInv, NEW t
    PROVE  /\ IsFiniteSet(Catalog!Of(t)) /\ Catalog!Of(t) \in SUBSET Int
           /\ IsFiniteSet(Catalog!Succeeded(t))
           /\ \A k \in Catalog!Of(t) : k \in 1..Len(refreshes) /\ refreshes[k] \in Refresh
           /\ \A k \in Catalog!Of(t) : k \in Nat /\ refreshes[k].completed \in Nat
<1>1. Len(refreshes) \in Nat /\ \A k \in 1..Len(refreshes) : refreshes[k] \in Refresh
      BY DEF CatalogInv
<1>2. Catalog!Of(t) \subseteq 1..Len(refreshes)
      BY DEF CatalogInv, Catalog!Of
<1>3. 1 \in Int /\ Len(refreshes) \in Int
      BY <1>1
<1>4. IsFiniteSet(1..Len(refreshes))
      BY <1>3, FS_Interval
<1>5. IsFiniteSet(Catalog!Of(t))
      BY <1>2, <1>4, FS_Subset
<1>6. Catalog!Succeeded(t) \subseteq Catalog!Of(t)
      BY DEF Catalog!Succeeded
<1>7. IsFiniteSet(Catalog!Succeeded(t))
      BY <1>5, <1>6, FS_Subset
<1>8. \A k \in Catalog!Of(t) : refreshes[k].completed \in Nat
      BY <1>1, <1>2 DEF Refresh
<1> QED BY <1>1, <1>2, <1>5, <1>7, <1>8

(* The refresh whose list counts, and the one begun last, of a target.     *)
LEMMA LatestIs ==
    ASSUME CatalogInv, NEW t, Catalog!Succeeded(t) # {}
    PROVE  /\ Catalog!Latest(t) \in Catalog!Succeeded(t)
           /\ \A j \in Catalog!Succeeded(t) :
                 refreshes[j].completed <= refreshes[Catalog!Latest(t)].completed
<1> DEFINE S == Catalog!Succeeded(t)
           at(j) == refreshes[j].completed
           C == {at(j) : j \in S}
<1>1. /\ IsFiniteSet(S) /\ S \in SUBSET Int /\ S # {}
      /\ \A j \in S : j \in Nat /\ at(j) \in Nat
      BY RefreshesOf DEF Catalog!Succeeded
<1> HIDE DEF S
<1>2. [j \in S |-> at(j)] \in Surjection(S, C)
      BY DEF Surjection
<1>3. IsFiniteSet(C) /\ C \in SUBSET Int /\ C # {}
  <2>1. IsFiniteSet(C)
        BY <1>1, <1>2, FS_Surjection
  <2>2. ASSUME NEW d \in C
        PROVE  d \in Int
    <3>1. PICK j \in S : d = at(j)
          OBVIOUS
    <3>2. at(j) \in Nat
          BY <1>1
    <3> HIDE DEF at
    <3> QED BY <3>1, <3>2
  <2>3. C # {}
        BY <1>1
  <2> QED BY <2>1, <2>2, <2>3
<1>4. PICK c \in C : \A d \in C : c >= d
      BY <1>3, LargestExists
<1> DEFINE M == {j \in S : at(j) = c}
<1>5. IsFiniteSet(M) /\ M \in SUBSET Int /\ M # {}
  <2>1. M \in SUBSET S /\ M # {}
        BY <1>4
  <2>2. IsFiniteSet(M)
        BY <1>1, <2>1, FS_Subset
  <2> QED BY <1>1, <2>1, <2>2
<1>6. PICK k \in M : \A j \in M : k >= j
      BY <1>5, LargestExists
<1>7. k \in S /\ \A j \in S : at(j) < at(k) \/ (at(j) = at(k) /\ j <= k)
  <2>1. k \in S /\ at(k) = c /\ at(k) \in Nat /\ k \in Nat
        BY <1>1, <1>6
  <2>2. ASSUME NEW j \in S
        PROVE  at(j) < at(k) \/ (at(j) = at(k) /\ j <= k)
    <3>1. at(j) \in Nat /\ j \in Nat /\ c >= at(j)
          BY <1>1, <1>4
    <3>2. CASE at(j) = c
          BY <1>6, <2>1, <3>1, <3>2
    <3>3. CASE at(j) # c
          BY <2>1, <3>1, <3>3
    <3> QED BY <3>2, <3>3
  <2> QED BY <2>1, <2>2
<1>8. LET l == Catalog!Latest(t)
      IN  l \in S /\ \A j \in S : at(j) < at(l) \/ (at(j) = at(l) /\ j <= l)
      BY <1>7 DEF Catalog!Latest, Catalog!Newest, S
<1> QED BY <1>1, <1>8 DEF S

LEMMA AttemptIs ==
    ASSUME CatalogInv, NEW t, Catalog!Of(t) # {}
    PROVE  /\ Catalog!Newest(Catalog!Of(t), LAMBDA k : k) \in Catalog!Of(t)
           /\ \A j \in Catalog!Of(t) : j <= Catalog!Newest(Catalog!Of(t), LAMBDA k : k)
<1> DEFINE S == Catalog!Of(t)
<1>1. \A j \in S : j \in Nat
      BY RefreshesOf
<1>2. IsFiniteSet(S) /\ S \in SUBSET Int
      BY RefreshesOf
<1>3. PICK k \in S : \A j \in S : k >= j
      BY <1>2, LargestExists
<1>4. \A j \in S : j < k \/ (j = k /\ j <= k)
      BY <1>1, <1>3
<1>5. LET l == Catalog!Newest(S, LAMBDA i : i)
      IN  l \in S /\ \A j \in S : j < l \/ (j = l /\ j <= l)
      BY <1>4 DEF Catalog!Newest
<1> QED BY <1>1, <1>5

(* Refreshes are added, keep their target and their beginning, and stay as *)
(* they are once they are over.                                            *)
Recorded ==
    /\ Len(refreshes') >= Len(refreshes) /\ clock' \in {clock, clock + 1}
    /\ \A k \in 1..Len(refreshes) :
           /\ refreshes'[k].target = refreshes[k].target
           /\ refreshes[k].status # "running" => refreshes'[k] = refreshes[k]

LEMMA RefreshesRecorded ==
    ASSUME CatalogInv, InHand, [Catalog!Next]_(Catalog!vars)
    PROVE  Recorded
<1>0. /\ clock \in Nat /\ refreshes \in Seq(Refresh) /\ Len(refreshes) \in Nat
      /\ DOMAIN refreshes = 1..Len(refreshes)
      /\ \A k \in 1..Len(refreshes) : refreshes[k] \in Refresh
      BY DEF CatalogInv
<1>1. \A k \in 1..Len(refreshes) : refreshes[k].status # "running" => refreshes'[k] = refreshes[k]
      BY <1>0, RefreshesEndOnce DEF RefreshesStay, RefreshRule, Final, Refresh
<1>2. ASSUME NEW r \in Refreshers, Catalog!BeginRefresh(r)
      PROVE  Recorded
  <2>1. PICK row : refreshes' = Append(refreshes, row) /\ clock' = clock
        BY <1>2 DEF Catalog!BeginRefresh
  <2> QED BY <1>0, <2>1 DEF Recorded
<1>3. ASSUME NEW r \in Refreshers, Catalog!Store(r) \/ Catalog!FailRefresh(r)
      PROVE  Recorded
  <2> DEFINE n == refresher[r].refresh
  <2>1. n \in 1..Len(refreshes)
    <3>1. n # 0
          BY <1>3 DEF CatalogInv, Catalog!Store, Catalog!FailRefresh
    <3> QED BY <3>1 DEF CatalogInv, Desk
  <2>2. PICK row : /\ refreshes' = [refreshes EXCEPT ![n] = row] /\ clock' = clock
                   /\ row.target = refreshes[n].target
    <3>1. refreshes[n] \in Refresh
          BY <1>0, <2>1
    <3>2. CASE Catalog!Store(r)
      <4> DEFINE row == [refreshes[n] EXCEPT !.status = "succeeded", !.completed = Catalog!Completed(r),
                             !.rows = refresher[r].got, !.listed = refresher[r].since - 1]
      <4>1. row.target = refreshes[n].target
            BY <3>1 DEF Refresh
      <4>2. refreshes' = [refreshes EXCEPT ![n] = row] /\ clock' = clock
            BY <3>2 DEF Catalog!Store
      <4> QED BY <4>1, <4>2
    <3>3. CASE Catalog!FailRefresh(r)
      <4> DEFINE row == [refreshes[n] EXCEPT !.status = "failed", !.completed = clock]
      <4>1. row.target = refreshes[n].target
            BY <3>1 DEF Refresh
      <4>2. refreshes' = [refreshes EXCEPT ![n] = row] /\ clock' = clock
            BY <3>3 DEF Catalog!FailRefresh
      <4> QED BY <4>1, <4>2
    <3> QED BY <1>3, <3>2, <3>3
  <2> HIDE DEF n
  <2>3. Len(refreshes') = Len(refreshes)
        BY <1>0, <2>2
  <2>4. \A k \in 1..Len(refreshes) : refreshes'[k].target = refreshes[k].target
        BY <1>0, <2>1, <2>2
  <2> QED BY <1>0, <1>1, <2>2, <2>3, <2>4 DEF Recorded
<1>4. CASE UNCHANGED refreshes /\ clock' \in {clock, clock + 1}
      BY <1>0, <1>4 DEF Recorded
<1>5. ASSUME NEW r \in Refreshers,
             \/ Catalog!BeginScheduled(r) \/ Catalog!BeginJob(r) \/ Catalog!ReceiveList(r)
             \/ Catalog!Die(r)
      PROVE  Recorded
      BY <1>4, <1>5 DEF Catalog!BeginScheduled, Catalog!BeginJob, Catalog!ReceiveList, Catalog!Die
<1> QED BY <1>2, <1>3, <1>4, <1>5, DeskSteps
        DEF Catalog!Next, Catalog!vars, Catalog!LockExpires, Catalog!Tick, Validates

(* What a validation has found, and what it has judged.                    *)
NoneNewer(t, u, known) ==
    /\ u \in Catalog!Succeeded(t)
    /\ \A k \in Catalog!Succeeded(t) \cap known : refreshes[k].listed <= refreshes[u].listed

FollowedUp(t, u, known) ==
    \A k \in Catalog!Of(t) \cap known :
        refreshes[k].status = "failed" /\ refreshes[k].started >= refreshes[u].started
            => \E j \in Catalog!Of(t) : j > k

UpToDate(t, u, began, known) ==
    began - refreshes[u].listed <= StaleAfter /\ FollowedUp(t, u, known)

NewestRead(t) ==
    validation.used[t] # 0 => NoneNewer(t, validation.used[t], validation.known)

RightlyJudged(t) ==
    t \in validation.judged => validation.acknowledged \/
        UpToDate(t, validation.used[t], validation.began, validation.known)

Validation ==
    [open : BOOLEAN, acknowledged : BOOLEAN, used : [Catalog!Targets -> Nat],
     judged : SUBSET Catalog!Targets, began : Nat, known : SUBSET Nat]

Reading ==
    /\ validation.began <= clock
    /\ validation.known \subseteq 1..Len(refreshes)
    /\ \A k \in validation.known : refreshes[k].status # "running"
    /\ validation.judged \subseteq Catalog!Found
    /\ \A t \in Catalog!Targets : NewestRead(t) /\ RightlyJudged(t)

ReadInv == validation \in Validation /\ (validation.open => Reading)

(* What was read stays what it was while refreshes go on.                  *)
LEMMA ReadingStays ==
    ASSUME CatalogInv, Recorded, ReadInv, UNCHANGED validation
    PROVE  ReadInv'
<1> SUFFICES ASSUME validation.open, Reading PROVE Reading'
    BY DEF ReadInv
<1> DEFINE known == validation.known
           used(t) == validation.used[t]
<1>0. /\ clock \in Nat /\ clock' \in {clock, clock + 1} /\ Len(refreshes) \in Nat
      /\ refreshes \in Seq(Refresh) /\ DOMAIN refreshes = 1..Len(refreshes)
      BY DEF CatalogInv, Recorded
<1>1. /\ validation.began \in Nat /\ validation.began <= clock
      /\ known \subseteq 1..Len(refreshes)
      /\ \A k \in known : refreshes[k].status # "running"
      BY DEF Reading, ReadInv, Validation
<1>2. /\ known \subseteq 1..Len(refreshes')
      /\ \A k \in known : k \in DOMAIN refreshes /\ refreshes'[k] = refreshes[k]
      BY <1>0, <1>1 DEF Recorded
<1> HIDE DEF known
<1>3. validation.began <= clock'
      BY <1>0, <1>1
<1>4. ASSUME NEW t \in Catalog!Targets
      PROVE  /\ Catalog!Of(t) \subseteq Catalog!Of(t)'
             /\ Catalog!Succeeded(t) \subseteq Catalog!Succeeded(t)'
             /\ Catalog!Of(t)' \cap known = Catalog!Of(t) \cap known
             /\ Catalog!Succeeded(t)' \cap known = Catalog!Succeeded(t) \cap known
             /\ \A k \in Catalog!Succeeded(t) : refreshes'[k] = refreshes[k]
  <2>1. DOMAIN refreshes \subseteq DOMAIN refreshes'
        BY <1>0 DEF Recorded
  <2>2. \A k \in DOMAIN refreshes : refreshes'[k].target = refreshes[k].target
        BY <1>0 DEF Recorded
  <2>3. Catalog!Of(t) \subseteq Catalog!Of(t)'
        BY <2>1, <2>2 DEF Catalog!Of
  <2>4. \A k \in Catalog!Succeeded(t) : refreshes'[k] = refreshes[k]
        BY <1>0 DEF Recorded, Catalog!Succeeded, Catalog!Of
  <2>5. Catalog!Succeeded(t) \subseteq Catalog!Succeeded(t)'
        BY <2>3, <2>4 DEF Catalog!Succeeded
  <2>6. Catalog!Of(t)' \cap known = Catalog!Of(t) \cap known
        BY <1>2, <2>1 DEF Catalog!Of
  <2>7. Catalog!Succeeded(t)' \cap known = Catalog!Succeeded(t) \cap known
        BY <1>2, <2>6 DEF Catalog!Succeeded
  <2> QED BY <2>3, <2>4, <2>5, <2>6, <2>7
<1>5. ASSUME NEW t \in Catalog!Targets, used(t) # 0
      PROVE  NoneNewer(t, used(t), known)'
  <2>1. NoneNewer(t, used(t), known)
        BY <1>5 DEF Reading, NewestRead, known
  <2>2. used(t)' = used(t) /\ known' = known
        BY DEF known
  <2> HIDE DEF used
  <2> QED BY <1>2, <1>4, <2>1, <2>2 DEF NoneNewer
<1>6. ASSUME NEW t \in Catalog!Targets, used(t) # 0,
             UpToDate(t, used(t), validation.began, known)
      PROVE  UpToDate(t, used(t), validation.began, known)'
  <2>1. NoneNewer(t, used(t), known)
        BY <1>6 DEF Reading, NewestRead, known
  <2>2. used(t)' = used(t) /\ known' = known /\ validation.began' = validation.began
        BY DEF known
  <2> HIDE DEF used
  <2>3. refreshes'[used(t)] = refreshes[used(t)]
        BY <1>4, <2>1 DEF NoneNewer
  <2> QED BY <1>2, <1>4, <1>6, <2>2, <2>3 DEF UpToDate, FollowedUp
<1>7. \A t \in validation.judged : t \in Catalog!Targets /\ used(t) # 0
      BY DEF Reading, Catalog!Found
<1>8. validation' = validation /\ Catalog!Found' = Catalog!Found
      BY DEF Catalog!Found
<1>9. ASSUME NEW t \in Catalog!Targets
      PROVE  NewestRead(t)' /\ RightlyJudged(t)'
  <2>1. NewestRead(t)'
        BY <1>5, <1>8 DEF NewestRead, known
  <2>2. RightlyJudged(t)'
    <3>1. RightlyJudged(t)
          BY DEF Reading
    <3> QED BY <1>6, <1>7, <1>8, <3>1 DEF RightlyJudged, known
  <2> QED BY <2>1, <2>2
<1> QED BY <1>1, <1>2, <1>3, <1>8, <1>9 DEF Reading, known

LEMMA FoundNewest ==
    ASSUME CatalogInv, NEW t, ~Catalog!Missing(t), NEW known
    PROVE  NoneNewer(t, Catalog!Latest(t), known) /\ Catalog!Latest(t) \in Nat \ {0}
<1>1. /\ Catalog!Latest(t) \in Catalog!Succeeded(t)
      /\ \A j \in Catalog!Succeeded(t) :
            refreshes[j].completed <= refreshes[Catalog!Latest(t)].completed
      BY LatestIs DEF Catalog!Missing
<1>2. \A j \in Catalog!Succeeded(t) :
          j \in 1..Len(refreshes) /\ refreshes[j].completed = refreshes[j].listed
      BY DEF CatalogInv, Catalog!Succeeded, Catalog!Of
<1>3. Catalog!Latest(t) \in Nat \ {0}
  <2>1. Catalog!Latest(t) \in 1..Len(refreshes) /\ Len(refreshes) \in Nat
        BY <1>1, <1>2 DEF CatalogInv
  <2> QED BY <2>1
<1> QED BY <1>1, <1>2, <1>3 DEF NoneNewer

LEMMA NotStaleIs ==
    ASSUME Catalog!CatalogAssumption, CatalogInv, NEW t, NEW u \in Catalog!Succeeded(t),
           ~Catalog!Stale(t, refreshes[u]), NEW began \in Nat, began <= clock, NEW known
    PROVE  UpToDate(t, u, began, known)
<1> DEFINE a == Catalog!Newest(Catalog!Of(t), LAMBDA k : k)
<1>1. u \in Catalog!Of(t) /\ refreshes[u].completed = refreshes[u].listed
      /\ refreshes[u].completed \in Nat
      BY RefreshesOf DEF CatalogInv, Catalog!Succeeded, Catalog!Of
<1>2. a \in Catalog!Of(t) /\ \A j \in Catalog!Of(t) : j <= a
      BY <1>1, AttemptIs
<1>3. clock \in Nat /\ StaleAfter \in Nat
      BY DEF CatalogInv, Catalog!CatalogAssumption
<1>4. ~(clock - refreshes[u].completed > StaleAfter)
      BY DEF Catalog!Stale
<1>5. ~(refreshes[a].status = "failed" /\ refreshes[a].started >= refreshes[u].started)
      BY DEF Catalog!Stale
<1> HIDE DEF a
<1>6. began - refreshes[u].listed <= StaleAfter
      BY <1>1, <1>3, <1>4
<1>7. ASSUME NEW k \in Catalog!Of(t),
             refreshes[k].status = "failed", refreshes[k].started >= refreshes[u].started
      PROVE  \E j \in Catalog!Of(t) : j > k
  <2>1. a # k
        BY <1>5, <1>7
  <2>2. a \in Nat /\ k \in Nat
        BY <1>2, RefreshesOf
  <2> QED BY <1>2, <2>1, <2>2
<1> QED BY <1>6, <1>7 DEF UpToDate, FollowedUp

LEMMA ReadingGoesOn ==
    ASSUME Catalog!CatalogAssumption, CatalogInv, ReadInv, Validates
    PROVE  ReadInv'
<1>0. /\ UNCHANGED <<clock, refreshes, refresher>> /\ validation \in Validation
      /\ clock \in Nat /\ Len(refreshes) \in Nat /\ DOMAIN refreshes = 1..Len(refreshes)
      BY DeskSteps DEF ReadInv, CatalogInv
<1>1. Catalog!NoValidation \in Validation /\ ~Catalog!NoValidation.open
      BY DEF Catalog!NoValidation, Validation
<1>2. CASE validation' = Catalog!NoValidation
      BY <1>1, <1>2 DEF ReadInv
<1>3. ASSUME NEW acknowledged \in BOOLEAN, Catalog!BeginValidation(acknowledged)
      PROVE  ReadInv'
  <2> DEFINE u == Catalog!Latest("models")
             over == Catalog!Over
  <2>1. NoneNewer("models", u, over) /\ u \in Nat \ {0}
        BY <1>3, FoundNewest DEF Catalog!BeginValidation
  <2>2. "models" \in Catalog!Targets /\ over \subseteq 1..Len(refreshes)
        /\ \A k \in over : refreshes[k].status # "running"
        BY <1>0 DEF Catalog!Targets, Catalog!Over
  <2>3. validation' = [Catalog!NoValidation EXCEPT !.open = TRUE, !.acknowledged = acknowledged,
                           !.used["models"] = u, !.began = clock, !.known = over]
        BY <1>3 DEF Catalog!BeginValidation
  <2> HIDE DEF u, over
  <2>4. validation' = [open |-> TRUE, acknowledged |-> acknowledged,
                       used |-> [t \in Catalog!Targets |-> IF t = "models" THEN u ELSE 0],
                       judged |-> {}, began |-> clock, known |-> over]
        BY <2>2, <2>3 DEF Catalog!NoValidation
  <2>5. validation' \in Validation
    <3>1. over \subseteq Nat
          BY <1>0, <2>2
    <3> QED BY <1>0, <2>1, <2>4, <3>1 DEF Validation
  <2>6. \A t \in Catalog!Targets : validation'.used[t] = IF t = "models" THEN u ELSE 0
        BY <2>4
  <2>7. /\ validation'.judged = {} /\ validation'.began = clock /\ validation'.known = over
        BY <2>4
  <2>8. ASSUME NEW t \in Catalog!Targets
        PROVE  NewestRead(t)' /\ RightlyJudged(t)'
    <3>1. Catalog!Succeeded(t)' = Catalog!Succeeded(t)
          BY <1>0 DEF Catalog!Succeeded, Catalog!Of
    <3>2. CASE t = "models"
          BY <1>0, <2>1, <2>6, <2>7, <3>1, <3>2 DEF NewestRead, RightlyJudged, NoneNewer
    <3>3. CASE t # "models"
          BY <2>6, <2>7, <3>3 DEF NewestRead, RightlyJudged
    <3> QED BY <3>2, <3>3
  <2>9. Reading'
    <3>1. clock' = clock /\ refreshes' = refreshes /\ clock <= clock
          BY <1>0
    <3> QED BY <2>2, <2>7, <2>8, <3>1 DEF Reading
  <2> QED BY <2>5, <2>9 DEF ReadInv
<1>4. ASSUME NEW m \in Models, Catalog!FindEndpoints(m)
      PROVE  ReadInv'
  <2> DEFINE u == Catalog!Latest(m)
  <2>0. /\ validation.open /\ Reading /\ m \in Catalog!Targets
        /\ validation.used[m] = 0 /\ m \notin validation.judged
        /\ validation' = [validation EXCEPT !.used[m] = u]
        BY <1>4 DEF ReadInv, Catalog!FindEndpoints, Catalog!Found, Catalog!Targets
  <2>1. NoneNewer(m, u, validation.known) /\ u \in Nat \ {0}
        BY <1>4, FoundNewest DEF Catalog!FindEndpoints
  <2> HIDE DEF u
  <2>2. /\ validation' \in Validation /\ validation'.open
        /\ \A t \in Catalog!Targets : validation'.used[t] = IF t = m THEN u ELSE validation.used[t]
        /\ validation'.judged = validation.judged /\ validation'.known = validation.known
        /\ validation'.began = validation.began
        /\ validation'.acknowledged = validation.acknowledged
        BY <1>0, <2>0, <2>1 DEF Validation
  <2>3. \A t \in Catalog!Targets :
            /\ Catalog!Succeeded(t)' = Catalog!Succeeded(t) /\ Catalog!Of(t)' = Catalog!Of(t)
        BY <1>0 DEF Catalog!Succeeded, Catalog!Of
  <2>4. ASSUME NEW t \in Catalog!Targets
        PROVE  NewestRead(t)' /\ RightlyJudged(t)'
    <3>1. CASE t = m
          BY <1>0, <2>0, <2>1, <2>2, <2>3, <3>1 DEF NoneNewer, NewestRead, RightlyJudged
    <3>2. CASE t # m
      <4>1. NewestRead(t) /\ RightlyJudged(t)
            BY <2>0 DEF Reading
      <4> QED BY <1>0, <2>2, <2>3, <3>2, <4>1
          DEF NoneNewer, UpToDate, FollowedUp, NewestRead, RightlyJudged
    <3> QED BY <3>1, <3>2
  <2>5. validation.judged \subseteq Catalog!Found'
        BY <2>0, <2>1, <2>2 DEF Reading, Catalog!Found
  <2>6. Reading'
        BY <1>0, <2>0, <2>2, <2>4, <2>5 DEF Reading
  <2> QED BY <2>2, <2>6 DEF ReadInv
<1>5. ASSUME NEW t \in Catalog!Targets, Catalog!Judge(t)
      PROVE  ReadInv'
  <2>0. /\ validation.open /\ Reading /\ t \in Catalog!Found
        /\ validation' = [validation EXCEPT !.judged = @ \cup {t}]
        /\ validation.acknowledged \/ ~Catalog!Stale(t, refreshes[validation.used[t]])
        BY <1>5 DEF ReadInv, Catalog!Judge, Catalog!Used
  <2>1. /\ validation' \in Validation /\ validation'.open
        /\ validation'.used = validation.used /\ validation'.known = validation.known
        /\ validation'.judged = validation.judged \cup {t}
        /\ validation'.began = validation.began
        /\ validation'.acknowledged = validation.acknowledged
        BY <1>0, <2>0 DEF Validation
  <2>2. validation.used[t] \in Catalog!Succeeded(t) /\ validation.began <= clock
        /\ validation.began \in Nat
        BY <1>0, <2>0 DEF Reading, NewestRead, Catalog!Found, NoneNewer, Validation
  <2>3. validation.acknowledged \/
            UpToDate(t, validation.used[t], validation.began, validation.known)
        BY <2>0, <2>2, NotStaleIs
  <2>4. ASSUME NEW s \in Catalog!Targets
        PROVE  /\ NewestRead(s)
               /\ s \in validation'.judged => validation.acknowledged \/
                      UpToDate(s, validation.used[s], validation.began, validation.known)
        BY <2>0, <2>1, <2>3 DEF Reading, RightlyJudged
  <2>5. \A s \in Catalog!Targets :
            /\ Catalog!Succeeded(s)' = Catalog!Succeeded(s) /\ Catalog!Of(s)' = Catalog!Of(s)
        BY <1>0 DEF Catalog!Succeeded, Catalog!Of
  <2>6. ASSUME NEW s \in Catalog!Targets
        PROVE  NewestRead(s)' /\ RightlyJudged(s)'
        BY <1>0, <2>1, <2>4, <2>5
        DEF NoneNewer, UpToDate, FollowedUp, NewestRead, RightlyJudged
  <2>7. Catalog!Found' = Catalog!Found /\ validation'.judged \subseteq Catalog!Found
        BY <2>0, <2>1 DEF Reading, Catalog!Found
  <2>8. Reading'
        BY <1>0, <2>0, <2>1, <2>6, <2>7 DEF Reading
  <2> QED BY <2>1, <2>8 DEF ReadInv
<1> QED BY <1>2, <1>3, <1>4, <1>5 DEF Validates, Catalog!PublishPolicy, Catalog!Refuse

LEMMA ReadInvKept ==
    ASSUME Catalog!CatalogAssumption, CatalogInv, InHand, ReadInv, [Catalog!Next]_(Catalog!vars)
    PROVE  ReadInv'
<1>1. CASE Validates
      BY <1>1, ReadingGoesOn
<1>2. CASE UNCHANGED validation
      BY <1>2, RefreshesRecorded, ReadingStays
<1> QED BY <1>1, <1>2
        DEF Catalog!Next, Catalog!vars, Catalog!publication, Validates, Catalog!BeginScheduled,
            Catalog!BeginJob, Catalog!BeginRefresh, Catalog!ReceiveList, Catalog!Store,
            Catalog!FailRefresh, Catalog!Die, Catalog!LockExpires, Catalog!Tick

(* However refreshes overlap, fail and die while a policy is validated     *)
(* list by list: of what was over when the validation began, no list it    *)
(* uses had been replaced by a newer one; unless staleness was             *)
(* acknowledged, its lists were no older than the limit then, and no       *)
(* failure after them went without another attempt (validate_model_policy, *)
(* publish_model_policy, _latest_refresh, _status_metadata).               *)
THEOREM PoliciesOnTheNewest ==
    Catalog!CatalogAssumption => (Catalog!Spec => Catalog!ValidatedByNewest)
<1> SUFFICES ASSUME Catalog!CatalogAssumption
             PROVE  Catalog!Spec => Catalog!ValidatedByNewest
    OBVIOUS
<1> DEFINE Good == policy'.status # policy.status =>
        \A t \in Catalog!Targets :
            /\ \A k \in Catalog!Succeeded(t) \cap validation.known :
                   refreshes[k].listed <= Catalog!Used(t).listed
            /\ policy'.acknowledged \/
                 /\ validation.began - Catalog!Used(t).listed <= StaleAfter
                 /\ \A k \in Catalog!Of(t) \cap validation.known :
                        refreshes[k].status = "failed"
                        /\ refreshes[k].started >= Catalog!Used(t).started
                            => \E j \in Catalog!Of(t) : j > k
           Inv == CatalogInv /\ InHand /\ ReadInv
<1>1. Catalog!Init => Inv
  <2>1. Catalog!Init => ReadInv
        BY DEF Catalog!Init, Catalog!NoValidation, ReadInv, Validation
  <2> QED BY <2>1, CatalogInitially, InHandInitially
<1>2. Inv /\ [Catalog!Next]_(Catalog!vars) => Inv'
      BY CatalogKept, RefreshesEndOnce, ReadInvKept
<1>3. Inv /\ [Catalog!Next]_(Catalog!vars) => [Good]_(Catalog!vars)
  <2> SUFFICES ASSUME Inv, Catalog!Next, policy'.status # policy.status
               PROVE  Good
      OBVIOUS
  <2>1. Catalog!PublishPolicy
        BY DEF Catalog!Next, Catalog!publication, Catalog!BeginScheduled, Catalog!BeginJob,
               Catalog!BeginRefresh, Catalog!ReceiveList, Catalog!Store, Catalog!FailRefresh,
               Catalog!Die, Catalog!LockExpires, Catalog!Tick, Catalog!BeginValidation,
               Catalog!FindEndpoints, Catalog!Judge, Catalog!Refuse
  <2>2. /\ validation.open /\ Reading /\ validation.judged = Catalog!Targets
        /\ policy'.acknowledged = validation.acknowledged
        BY <2>1 DEF Catalog!PublishPolicy, ReadInv
  <2>3. ASSUME NEW t \in Catalog!Targets
        PROVE  /\ NoneNewer(t, validation.used[t], validation.known)
               /\ validation.acknowledged \/
                      UpToDate(t, validation.used[t], validation.began, validation.known)
        BY <2>2 DEF Reading, NewestRead, RightlyJudged, Catalog!Found
  <2> QED BY <2>2, <2>3 DEF NoneNewer, UpToDate, FollowedUp, Catalog!Used
<1> HIDE DEF Inv
<1> QED BY <1>1, <1>2, <1>3, PTL DEF Catalog!Spec, Catalog!ValidatedByNewest

-----------------------------------------------------------------------------
(* The report: for any sources, claims and findings, and any answers of    *)
(* the models.  First, what a selection from a sequence is.                *)

(* The recursion of Select up to n has a solution.                         *)
Chooses(c, s, S, n) ==
    c = [k \in 0..n |->
            IF k = 0 THEN <<>>
            ELSE IF s[k] \in S THEN Append(c[k - 1], s[k]) ELSE c[k - 1]]

LEMMA ChoiceExists ==
    ASSUME NEW T, NEW s \in Seq(T), NEW S
    PROVE  \E c : Chooses(c, s, S, Len(s))
<1> DEFINE G == {n \in Nat : \E c : Chooses(c, s, S, n)}
<1>1. 0 \in G
  <2> DEFINE c == [k \in 0..0 |-> <<>>]
  <2>1. c = [k \in 0..0 |-> IF k = 0 THEN <<>>
                            ELSE IF s[k] \in S THEN Append(c[k - 1], s[k]) ELSE c[k - 1]]
        OBVIOUS
  <2> HIDE DEF c
  <2>2. Chooses(c, s, S, 0)
        BY <2>1 DEF Chooses
  <2> QED BY <2>2
<1>2. ASSUME NEW n \in Nat, n \in G
      PROVE  n + 1 \in G
  <2>1. PICK c : Chooses(c, s, S, n)
        BY <1>2
  <2>2. c = [k \in 0..n |-> IF k = 0 THEN <<>>
                            ELSE IF s[k] \in S THEN Append(c[k - 1], s[k]) ELSE c[k - 1]]
        BY <2>1 DEF Chooses
  <2> DEFINE d == [k \in 0..(n + 1) |->
                      IF k = 0 THEN <<>>
                      ELSE IF s[k] \in S THEN Append(c[k - 1], s[k]) ELSE c[k - 1]]
  <2>. HIDE DEF d
  <2>3. /\ d = [k \in 0..(n + 1) |->
                   IF k = 0 THEN <<>>
                   ELSE IF s[k] \in S THEN Append(c[k - 1], s[k]) ELSE c[k - 1]]
        /\ \A k \in 0..n : d[k] = c[k]
    <3>1. d = [k \in 0..(n + 1) |->
                   IF k = 0 THEN <<>>
                   ELSE IF s[k] \in S THEN Append(c[k - 1], s[k]) ELSE c[k - 1]]
          BY DEF d
    <3>2. \A k \in 0..n : k \in 0..(n + 1)
          OBVIOUS
    <3> QED BY <2>2, <3>1, <3>2
  <2>4. \A k \in 0..(n + 1) : k # 0 => k - 1 \in 0..n /\ d[k - 1] = c[k - 1]
    <3>1. \A k \in 0..(n + 1) : k # 0 => k - 1 \in 0..n
          OBVIOUS
    <3>2. \A k \in 0..n : d[k] = c[k]
          BY <2>3
    <3> QED BY <3>1, <3>2
  <2>5. d = [k \in 0..(n + 1) |->
                IF k = 0 THEN <<>>
                ELSE IF s[k] \in S THEN Append(d[k - 1], s[k]) ELSE d[k - 1]]
        BY <2>3, <2>4
  <2>6. Chooses(d, s, S, n + 1)
        BY <2>5 DEF Chooses
  <2> QED BY <2>6
<1>3. Len(s) \in Nat
      OBVIOUS
<1>4. Len(s) \in G
  <2> HIDE DEF G
  <2> QED BY <1>1, <1>2, <1>3, Climb
<1> QED BY <1>4

(* at says where the elements of r come from.                              *)
Chosen(r, at, s, S, n) ==
    /\ Len(r) \in Nat
    /\ at \in [1..Len(r) -> 1..n]
    /\ \A i \in 1..Len(r) : r[i] = s[at[i]] /\ s[at[i]] \in S
    /\ \A i, j \in 1..Len(r) : i < j => at[i] < at[j]
    /\ \A k \in 1..n : s[k] \in S => \E i \in 1..Len(r) : at[i] = k

(* Select keeps the elements that are in the set, once each and in order.  *)
LEMMA SelectIs ==
    ASSUME NEW T, NEW s \in Seq(T), NEW S
    PROVE  /\ Select(s, S) \in Seq(T)
           /\ \E at : Chosen(Select(s, S), at, s, S, Len(s))
<1>1. PICK c : Chooses(c, s, S, Len(s)) /\ Select(s, S) = c[Len(s)]
  <2> DEFINE c == CHOOSE c : Chooses(c, s, S, Len(s))
  <2>1. Chooses(c, s, S, Len(s))
        BY ChoiceExists
  <2>2. Select(s, S) = c[Len(s)]
        BY DEF Select, Chooses
  <2> QED BY <2>1, <2>2
<1>2. /\ c[0] = <<>>
      /\ \A k \in 1..Len(s) :
            c[k] = IF s[k] \in S THEN Append(c[k - 1], s[k]) ELSE c[k - 1]
      /\ Len(s) \in Nat
  <2>1. \A k \in 0..Len(s) :
            c[k] = IF k = 0 THEN <<>>
                   ELSE IF s[k] \in S THEN Append(c[k - 1], s[k]) ELSE c[k - 1]
        BY <1>1 DEF Chooses
  <2> QED BY <2>1
<1> DEFINE G == {n \in Nat : n <= Len(s) =>
                    c[n] \in Seq(T) /\ \E at : Chosen(c[n], at, s, S, n)}
<1>3. 0 \in G
  <2>1. <<>> \in Seq(T) /\ Chosen(<<>>, [i \in 1..0 |-> i], s, S, 0)
        BY DEF Chosen
  <2> QED BY <1>2, <2>1
<1>4. ASSUME NEW n \in Nat, n \in G
      PROVE  n + 1 \in G
  <2> SUFFICES ASSUME n + 1 <= Len(s)
               PROVE  c[n + 1] \in Seq(T) /\ \E at : Chosen(c[n + 1], at, s, S, n + 1)
      OBVIOUS
  <2>1. PICK at : c[n] \in Seq(T) /\ Chosen(c[n], at, s, S, n)
        BY <1>2, <1>4
  <2>2. /\ n + 1 \in 1..Len(s) /\ (n + 1) - 1 = n /\ s[n + 1] \in T
        /\ c[n + 1] = IF s[n + 1] \in S THEN Append(c[n], s[n + 1]) ELSE c[n]
        BY <1>2
  <2>3. CASE s[n + 1] \notin S
    <3>1. Chosen(c[n], at, s, S, n + 1)
          BY <2>1, <2>3 DEF Chosen
    <3> QED BY <2>1, <2>2, <2>3, <3>1
  <2>4. CASE s[n + 1] \in S
    <3> DEFINE m == Len(c[n])
               r == Append(c[n], s[n + 1])
               to == [i \in 1..(m + 1) |-> IF i = m + 1 THEN n + 1 ELSE at[i]]
    <3>1. /\ r \in Seq(T) /\ Len(r) = m + 1 /\ m \in Nat
          /\ \A i \in 1..m : r[i] = c[n][i]
          /\ r[m + 1] = s[n + 1]
          BY <2>1, <2>2
    <3>2. /\ at \in [1..m -> 1..n]
          /\ \A i \in 1..m : c[n][i] = s[at[i]] /\ s[at[i]] \in S
          /\ \A i, j \in 1..m : i < j => at[i] < at[j]
          /\ \A k \in 1..n : s[k] \in S => \E i \in 1..m : at[i] = k
          BY <2>1 DEF Chosen
    <3> HIDE DEF m, r
    <3>3. to \in [1..(m + 1) -> 1..(n + 1)]
          BY <3>1, <3>2
    <3>4. \A i \in 1..(m + 1) : r[i] = s[to[i]] /\ s[to[i]] \in S
          BY <2>4, <3>1, <3>2
    <3>5. \A i, j \in 1..(m + 1) : i < j => to[i] < to[j]
          BY <3>1, <3>2
    <3>6. ASSUME NEW k \in 1..(n + 1), s[k] \in S
          PROVE  \E i \in 1..(m + 1) : to[i] = k
      <4>1. CASE k = n + 1
            BY <3>1, <4>1
      <4>2. CASE k # n + 1
        <5>1. PICK i \in 1..m : at[i] = k
              BY <3>2, <3>6, <4>2
        <5> QED BY <3>1, <5>1
      <4> QED BY <4>1, <4>2
    <3> HIDE DEF to
    <3>7. Chosen(r, to, s, S, n + 1)
          BY <3>1, <3>3, <3>4, <3>5, <3>6 DEF Chosen
    <3> QED BY <2>2, <2>4, <3>1, <3>7 DEF r
  <2> QED BY <2>3, <2>4
<1>5. Len(s) \in G
  <2> HIDE DEF G
  <2> QED BY <1>2, <1>3, <1>4, Climb
<1> QED BY <1>1, <1>2, <1>5

(* What follows for the elements.                                          *)
LEMMA SelectKeeps ==
    ASSUME NEW T, NEW s \in Seq(T), NEW S
    PROVE  LET r == Select(s, S) IN
           /\ r \in Seq(T)
           /\ \A i \in 1..Len(r) : r[i] \in S /\ \E k \in 1..Len(s) : r[i] = s[k]
           /\ \A k \in 1..Len(s) : s[k] \in S => \E i \in 1..Len(r) : r[i] = s[k]
           /\ (\A k, l \in 1..Len(s) : s[k] = s[l] => k = l) =>
                  \A i, j \in 1..Len(r) : r[i] = r[j] => i = j
<1> DEFINE r == Select(s, S)
<1>1. PICK at : r \in Seq(T) /\ Chosen(r, at, s, S, Len(s))
      BY SelectIs
<1> HIDE DEF r
<1>2. /\ at \in [1..Len(r) -> 1..Len(s)]
      /\ \A i \in 1..Len(r) : r[i] = s[at[i]] /\ s[at[i]] \in S
      /\ \A i, j \in 1..Len(r) : i < j => at[i] < at[j]
      /\ \A k \in 1..Len(s) : s[k] \in S => \E i \in 1..Len(r) : at[i] = k
      BY <1>1 DEF Chosen
<1>3. \A i \in 1..Len(r) : at[i] \in 1..Len(s) /\ at[i] \in Int
      BY <1>1, <1>2
<1>4. ASSUME \A k, l \in 1..Len(s) : s[k] = s[l] => k = l,
             NEW i \in 1..Len(r), NEW j \in 1..Len(r), r[i] = r[j]
      PROVE  i = j
  <2>1. at[i] = at[j]
        BY <1>2, <1>3, <1>4
  <2>2. ~(i < j) /\ ~(j < i)
        BY <1>2, <1>3, <2>1
  <2> QED BY <1>1, <2>2
<1>5. ASSUME NEW k \in 1..Len(s), s[k] \in S
      PROVE  \E i \in 1..Len(r) : r[i] = s[k]
  <2>1. PICK i \in 1..Len(r) : at[i] = k
        BY <1>2, <1>5
  <2> QED BY <1>2, <2>1
<1>6. \A i \in 1..Len(r) : r[i] \in S /\ \E k \in 1..Len(s) : r[i] = s[k]
      BY <1>2, <1>3
<1>7. (\A k, l \in 1..Len(s) : s[k] = s[l] => k = l) =>
          \A i, j \in 1..Len(r) : r[i] = r[j] => i = j
      BY <1>4
<1>8. /\ r \in Seq(T)
      /\ \A i \in 1..Len(r) : r[i] \in S /\ \E k \in 1..Len(s) : r[i] = s[k]
      /\ \A k \in 1..Len(s) : s[k] \in S => \E i \in 1..Len(r) : r[i] = s[k]
      /\ (\A k, l \in 1..Len(s) : s[k] = s[l] => k = l) =>
             \A i, j \in 1..Len(r) : r[i] = r[j] => i = j
      BY <1>1, <1>5, <1>6, <1>7
<1> QED BY <1>8 DEF r

CONSTANTS ClaimsOf, Central, Findings, Cites, Worded, LateRetry
VARIABLES review, analysis, stage, prompt, draft, audit, corrected, reaudit, finalReport

Reports == INSTANCE Reporting WITH report <- finalReport

(* An analysed review keeps claims of its source, each once.               *)
ReviewsInv ==
    /\ review \in [Reports!Sources -> {"pending", "analysed", "skipped", "failed"}]
    /\ analysis \in [Reports!Sources -> Seq(Reports!Claims)]
    /\ \A s \in Reports!Sources : review[s] = "analysed" =>
           /\ \A k \in 1..Len(analysis[s]) : \E l \in 1..Len(ClaimsOf[s]) :
                  analysis[s][k] = ClaimsOf[s][l]
           /\ \A k, l \in 1..Len(analysis[s]) : analysis[s][k] = analysis[s][l] => k = l

(* A list of reviews has an analysed source at most once.                  *)
Analyses == [source : Reports!Sources, claims : Seq(Reports!Claims)]
ListOf(rs, status, claims) ==
    /\ rs \in Seq(Analyses)
    /\ \A i \in 1..Len(rs) :
           status[rs[i].source] = "analysed" /\ rs[i].claims = claims[rs[i].source]
    /\ \A i, j \in 1..Len(rs) : rs[i].source = rs[j].source => i = j

(* What an audit lets pass of a draft rests on the reviews of the draft.   *)
Grounded(a, d) ==
    /\ Reports!Passed(a) => a.safe # {}
    /\ a.safe \subseteq d.findings
    /\ \A f \in a.safe : f \in Worded /\ \E r \in a.reviews : Cites[f] \subseteq r.claims
    /\ \A r \in a.reviews : /\ r.source \in Reports!Sources
                            /\ r.claims \subseteq Reports!InReviews(d.reviews)
    /\ \A r, q \in a.reviews : r.source = q.source => r = q
    /\ a.verdict = "pass" => Reports!InSet(a.reviews) = Reports!InReviews(d.reviews)

Ended == {"publish", "published", "rejected"}
Corrected == {"reaudit"} \cup Ended
Audited == {"correct"} \cup Corrected

AuditsInv ==
    /\ stage \in {"reviews", "build", "audit"} \cup Audited
    /\ prompt # <<>> => \/ stage = "audit"
                        \/ stage = "reaudit" /\ ~audit.terminal /\ ~Reports!Passed(audit)
    /\ stage \in Audited => Grounded(audit, draft)
    /\ stage \in Corrected => (audit.terminal \/ Reports!Passed(audit) => corrected = draft)
    /\ stage \in Ended => Grounded(reaudit, corrected)

(* The gate lets through what the second audit let pass.                   *)
GateInv ==
    Reports!Published =>
        /\ Reports!Passed(reaudit)
        /\ finalReport.findings = reaudit.safe /\ finalReport.reviews = reaudit.reviews
        /\ \A r \in reaudit.reviews : r.claims \cap Central # {}
        /\ finalReport.status = "complete" =>
               /\ Cardinality(reaudit.reviews) = Cardinality(Reports!Sources)
               /\ reaudit.verdict = "pass"

ReportInv ==
    /\ ReviewsInv
    /\ ListOf(draft.reviews, review, analysis) /\ ListOf(corrected.reviews, review, analysis)
    /\ AuditsInv
    /\ GateInv

-----------------------------------------------------------------------------
(* The reviews and the lists read from them *)

LEMMA SourcesAre ==
    ASSUME Reports!ReportingAssumption
    PROVE  /\ Reports!Sources = 1..Len(ClaimsOf) /\ Len(ClaimsOf) \in Nat
           /\ \A s \in Reports!Sources : ClaimsOf[s] \in Seq(Reports!Claims)
           /\ [s \in Reports!Sources |-> s] \in Seq(Reports!Sources)
           /\ Len([s \in Reports!Sources |-> s]) = Len(ClaimsOf)
<1>1. ClaimsOf \in Seq(Seq(Reports!Claims))
      BY DEF Reports!ReportingAssumption
<1>2. Reports!Sources = 1..Len(ClaimsOf) /\ Len(ClaimsOf) \in Nat
      BY <1>1 DEF Reports!Sources
<1> QED BY <1>1, <1>2

LEMMA ReportsCardinality ==
    ASSUME NEW S
    PROVE  Reports!Cardinality(S) = Cardinality(S)
BY DEF Reports!Cardinality, Cardinality

LEMMA ReportsSelect ==
    ASSUME NEW T, NEW s \in Seq(T), NEW S
    PROVE  LET r == Reports!Select(s, S) IN
           /\ r \in Seq(T)
           /\ \A i \in 1..Len(r) : r[i] \in S /\ \E k \in 1..Len(s) : r[i] = s[k]
           /\ \A k \in 1..Len(s) : s[k] \in S => \E i \in 1..Len(r) : r[i] = s[k]
           /\ (\A k, l \in 1..Len(s) : s[k] = s[l] => k = l) =>
                  \A i, j \in 1..Len(r) : r[i] = r[j] => i = j
<1>1. Reports!Select(s, S) = Select(s, S)
      BY DEF Reports!Select, Select
<1> QED BY <1>1, SelectKeeps

LEMMA ReviewsAre ==
    ASSUME Reports!ReportingAssumption, ReviewsInv
    PROVE  /\ ListOf(Reports!Reviews, review, analysis)
           /\ \A s \in Reports!Sources : review[s] = "analysed" =>
                  \E i \in 1..Len(Reports!Reviews) : Reports!Reviews[i].source = s
<1> DEFINE A == {s \in Reports!Sources : review[s] = "analysed"}
           all == [s \in Reports!Sources |-> s]
           by == Reports!Select(all, A)
           rs == [i \in DOMAIN by |-> [source |-> by[i], claims |-> analysis[by[i]]]]
<1>1. Reports!Reviews = rs
      BY DEF Reports!Reviews
<1>2. /\ all \in Seq(Reports!Sources) /\ Len(all) \in Nat
      /\ \A s \in 1..Len(all) : s \in Reports!Sources /\ all[s] = s
      /\ \A s \in Reports!Sources : s \in 1..Len(all) /\ all[s] = s
      BY SourcesAre
<1> HIDE DEF all, A
<1>3. /\ by \in Seq(Reports!Sources)
      /\ \A i \in 1..Len(by) : by[i] \in A
      /\ \A s \in Reports!Sources : s \in A => \E i \in 1..Len(by) : by[i] = s
      /\ \A i, j \in 1..Len(by) : by[i] = by[j] => i = j
  <2>0. all \in Seq(Reports!Sources)
        BY <1>2
  <2>1. /\ by \in Seq(Reports!Sources)
        /\ \A i \in 1..Len(by) : by[i] \in A /\ \E k \in 1..Len(all) : by[i] = all[k]
        /\ \A k \in 1..Len(all) : all[k] \in A => \E i \in 1..Len(by) : by[i] = all[k]
        /\ (\A k, l \in 1..Len(all) : all[k] = all[l] => k = l) =>
               \A i, j \in 1..Len(by) : by[i] = by[j] => i = j
        BY <2>0, ReportsSelect
  <2> HIDE DEF by
  <2>2. \A k, l \in 1..Len(all) : all[k] = all[l] => k = l
        BY <1>2
  <2>3. \A s \in Reports!Sources : s \in A => \E i \in 1..Len(by) : by[i] = s
    <3> SUFFICES ASSUME NEW s \in Reports!Sources, s \in A
                 PROVE  \E i \in 1..Len(by) : by[i] = s
        OBVIOUS
    <3>1. s \in 1..Len(all) /\ all[s] = s
          BY <1>2
    <3> QED BY <2>1, <3>1
  <2> QED BY <2>1, <2>2, <2>3
<1> HIDE DEF by
<1>4. /\ DOMAIN by = 1..Len(by) /\ Len(by) \in Nat
      /\ \A i \in 1..Len(by) : by[i] \in Reports!Sources /\ review[by[i]] = "analysed"
      BY <1>3 DEF A
<1>5. \A i \in 1..Len(by) : [source |-> by[i], claims |-> analysis[by[i]]] \in Analyses
      BY <1>4 DEF Analyses, ReviewsInv
<1>6. rs \in Seq(Analyses) /\ Len(rs) = Len(by)
      BY <1>4, <1>5
<1>7. \A i \in 1..Len(by) : rs[i].source = by[i] /\ rs[i].claims = analysis[by[i]]
      BY <1>4
<1> HIDE DEF rs
<1>8. ListOf(rs, review, analysis)
      BY <1>3, <1>4, <1>6, <1>7 DEF ListOf
<1>9. ASSUME NEW s \in Reports!Sources, review[s] = "analysed"
      PROVE  \E i \in 1..Len(rs) : rs[i].source = s
      BY <1>3, <1>6, <1>7, <1>9 DEF A
<1> QED BY <1>1, <1>8, <1>9

LEMMA ListElements ==
    ASSUME NEW rs, NEW status, NEW claims, ListOf(rs, status, claims)
    PROVE  /\ DOMAIN rs = 1..Len(rs) /\ Len(rs) \in Nat
           /\ \A i \in 1..Len(rs) :
                 /\ rs[i].source \in Reports!Sources /\ rs[i].claims \in Seq(Reports!Claims)
                 /\ status[rs[i].source] = "analysed" /\ rs[i].claims = claims[rs[i].source]
<1>1. rs \in Seq(Analyses)
      BY DEF ListOf
<1>2. \A i \in 1..Len(rs) : rs[i] \in Analyses
      BY <1>1
<1>3. \A i \in 1..Len(rs) :
          rs[i].source \in Reports!Sources /\ rs[i].claims \in Seq(Reports!Claims)
      BY <1>2 DEF Analyses
<1> QED BY <1>1, <1>3 DEF ListOf

LEMMA ListStays ==
    ASSUME NEW rs, NEW status, NEW claims, NEW statusLater, NEW claimsLater,
           ListOf(rs, status, claims),
           \A s \in Reports!Sources : status[s] = "analysed" =>
               statusLater[s] = "analysed" /\ claimsLater[s] = claims[s]
    PROVE  ListOf(rs, statusLater, claimsLater)
<1>1. \A i \in 1..Len(rs) : rs[i].source \in Reports!Sources
      BY ListElements
<1> QED BY <1>1 DEF ListOf

LEMMA EmptyList == ASSUME NEW status, NEW claims PROVE ListOf(<<>>, status, claims)
BY DEF ListOf

(* A list has nothing that is not stored by now.                           *)
LEMMA ListWithin ==
    ASSUME Reports!ReportingAssumption, ReviewsInv, NEW rs, ListOf(rs, review, analysis)
    PROVE  Reports!InReviews(rs) \subseteq Reports!InReviews(Reports!Reviews)
<1> DEFINE now2 == Reports!Reviews
<1>1. /\ ListOf(now2, review, analysis)
      /\ \A s \in Reports!Sources : review[s] = "analysed" =>
             \E i \in 1..Len(now2) : now2[i].source = s
      BY ReviewsAre
<1> HIDE DEF now2
<1>2. ASSUME NEW i \in DOMAIN rs
      PROVE  \E j \in DOMAIN now2 : now2[j].claims = rs[i].claims
  <2>1. /\ rs[i].source \in Reports!Sources /\ review[rs[i].source] = "analysed"
        /\ rs[i].claims = analysis[rs[i].source]
        BY ListElements
  <2>2. PICK j \in 1..Len(now2) : now2[j].source = rs[i].source
        BY <1>1, <2>1
  <2>3. j \in DOMAIN now2 /\ now2[j].claims = analysis[now2[j].source]
        BY <1>1 DEF ListOf
  <2> QED BY <2>1, <2>2, <2>3
<1>3. Reports!InReviews(rs) \subseteq Reports!InReviews(now2)
      BY <1>2 DEF Reports!InReviews
<1> QED BY <1>3 DEF now2

(* A review only adds to what is stored.                                   *)
LEMMA ReviewStep ==
    ASSUME Reports!ReportingAssumption, ReviewsInv, NEW s \in Reports!Sources,
           Reports!Analyze(s) \/ Reports!RetryReview(s)
    PROVE  /\ ReviewsInv'
           /\ \A t \in Reports!Sources : review[t] = "analysed" =>
                  review'[t] = "analysed" /\ analysis'[t] = analysis[t]
           /\ UNCHANGED <<stage, prompt, draft, audit, corrected, reaudit, finalReport>>
<1>1. CASE Reports!RetryReview(s)
      BY <1>1 DEF Reports!RetryReview, Reports!chain, ReviewsInv
<1>2. CASE review[s] = "pending" /\ review' = [review EXCEPT ![s] = "failed"]
           /\ UNCHANGED analysis /\ UNCHANGED Reports!chain
      BY <1>2 DEF Reports!chain, ReviewsInv
<1>3. ASSUME NEW quoted \in SUBSET Reports!Claims, NEW kept, kept = Reports!Select(ClaimsOf[s], quoted),
             NEW sound \in BOOLEAN,
             review[s] = "pending",
             review' = [review EXCEPT ![s] = IF sound THEN "analysed" ELSE "skipped"],
             analysis' = [analysis EXCEPT ![s] = IF sound THEN kept ELSE <<>>]
      PROVE  /\ ReviewsInv'
             /\ \A t \in Reports!Sources : review[t] = "analysed" =>
                    review'[t] = "analysed" /\ analysis'[t] = analysis[t]
  <2>1. /\ ClaimsOf[s] \in Seq(Reports!Claims)
        /\ \A k, l \in 1..Len(ClaimsOf[s]) : ClaimsOf[s][k] = ClaimsOf[s][l] => k = l
        BY SourcesAre DEF Reports!ReportingAssumption
  <2>2. /\ kept \in Seq(Reports!Claims)
        /\ \A i \in 1..Len(kept) : \E k \in 1..Len(ClaimsOf[s]) : kept[i] = ClaimsOf[s][k]
        /\ \A i, j \in 1..Len(kept) : kept[i] = kept[j] => i = j
    <3>1. /\ kept \in Seq(Reports!Claims)
          /\ \A i \in 1..Len(kept) : kept[i] \in quoted /\ \E k \in 1..Len(ClaimsOf[s]) : kept[i] = ClaimsOf[s][k]
          /\ (\A k, l \in 1..Len(ClaimsOf[s]) : ClaimsOf[s][k] = ClaimsOf[s][l] => k = l) =>
                 \A i, j \in 1..Len(kept) : kept[i] = kept[j] => i = j
      <4> DEFINE all == ClaimsOf[s]
                 r == Reports!Select(all, quoted)
      <4>1. all \in Seq(Reports!Claims)
            BY <2>1
      <4> HIDE DEF all
      <4>2. /\ r \in Seq(Reports!Claims)
            /\ \A i \in 1..Len(r) : r[i] \in quoted /\ \E k \in 1..Len(all) : r[i] = all[k]
            /\ (\A k, l \in 1..Len(all) : all[k] = all[l] => k = l) =>
                   \A i, j \in 1..Len(r) : r[i] = r[j] => i = j
            BY <4>1, ReportsSelect
      <4>3. kept = r
            BY <1>3 DEF all
      <4> HIDE DEF r
      <4> QED BY <4>2, <4>3 DEF all
    <3> QED BY <2>1, <3>1
  <2>3. <<>> \in Seq(Reports!Claims)
        OBVIOUS
  <2>4. /\ review' \in [Reports!Sources -> {"pending", "analysed", "skipped", "failed"}]
        /\ analysis' \in [Reports!Sources -> Seq(Reports!Claims)]
        BY <1>3, <2>2, <2>3 DEF ReviewsInv
  <2>5. \A t \in Reports!Sources \ {s} : review'[t] = review[t] /\ analysis'[t] = analysis[t]
        BY <1>3 DEF ReviewsInv
  <2>6. review'[s] = "analysed" => analysis'[s] = kept
        BY <1>3 DEF ReviewsInv
  <2>7. ASSUME NEW t \in Reports!Sources, review'[t] = "analysed"
        PROVE  /\ \A k \in 1..Len(analysis'[t]) : \E l \in 1..Len(ClaimsOf[t]) :
                      analysis'[t][k] = ClaimsOf[t][l]
               /\ \A k, l \in 1..Len(analysis'[t]) : analysis'[t][k] = analysis'[t][l] => k = l
    <3>1. CASE t = s
      <4>1. analysis'[t] = kept
            BY <2>6, <2>7, <3>1
      <4>2. \A k \in 1..Len(kept) : \E l \in 1..Len(ClaimsOf[t]) : kept[k] = ClaimsOf[t][l]
            BY <2>2, <3>1
      <4>3. \A k, l \in 1..Len(kept) : kept[k] = kept[l] => k = l
            BY <2>2
      <4> QED BY <4>1, <4>2, <4>3
    <3>2. CASE t # s
      <4>1. analysis'[t] = analysis[t] /\ review[t] = "analysed"
            BY <2>5, <2>7, <3>2
      <4>2. /\ \A k \in 1..Len(analysis[t]) : \E l \in 1..Len(ClaimsOf[t]) :
                   analysis[t][k] = ClaimsOf[t][l]
            /\ \A k, l \in 1..Len(analysis[t]) : analysis[t][k] = analysis[t][l] => k = l
            BY <4>1 DEF ReviewsInv
      <4> QED BY <4>1, <4>2
    <3> QED BY <3>1, <3>2
  <2>8. ReviewsInv'
        BY <2>4, <2>7 DEF ReviewsInv
  <2> QED BY <1>3, <2>5, <2>8
<1>4. CASE Reports!Analyze(s)
  <2>1. review[s] = "pending" /\ UNCHANGED Reports!chain
        BY <1>4 DEF Reports!Analyze
  <2>2. CASE review' = [review EXCEPT ![s] = "failed"] /\ UNCHANGED analysis
        BY <1>2, <2>1, <2>2 DEF Reports!chain
  <2>3. CASE ~(review' = [review EXCEPT ![s] = "failed"] /\ UNCHANGED analysis)
    <3>1. PICK quoted \in SUBSET Reports!Claims :
              LET kept == Reports!Select(ClaimsOf[s], quoted)
                  sound == \E k \in DOMAIN kept : kept[k] \in Central
              IN /\ review' = [review EXCEPT ![s] = IF sound THEN "analysed" ELSE "skipped"]
                 /\ analysis' = [analysis EXCEPT ![s] = IF sound THEN kept ELSE <<>>]
          BY Zenon, <1>4, <2>3 DEF Reports!Analyze
    <3> DEFINE kept == Reports!Select(ClaimsOf[s], quoted)
               sound == \E k \in DOMAIN kept : kept[k] \in Central
    <3>2. sound \in BOOLEAN
          OBVIOUS
    <3>3. /\ review' = [review EXCEPT ![s] = IF sound THEN "analysed" ELSE "skipped"]
          /\ analysis' = [analysis EXCEPT ![s] = IF sound THEN kept ELSE <<>>]
          BY <3>1
    <3> HIDE DEF sound
    <3> QED BY <1>3, <2>1, <3>2, <3>3 DEF Reports!chain
  <2> QED BY <2>2, <2>3
<1> QED BY <1>1, <1>4

-----------------------------------------------------------------------------
(* Audits *)

LEMMA OutcomeGrounded ==
    ASSUME ListOf(Reports!Subject.reviews, review, analysis),
           NEW refused, NEW denied, NEW remarks
    PROVE  Grounded(Reports!Outcome(refused, denied, remarks), Reports!Subject)
<1> DEFINE d == Reports!Subject
           rs == d.reviews
           Part(i) == {rs[i].claims[k] : k \in {k \in DOMAIN rs[i].claims : <<i, k>> \notin refused}}
           kept == Reports!Verified(rs, refused)
           a == Reports!Outcome(refused, denied, remarks)
           safe == {f \in d.findings : Reports!Supported(f, kept)} \ denied
<1> HIDE DEF d
<1>1. /\ a.safe = safe /\ a.reviews = kept
      /\ Reports!Passed(a) => safe # {}
      /\ a.verdict = "pass" => Reports!InSet(kept) = Reports!InReviews(rs)
      BY DEF Reports!Outcome, Reports!Passed, d
<1> HIDE DEF a
<1>2. /\ safe \subseteq d.findings
      /\ \A f \in safe : f \in Worded /\ \E r \in kept : Cites[f] \subseteq r.claims
      BY DEF Reports!Supported
<1>3. \A r \in kept : \E i \in DOMAIN rs : r = [source |-> rs[i].source, claims |-> Part(i)]
      BY DEF Reports!Verified
<1> HIDE DEF kept, safe
<1>4. ASSUME NEW i \in DOMAIN rs
      PROVE  Part(i) \subseteq Reports!InReviews(rs)
  <2> DEFINE All(j) == {rs[j].claims[k] : k \in DOMAIN rs[j].claims}
  <2>1. Part(i) \subseteq All(i)
        OBVIOUS
  <2>2. All(i) \in {All(j) : j \in DOMAIN rs}
        OBVIOUS
  <2>3. Reports!InReviews(rs) = UNION {All(j) : j \in DOMAIN rs}
        BY DEF Reports!InReviews
  <2> HIDE DEF All, Part, rs
  <2> QED BY <2>1, <2>2, <2>3
<1> HIDE DEF Part, rs
<1>5. ListOf(rs, review, analysis)
      BY DEF rs, d
<1>6. /\ DOMAIN rs = 1..Len(rs)
      /\ \A i \in 1..Len(rs) : rs[i].source \in Reports!Sources
      /\ \A i, j \in 1..Len(rs) : rs[i].source = rs[j].source => i = j
  <2>1. DOMAIN rs = 1..Len(rs) /\ \A i \in 1..Len(rs) : rs[i].source \in Reports!Sources
        BY <1>5, ListElements
  <2>2. \A i, j \in 1..Len(rs) : rs[i].source = rs[j].source => i = j
        BY <1>5 DEF ListOf
  <2> QED BY <2>1, <2>2
<1>7. \A r \in kept : r.source \in Reports!Sources /\ r.claims \subseteq Reports!InReviews(rs)
      BY <1>3, <1>4, <1>6
<1>8. \A r, q \in kept : r.source = q.source => r = q
      BY <1>3, <1>6
<1>9. Grounded(a, d)
      BY <1>1, <1>2, <1>7, <1>8 DEF Grounded, rs
<1> QED BY <1>9 DEF a, d

(* A draft without findings fails without a call.                          *)
LEMMA EmptyGrounded ==
    ASSUME NEW d, NEW terminal,
           NEW a, a = [Reports!NoAudit EXCEPT !.verdict = "fail", !.terminal = terminal]
    PROVE  Grounded(a, d) /\ ~Reports!Passed(a)
BY DEF Reports!NoAudit, Reports!Passed, Grounded

(* An answer ends an audit, and what it lets pass is grounded.             *)
LEMMA DeliverKeeps ==
    ASSUME ReportInv, NEW a, Reports!Deliver(a),
           stage \in {"audit", "reaudit"}, Grounded(a, Reports!Subject)
    PROVE  ReportInv'
<1>1. /\ prompt' = <<>>
      /\ UNCHANGED <<review, analysis, draft, corrected, finalReport>>
      BY DEF Reports!Deliver
<1>2. CASE stage = "audit"
  <2>1. audit' = a /\ stage' = "correct" /\ Grounded(a, draft)
        BY <1>2 DEF Reports!Deliver, Reports!Subject
  <2> QED BY <1>1, <2>1 DEF ReportInv, ReviewsInv, ListOf, AuditsInv, GateInv, Reports!Published,
                            Audited, Corrected, Ended
<1>3. CASE stage = "reaudit"
  <2>1. reaudit' = a /\ stage' = "publish" /\ audit' = audit /\ Grounded(a, corrected)
        BY <1>3 DEF Reports!Deliver, Reports!Subject
  <2> QED BY <1>1, <1>3, <2>1 DEF ReportInv, ReviewsInv, ListOf, AuditsInv, GateInv,
                            Reports!Published, Audited, Corrected, Ended
<1> QED BY <1>2, <1>3

(* What a chain task writes into the draft or its correction.              *)
LEMMA DraftsAre ==
    ASSUME Reports!ReportingAssumption, ReviewsInv, NEW d \in Reports!Drafts
    PROVE  d.reviews = Reports!Reviews /\ ListOf(d.reviews, review, analysis)
BY ReviewsAre DEF Reports!Drafts

LEMMA ReportInitially ==
    ASSUME Reports!ReportingAssumption, Reports!Init
    PROVE  ReportInv
<1>1. ReviewsInv
      BY DEF Reports!Init, ReviewsInv
<1>2. draft.reviews = <<>> /\ corrected.reviews = <<>>
      BY DEF Reports!Init, Reports!NoDraft
<1>3. AuditsInv /\ GateInv
      BY DEF Reports!Init, AuditsInv, GateInv, Reports!Published, Audited, Corrected, Ended
<1> QED BY <1>1, <1>2, <1>3, EmptyList DEF ReportInv

LEMMA ReportKept ==
    ASSUME Reports!ReportingAssumption, ReportInv, [Reports!Next]_(Reports!vars)
    PROVE  ReportInv'
<1>1. ASSUME NEW s \in Reports!Sources, Reports!Analyze(s) \/ Reports!RetryReview(s)
      PROVE  ReportInv'
  <2>1. /\ ReviewsInv'
        /\ \A t \in Reports!Sources : review[t] = "analysed" =>
               review'[t] = "analysed" /\ analysis'[t] = analysis[t]
        /\ UNCHANGED <<stage, prompt, draft, audit, corrected, reaudit, finalReport>>
        BY <1>1, ReviewStep DEF ReportInv
  <2>2. ListOf(draft.reviews, review', analysis') /\ ListOf(corrected.reviews, review', analysis')
        BY <2>1, ListStays DEF ReportInv
  <2>3. AuditsInv' /\ GateInv'
        BY <2>1 DEF ReportInv, AuditsInv, GateInv, Reports!Published
  <2> QED BY <2>1, <2>2, <2>3 DEF ReportInv
<1>2. CASE Reports!Curate
      BY <1>2 DEF Reports!Curate, ReportInv, ReviewsInv, AuditsInv, GateInv, Reports!Published,
                  Audited, Corrected, Ended
<1>3. CASE Reports!Build
  <2>1. /\ draft' \in Reports!Drafts /\ stage = "build" /\ stage' = "audit"
        /\ UNCHANGED <<review, analysis, prompt, audit, corrected, reaudit, finalReport>>
        BY <1>3 DEF Reports!Build
  <2>2. ListOf(draft'.reviews, review, analysis)
        BY <2>1, DraftsAre DEF ReportInv
  <2> QED BY <2>1, <2>2 DEF ReportInv, ReviewsInv, AuditsInv, GateInv, Reports!Published,
                            Audited, Corrected, Ended
<1>4. CASE Reports!AuditSettled
  <2>1. CASE stage = "reaudit" /\ (audit.terminal \/ Reports!Passed(audit))
             /\ Reports!Deliver(audit)
    <3>1. Grounded(audit, Reports!Subject)
          BY <2>1 DEF ReportInv, AuditsInv, Audited, Corrected, Reports!Subject
    <3> QED BY <2>1, <3>1, DeliverKeeps
  <2>2. ASSUME Reports!Auditing,
               Reports!Deliver([Reports!NoAudit EXCEPT !.verdict = "fail",
                   !.terminal = Reports!InReviews(Reports!Reviews) \cap Central = {}])
        PROVE  ReportInv'
    <3> DEFINE a == [Reports!NoAudit EXCEPT !.verdict = "fail",
                        !.terminal = Reports!InReviews(Reports!Reviews) \cap Central = {}]
    <3>1. Grounded(a, Reports!Subject)
          BY EmptyGrounded
    <3>2. stage \in {"audit", "reaudit"}
          BY <2>2 DEF Reports!Auditing
    <3> HIDE DEF a
    <3>3. Reports!Deliver(a)
          BY <2>2 DEF a
    <3> QED BY <3>1, <3>2, <3>3, DeliverKeeps
  <2> QED BY <1>4, <2>1, <2>2 DEF Reports!AuditSettled
<1>5. CASE Reports!AskAudit \/ Reports!AuditFails
  <2>1. /\ UNCHANGED <<review, analysis, stage, draft, audit, corrected, reaudit, finalReport>>
        /\ prompt' # <<>> => Reports!Auditing
        BY <1>5 DEF Reports!AskAudit, Reports!AuditFails
  <2>2. prompt' # <<>> => \/ stage = "audit"
                          \/ stage = "reaudit" /\ ~audit.terminal /\ ~Reports!Passed(audit)
        BY <2>1 DEF Reports!Auditing
  <2> QED BY <2>1, <2>2 DEF ReportInv, ReviewsInv, AuditsInv, GateInv, Reports!Published
<1>6. CASE Reports!Judge
  <2>1. PICK refused \in SUBSET Reports!Positions(prompt), denied \in SUBSET Reports!Subject.findings,
             remarks \in BOOLEAN : Reports!Deliver(Reports!Outcome(refused, denied, remarks))
        BY <1>6 DEF Reports!Judge
  <2>2. stage \in {"audit", "reaudit"}
        BY <1>6 DEF Reports!Judge, ReportInv, AuditsInv
  <2>3. ListOf(Reports!Subject.reviews, review, analysis)
        BY DEF ReportInv, Reports!Subject
  <2>4. Grounded(Reports!Outcome(refused, denied, remarks), Reports!Subject)
        BY <2>3, OutcomeGrounded
  <2> QED BY <2>1, <2>2, <2>4, DeliverKeeps
<1>7. CASE Reports!Correct
  <2>1. /\ stage = "correct" /\ stage' = "reaudit"
        /\ UNCHANGED <<review, analysis, prompt, draft, audit, reaudit, finalReport>>
        /\ corrected' = draft \/ corrected' \in Reports!Drafts
        /\ audit.terminal \/ Reports!Passed(audit) => corrected' = draft
        BY <1>7 DEF Reports!Correct, Reports!Rewritten
  <2>2. ListOf(corrected'.reviews, review, analysis)
        BY <2>1, DraftsAre DEF ReportInv
  <2> QED BY <2>1, <2>2 DEF ReportInv, ReviewsInv, AuditsInv, GateInv, Reports!Published,
                            Audited, Corrected, Ended
<1>8. CASE Reports!Publish
  <2>1. /\ stage = "publish" /\ stage' \in {"published", "rejected"}
        /\ UNCHANGED <<review, analysis, prompt, draft, audit, corrected, reaudit>>
        BY <1>8 DEF Reports!Publish
  <2>2. GateInv'
    <3>1. CASE stage' = "rejected"
          BY <3>1 DEF GateInv, Reports!Published
    <3>2. CASE stage' = "published"
      <4>1. /\ Reports!Passed(reaudit)
            /\ \A r \in reaudit.reviews : r.claims \cap Central # {}
            /\ \E status \in Reports!Statuses :
                 finalReport' = [status |-> status, findings |-> reaudit.safe,
                                 reviews |-> reaudit.reviews]
            BY <1>8, <3>2 DEF Reports!Publish
      <4>2. PICK status \in Reports!Statuses :
                 finalReport' = [status |-> status, findings |-> reaudit.safe,
                                 reviews |-> reaudit.reviews]
            BY <4>1
      <4>3. status = "complete" =>
               /\ Cardinality(reaudit.reviews) = Cardinality(Reports!Sources)
               /\ reaudit.verdict = "pass"
        <5>1. CASE /\ Cardinality(reaudit.reviews) = Cardinality(Reports!Sources)
                   /\ reaudit.verdict = "pass"
              BY <5>1
        <5>2. CASE ~(/\ Cardinality(reaudit.reviews) = Cardinality(Reports!Sources)
                     /\ reaudit.verdict = "pass")
          <6>1. status \in {"partial"}
                BY <4>2, <5>2, ReportsCardinality DEF Reports!Statuses
          <6> QED BY <6>1
        <5> QED BY <5>1, <5>2
      <4> QED BY <2>1, <4>1, <4>2, <4>3 DEF GateInv, Reports!Passed
    <3> QED BY <2>1, <3>1, <3>2
  <2>3. AuditsInv'
        BY <2>1 DEF ReportInv, AuditsInv, Audited, Corrected, Ended
  <2> QED BY <2>1, <2>2, <2>3 DEF ReportInv, ReviewsInv
<1>9. CASE UNCHANGED Reports!vars
      BY <1>9 DEF Reports!vars, ReportInv, ReviewsInv, AuditsInv, GateInv, Reports!Published
<1> QED BY <1>1, <1>2, <1>3, <1>4, <1>5, <1>6, <1>7, <1>8, <1>9 DEF Reports!Next


LEMMA GroundedByInv ==
    ASSUME Reports!ReportingAssumption, ReportInv
    PROVE  Reports!ReportGrounded
<1> SUFFICES ASSUME Reports!Published
             PROVE  Reports!ReportGrounded
    BY DEF Reports!ReportGrounded
<1> DEFINE R == reaudit.reviews
           S == Reports!Sources
<1>1. /\ Grounded(reaudit, corrected)
      /\ ListOf(corrected.reviews, review, analysis) /\ ReviewsInv
      BY DEF ReportInv, AuditsInv, Ended, Reports!Published
<1>2. /\ Reports!Passed(reaudit)
      /\ finalReport.findings = reaudit.safe /\ finalReport.reviews = R
      /\ \A r \in R : r.claims \cap Central # {}
      /\ finalReport.status = "complete" =>
             Cardinality(R) = Cardinality(S) /\ reaudit.verdict = "pass"
      BY DEF ReportInv, GateInv
<1>3. /\ reaudit.safe # {}
      /\ \A f \in reaudit.safe : f \in Worded /\ \E r \in R : Cites[f] \subseteq r.claims
      /\ \A r \in R : r.source \in S /\ r.claims \subseteq Reports!InReviews(corrected.reviews)
      /\ \A r, q \in R : r.source = q.source => r = q
      /\ reaudit.verdict = "pass" =>
             Reports!InSet(R) = Reports!InReviews(corrected.reviews)
      BY <1>1, <1>2 DEF Grounded
<1>4. Reports!InReviews(corrected.reviews) \subseteq Reports!InReviews(Reports!Reviews)
      BY <1>1, ListWithin
<1> DEFINE T == {r.source : r \in R}
<1>5. Cardinality(R) = Cardinality(S) => T = S
  <2> SUFFICES ASSUME Cardinality(R) = Cardinality(S)
               PROVE  T = S
      OBVIOUS
  <2>1. IsFiniteSet(S) /\ T \in SUBSET S
    <3>1. T \in SUBSET S
          BY <1>3
    <3>2. S = 1..Len(ClaimsOf) /\ Len(ClaimsOf) \in Nat
          BY SourcesAre
    <3> HIDE DEF S, T
    <3>3. IsFiniteSet(S)
          BY <3>2, FS_Interval
    <3> QED BY <3>1, <3>3
  <2> DEFINE of == [s \in T |-> CHOOSE r \in R : r.source = s]
  <2>2. of \in Surjection(T, R)
    <3>1. \A s \in T : of[s] \in R
          OBVIOUS
    <3>2. ASSUME NEW r \in R
          PROVE  \E s \in T : of[s] = r
      <4>1. r.source \in T /\ of[r.source] = r
            BY <1>3
      <4> QED BY <4>1
    <3> HIDE DEF T, R
    <3> QED BY <3>1, <3>2 DEF Surjection
  <2> HIDE DEF of, T, R, S
  <2>3. /\ IsFiniteSet(T) /\ Cardinality(T) <= Cardinality(S)
        /\ Cardinality(S) = Cardinality(T) => S = T
        BY <2>1, FS_Subset
  <2>4. Cardinality(R) <= Cardinality(T)
        BY <2>2, <2>3, FS_Surjection
  <2>5. Cardinality(S) \in Nat /\ Cardinality(T) \in Nat
        BY <2>1, <2>3, FS_CardinalityType
  <2> QED BY <2>3, <2>4, <2>5
<1>6. finalReport.status = "complete" =>
          T = S /\ Reports!InSet(R) = Reports!InReviews(corrected.reviews)
      BY <1>2, <1>3, <1>5
<1> HIDE DEF S
<1>7. \A r \in R : r.claims \subseteq Reports!InReviews(Reports!Reviews)
      BY <1>3, <1>4
<1> QED BY <1>2, <1>3, <1>6, <1>7 DEF Reports!ReportGrounded, S

(* Whatever the models answer and whenever reviews are retried, what a     *)
(* published report states rests on quotations of one of its sources, and  *)
(* a complete report has lost no source and no claim                       *)
(* (_postprocess_review, verified_sources, ground_report,                  *)
(* _publish_report).                                                       *)
THEOREM ReportIsGrounded ==
    Reports!ReportingAssumption => (Reports!Spec => []Reports!ReportGrounded)
<1> SUFFICES ASSUME Reports!ReportingAssumption
             PROVE  Reports!Spec => []Reports!ReportGrounded
    OBVIOUS
<1>1. Reports!Init => ReportInv
      BY ReportInitially
<1>2. ReportInv /\ [Reports!Next]_(Reports!vars) => ReportInv'
      BY ReportKept
<1>3. ReportInv => Reports!ReportGrounded
      BY GroundedByInv
<1> QED BY <1>1, <1>2, <1>3, PTL DEF Reports!Spec

-----------------------------------------------------------------------------
(* Refusals *)

(* Without a late retry everybody reads the same reviews ...               *)
SameReviews ==
    /\ stage # "reviews" => \A s \in Reports!Sources : review[s] # "pending"
    /\ prompt \in {<<>>, Reports!Reviews}
    /\ stage \in {"audit"} \cup Audited => draft.reviews = Reports!Reviews
    /\ stage \in Corrected => corrected.reviews = Reports!Reviews

(* ... so that what an audit refuses is not in what it lets pass.          *)
Refused(a) ==
    /\ Reports!InSet(a.reviews) \cap a.refused = {}
    /\ a.safe \cap a.removed = {}

RefusalInv ==
    /\ stage \in Audited =>
           Refused(audit) /\ (audit.terminal => ~Reports!Passed(audit))
    /\ stage \in Corrected =>
           \/ audit.again \/ audit.terminal \/ Reports!Passed(audit)
           \/ corrected.findings \cap audit.removed = {}
    /\ stage \in Ended =>
           /\ Refused(reaudit)
           /\ Reports!Passed(reaudit) =>
                  audit.again \/ reaudit.safe \cap audit.removed = {}

(* No claim is at two places of a list of reviews.                         *)
LEMMA ClaimsApart ==
    ASSUME Reports!ReportingAssumption, ReviewsInv, NEW rs, ListOf(rs, review, analysis),
           NEW i \in DOMAIN rs, NEW j \in DOMAIN rs,
           NEW k \in DOMAIN rs[i].claims, NEW l \in DOMAIN rs[j].claims,
           rs[i].claims[k] = rs[j].claims[l]
    PROVE  i = j /\ k = l
<1> DEFINE s == rs[i].source
           t == rs[j].source
<1>1. /\ i \in 1..Len(rs) /\ j \in 1..Len(rs)
      /\ s \in Reports!Sources /\ review[s] = "analysed" /\ rs[i].claims = analysis[s]
      /\ t \in Reports!Sources /\ review[t] = "analysed" /\ rs[j].claims = analysis[t]
      BY ListElements
<1>2. s = t => i = j
      BY <1>1 DEF ListOf
<1> HIDE DEF s, t
<1>3. analysis[s] \in Seq(Reports!Claims) /\ analysis[t] \in Seq(Reports!Claims)
      BY <1>1 DEF ReviewsInv
<1>4. k \in 1..Len(analysis[s]) /\ l \in 1..Len(analysis[t]) /\ analysis[s][k] = analysis[t][l]
      BY <1>1, <1>3
<1>5. PICK m \in 1..Len(ClaimsOf[s]) : analysis[s][k] = ClaimsOf[s][m]
      BY <1>1, <1>4 DEF ReviewsInv
<1>6. PICK n \in 1..Len(ClaimsOf[t]) : analysis[t][l] = ClaimsOf[t][n]
      BY <1>1, <1>4 DEF ReviewsInv
<1>7. m \in DOMAIN ClaimsOf[s] /\ n \in DOMAIN ClaimsOf[t]
      BY <1>1, <1>5, <1>6, SourcesAre
<1>8. s = t
  <2>1. \A s1, t1 \in Reports!Sources :
            \A k1 \in DOMAIN ClaimsOf[s1], l1 \in DOMAIN ClaimsOf[t1] :
                ClaimsOf[s1][k1] = ClaimsOf[t1][l1] => s1 = t1 /\ k1 = l1
        BY DEF Reports!ReportingAssumption
  <2>2. ClaimsOf[s][m] = ClaimsOf[t][n]
        BY <1>4, <1>5, <1>6
  <2> QED BY <1>1, <1>7, <2>1, <2>2
<1>9. k = l
      BY <1>1, <1>4, <1>8 DEF ReviewsInv
<1> QED BY <1>2, <1>8, <1>9

LEMMA OutcomeRefuses ==
    ASSUME Reports!ReportingAssumption, ReviewsInv,
           ListOf(prompt, review, analysis), Reports!Subject.reviews = prompt,
           NEW refused \in SUBSET Reports!Positions(prompt), NEW denied, NEW remarks
    PROVE  /\ Refused(Reports!Outcome(refused, denied, remarks))
           /\ Reports!Outcome(refused, denied, remarks).terminal => stage = "reaudit"
<1> DEFINE d == Reports!Subject
           Part(i) == {prompt[i].claims[k] :
                          k \in {k \in DOMAIN prompt[i].claims : <<i, k>> \notin refused}}
           kept == Reports!Verified(prompt, refused)
           a == Reports!Outcome(refused, denied, remarks)
           safe == {f \in d.findings : Reports!Supported(f, kept)} \ denied
           out == {prompt[p[1]].claims[p[2]] : p \in refused}
<1> HIDE DEF d
<1>1. /\ a.safe = safe /\ a.reviews = kept /\ a.refused = out
      /\ a.removed = d.findings \ safe
      /\ a.terminal => stage = "reaudit"
      BY DEF Reports!Outcome, d
<1> HIDE DEF a, safe
<1>2. \A r \in kept : \E i \in DOMAIN prompt : r.claims = Part(i)
      BY DEF Reports!Verified
<1> HIDE DEF kept
<1>3. ASSUME NEW c \in Reports!InSet(kept), c \in out
      PROVE  FALSE
  <2>1. PICK r \in kept : c \in r.claims
        BY <1>3 DEF Reports!InSet
  <2>2. PICK i \in DOMAIN prompt : r.claims = Part(i)
        BY <1>2
  <2>3. PICK k \in DOMAIN prompt[i].claims : c = prompt[i].claims[k] /\ <<i, k>> \notin refused
        BY <2>1, <2>2
  <2>4. PICK p \in refused : c = prompt[p[1]].claims[p[2]]
        BY <1>3
  <2>5. p \in (1..Len(prompt)) \X (1..8) /\ p[2] \in DOMAIN prompt[p[1]].claims
        BY DEF Reports!Positions
  <2>6. p = <<p[1], p[2]>> /\ p[1] \in 1..Len(prompt)
        BY <2>5
  <2>7. p[1] \in DOMAIN prompt
        BY <2>6, ListElements
  <2>8. p[1] = i /\ p[2] = k
    <3> DEFINE j == p[1]
               l == p[2]
    <3>1. j \in DOMAIN prompt /\ l \in DOMAIN prompt[j].claims
          BY <2>5, <2>7
    <3>2. prompt[i].claims[k] = prompt[j].claims[l]
          BY <2>3, <2>4
    <3> HIDE DEF j, l
    <3>3. i = j /\ k = l
          BY <3>1, <3>2, ClaimsApart
    <3> QED BY <3>3 DEF j, l
  <2> QED BY <2>3, <2>6, <2>8
<1>4. Reports!InSet(a.reviews) \cap a.refused = {}
      BY <1>1, <1>3
<1>5. a.safe \cap a.removed = {}
      BY <1>1
<1> QED BY <1>1, <1>4, <1>5 DEF Refused, a

RefusalsInv == ReportInv /\ SameReviews /\ RefusalInv

LEMMA ReviewsStay ==
    ASSUME UNCHANGED <<review, analysis>>
    PROVE  Reports!Reviews' = Reports!Reviews
BY DEF Reports!Reviews

LEMMA DeliverRefuses ==
    ASSUME RefusalsInv, NEW a, Reports!Deliver(a), Refused(a),
           \/ stage = "audit" /\ (a.terminal => ~Reports!Passed(a))
           \/ /\ stage = "reaudit"
              /\ Reports!Passed(a) => audit.again \/ a.safe \cap audit.removed = {}
    PROVE  SameReviews' /\ RefusalInv'
<1>1. /\ prompt' = <<>>
      /\ UNCHANGED <<review, analysis, draft, corrected>>
      BY DEF Reports!Deliver
<1>2. Reports!Reviews' = Reports!Reviews
      BY <1>1, ReviewsStay
<1>3. CASE stage = "audit"
  <2>1. audit' = a /\ stage' = "correct"
        BY <1>3 DEF Reports!Deliver
  <2>2. SameReviews'
        BY <1>1, <1>2, <1>3, <2>1 DEF RefusalsInv, SameReviews, Audited, Corrected, Ended
  <2>3. RefusalInv'
        BY <1>3, <2>1 DEF RefusalInv, Refused, Reports!Passed, Audited, Corrected, Ended
  <2> QED BY <2>2, <2>3
<1>4. CASE stage = "reaudit"
  <2>1. reaudit' = a /\ stage' = "publish" /\ audit' = audit
        BY <1>4 DEF Reports!Deliver
  <2>2. SameReviews'
        BY <1>1, <1>2, <1>4, <2>1 DEF RefusalsInv, SameReviews, Audited, Corrected, Ended
  <2>3. RefusalInv'
        BY <1>1, <1>4, <2>1
        DEF RefusalsInv, RefusalInv, Refused, Reports!Passed, Audited, Corrected, Ended
  <2> QED BY <2>2, <2>3
<1> QED BY <1>3, <1>4

LEMMA RefusalsKept ==
    ASSUME Reports!ReportingAssumption, ~LateRetry, RefusalsInv,
           [Reports!Next]_(Reports!vars)
    PROVE  RefusalsInv'
<1>0. ReportInv'
      BY ReportKept DEF RefusalsInv
<1> SUFFICES SameReviews' /\ RefusalInv'
    BY <1>0 DEF RefusalsInv
<1>1. ASSUME NEW s \in Reports!Sources, Reports!Analyze(s) \/ Reports!RetryReview(s)
      PROVE  SameReviews' /\ RefusalInv'
  <2>1. UNCHANGED <<stage, prompt, draft, audit, corrected, reaudit, finalReport>>
        BY <1>1, ReviewStep DEF RefusalsInv, ReportInv
  <2>2. stage = "reviews"
        BY <1>1 DEF Reports!Analyze, Reports!RetryReview, RefusalsInv, SameReviews
  <2>3. prompt = <<>>
        BY <2>2 DEF RefusalsInv, ReportInv, AuditsInv
  <2> QED BY <2>1, <2>2, <2>3 DEF SameReviews, RefusalInv, Audited, Corrected, Ended
<1>2. CASE Reports!Curate
  <2>1. /\ stage' = "build" /\ \A s \in Reports!Sources : review[s] # "pending"
        /\ UNCHANGED <<review, analysis, prompt>>
        BY <1>2 DEF Reports!Curate
  <2>2. Reports!Reviews' = Reports!Reviews
        BY <2>1, ReviewsStay
  <2> QED BY <2>1, <2>2 DEF RefusalsInv, SameReviews, RefusalInv, Audited, Corrected, Ended
<1>3. CASE Reports!Build
  <2>1. /\ draft' \in Reports!Drafts /\ stage = "build" /\ stage' = "audit"
        /\ UNCHANGED <<review, analysis, prompt, audit, corrected, reaudit, finalReport>>
        BY <1>3 DEF Reports!Build
  <2>2. draft'.reviews = Reports!Reviews /\ Reports!Reviews' = Reports!Reviews
        BY <2>1, DraftsAre, ReviewsStay DEF RefusalsInv, ReportInv
  <2> QED BY <2>1, <2>2 DEF RefusalsInv, SameReviews, RefusalInv, Audited, Corrected, Ended
<1>4. CASE Reports!AuditSettled
  <2>1. CASE stage = "reaudit" /\ (audit.terminal \/ Reports!Passed(audit))
             /\ Reports!Deliver(audit)
    <3>1. Refused(audit)
          BY <2>1 DEF RefusalsInv, RefusalInv, Audited, Corrected
    <3>2. audit.safe \cap audit.removed = {}
          BY <3>1 DEF Refused
    <3> QED BY <2>1, <3>1, <3>2, DeliverRefuses
  <2>2. ASSUME Reports!Auditing,
               Reports!Deliver([Reports!NoAudit EXCEPT !.verdict = "fail",
                   !.terminal = Reports!InReviews(Reports!Reviews) \cap Central = {}])
        PROVE  SameReviews' /\ RefusalInv'
    <3> DEFINE a == [Reports!NoAudit EXCEPT !.verdict = "fail",
                        !.terminal = Reports!InReviews(Reports!Reviews) \cap Central = {}]
    <3>1. Refused(a) /\ ~Reports!Passed(a)
          BY DEF Reports!NoAudit, Refused, Reports!Passed, Reports!InSet
    <3>2. stage \in {"audit", "reaudit"}
          BY <2>2 DEF Reports!Auditing
    <3> HIDE DEF a
    <3>3. Reports!Deliver(a)
          BY <2>2 DEF a
    <3> QED BY <3>1, <3>2, <3>3, DeliverRefuses
  <2> QED BY <1>4, <2>1, <2>2 DEF Reports!AuditSettled
<1>5. CASE Reports!AskAudit \/ Reports!AuditFails
  <2>1. /\ UNCHANGED <<review, analysis, stage, draft, audit, corrected, reaudit, finalReport>>
        /\ prompt' \in {<<>>, Reports!Reviews}
        BY <1>5 DEF Reports!AskAudit, Reports!AuditFails
  <2>2. Reports!Reviews' = Reports!Reviews
        BY <2>1, ReviewsStay
  <2>3. RefusalInv'
        BY <2>1 DEF RefusalsInv, RefusalInv, Refused, Reports!Passed
  <2>4. SameReviews'
        BY <2>1, <2>2 DEF RefusalsInv, SameReviews
  <2> QED BY <2>3, <2>4
<1>6. CASE Reports!Judge
  <2>1. PICK refused \in SUBSET Reports!Positions(prompt), denied \in SUBSET Reports!Subject.findings,
             remarks \in BOOLEAN : Reports!Deliver(Reports!Outcome(refused, denied, remarks))
        BY <1>6 DEF Reports!Judge
  <2> DEFINE a == Reports!Outcome(refused, denied, remarks)
  <2>2. /\ prompt # <<>>
        /\ \/ stage = "audit"
           \/ stage = "reaudit" /\ ~audit.terminal /\ ~Reports!Passed(audit)
        BY <1>6 DEF Reports!Judge, RefusalsInv, ReportInv, AuditsInv
  <2>3. prompt = Reports!Reviews /\ Reports!Subject.reviews = prompt
        BY <2>2 DEF RefusalsInv, SameReviews, Reports!Subject, Audited, Corrected
  <2>4. ListOf(Reports!Subject.reviews, review, analysis)
        BY DEF RefusalsInv, ReportInv, Reports!Subject
  <2>5. /\ Refused(a) /\ (a.terminal => stage = "reaudit")
        BY <2>3, <2>4, OutcomeRefuses DEF RefusalsInv, ReportInv
  <2>6. a.safe \subseteq Reports!Subject.findings
    <3>1. Grounded(a, Reports!Subject)
          BY <2>4, OutcomeGrounded
    <3> HIDE DEF a
    <3> QED BY <3>1 DEF Grounded
  <2> HIDE DEF a
  <2>7. stage = "reaudit" => audit.again \/ a.safe \cap audit.removed = {}
    <3> SUFFICES ASSUME stage = "reaudit"
                 PROVE  audit.again \/ a.safe \cap audit.removed = {}
        OBVIOUS
    <3>1. audit.again \/ corrected.findings \cap audit.removed = {}
          BY <2>2 DEF RefusalsInv, RefusalInv, Corrected
    <3>2. a.safe \subseteq corrected.findings
          BY <2>6 DEF Reports!Subject
    <3> QED BY <3>1, <3>2
  <2>8. Reports!Deliver(a)
        BY <2>1 DEF a
  <2> QED BY <2>2, <2>5, <2>7, <2>8, DeliverRefuses
<1>7. CASE Reports!Correct
  <2>1. /\ stage = "correct" /\ stage' = "reaudit"
        /\ UNCHANGED <<review, analysis, prompt, draft, audit, reaudit, finalReport>>
        /\ \/ /\ Reports!Passed(audit) \/ audit.terminal \/ audit.again
              /\ corrected' = draft
           \/ /\ corrected' \in Reports!Drafts
              /\ corrected'.findings \cap audit.removed = {}
        BY <1>7 DEF Reports!Correct, Reports!Rewritten
  <2>2. corrected'.reviews = Reports!Reviews /\ Reports!Reviews' = Reports!Reviews
    <3>1. draft.reviews = Reports!Reviews
          BY <2>1 DEF RefusalsInv, SameReviews, Audited
    <3> QED BY <2>1, <3>1, DraftsAre, ReviewsStay DEF RefusalsInv, ReportInv
  <2>3. SameReviews'
        BY <2>1, <2>2 DEF RefusalsInv, SameReviews, Audited, Corrected, Ended
  <2>4. RefusalInv'
        BY <2>1 DEF RefusalsInv, RefusalInv, Refused, Reports!Passed, Audited, Corrected, Ended
  <2> QED BY <2>3, <2>4
<1>8. CASE Reports!Publish
  <2>1. /\ stage = "publish" /\ stage' \in {"published", "rejected"}
        /\ UNCHANGED <<review, analysis, prompt, draft, audit, corrected, reaudit>>
        BY <1>8 DEF Reports!Publish
  <2>2. Reports!Reviews' = Reports!Reviews
        BY <2>1, ReviewsStay
  <2>3. SameReviews'
        BY <2>1, <2>2 DEF RefusalsInv, SameReviews, Audited, Corrected, Ended
  <2>4. RefusalInv'
        BY <2>1 DEF RefusalsInv, RefusalInv, Refused, Reports!Passed, Audited, Corrected, Ended
  <2> QED BY <2>3, <2>4
<1>9. CASE UNCHANGED Reports!vars
  <2>1. UNCHANGED <<review, analysis, stage, prompt, draft, audit, corrected, reaudit>>
        BY <1>9 DEF Reports!vars
  <2>2. Reports!Reviews' = Reports!Reviews
        BY <2>1, ReviewsStay
  <2> QED BY <2>1, <2>2 DEF RefusalsInv, SameReviews, RefusalInv, Refused, Reports!Passed
<1> QED BY <1>1, <1>2, <1>3, <1>4, <1>5, <1>6, <1>7, <1>8, <1>9 DEF Reports!Next

(* While no review is retried after the synthesis began, an auditor has    *)
(* the last word: no claim or finding it refused is published.  With a     *)
(* late retry the positions it refuses are positions in another list (see  *)
(* LateRetry in module Reporting) (audit_report, correct_consensus,        *)
(* _publish_report).                                                       *)
THEOREM RefusalsAreLast ==
    Reports!ReportingAssumption /\ ~LateRetry => (Reports!Spec => []Reports!RefusalsLast)
<1> SUFFICES ASSUME Reports!ReportingAssumption, ~LateRetry
             PROVE  Reports!Spec => []Reports!RefusalsLast
    OBVIOUS
<1>1. Reports!Init => RefusalsInv
  <2> SUFFICES ASSUME Reports!Init
               PROVE  RefusalsInv
      OBVIOUS
  <2>1. ReportInv
        BY ReportInitially
  <2>2. stage = "reviews" /\ prompt = <<>>
        BY DEF Reports!Init
  <2> QED BY <2>1, <2>2 DEF RefusalsInv, SameReviews, RefusalInv, Audited, Corrected, Ended
<1>2. RefusalsInv /\ [Reports!Next]_(Reports!vars) => RefusalsInv'
      BY RefusalsKept
<1>3. RefusalsInv => Reports!RefusalsLast
  <2> SUFFICES ASSUME RefusalsInv, Reports!Published
               PROVE  Reports!RefusalsLast
      BY DEF Reports!RefusalsLast
  <2>1. /\ Reports!Passed(reaudit)
        /\ finalReport.findings = reaudit.safe /\ finalReport.reviews = reaudit.reviews
        BY DEF RefusalsInv, ReportInv, GateInv
  <2>2. Refused(reaudit) /\ (audit.again \/ reaudit.safe \cap audit.removed = {})
        BY <2>1 DEF RefusalsInv, RefusalInv, Reports!Published, Ended
  <2> QED BY <2>1, <2>2 DEF Reports!RefusalsLast, Refused
<1> QED BY <1>1, <1>2, <1>3, PTL DEF Reports!Spec

-----------------------------------------------------------------------------
(* Captions: for as many slots as one lookup takes nodes, any queues and   *)
(* routes, whatever is blocked, evicted or too old.                        *)

CONSTANTS Slots, Videos, QueueOf, Routes, TTL, Lookups, MaxTries
VARIABLES captionClock, cache, nodes, blocked, place, pos, fetches, slotRefused, held, offered

Captions == INSTANCE Captions WITH
    now <- captionClock, tries <- fetches, refused <- slotRefused

(* A slot that has no transcript yet has no node, and what it has fetched  *)
(* is of this moment until it is stored.                                   *)
CaptionRows ==
    /\ captionClock \in Nat
    /\ DOMAIN cache = Videos
    /\ DOMAIN nodes = Slots /\ DOMAIN place = Slots /\ DOMAIN held = Slots
    /\ pos \in [Slots -> Nat \ {0}]
    /\ offered \in [Slots -> SUBSET Videos]
    /\ \A s \in Slots : place[s] # "found" => nodes[s] = Captions!NoNode
    /\ \A s \in Slots : place[s] = "store" =>
           held[s] = [fetched |-> captionClock, claimed |-> captionClock]

(* What a slot was offered is at hand still, and nothing of it is among    *)
(* the videos the slot has passed.                                         *)
OffersStand(s) == \A v \in offered[s] : Captions!Available(v)
PassedNone(s) ==
    /\ place[s] = "idle" => pos[s] = 1
    /\ place[s] \notin {"idle", "next", "unavailable", "blocked"} => pos[s] =< Len(QueueOf[s])
    /\ place[s] \in {"unavailable", "blocked"} => pos[s] > Len(QueueOf[s])
    /\ \A k \in 1..(pos[s] - 1) : QueueOf[s][k] \notin offered[s]
    /\ place[s] = "fetch" => Captions!Video(s) \notin offered[s]

CaptionInv == CaptionRows /\ \A s \in Slots : OffersStand(s) /\ PassedNone(s)

LEMMA EntryIsFresh ==
    ASSUME NEW v \in Videos, NEW e \in Captions!Entry(v)
    PROVE  Captions!Fresh(e)
BY DEF Captions!Entry, Captions!Cached, Captions!Newest, Captions!Reusable

(* Storing a fresh entry and creating a node only add to what is at hand.  *)
LEMMA CacheOnlyAdds ==
    ASSUME DOMAIN cache = Videos,
           UNCHANGED <<captionClock, nodes>>,
           \/ UNCHANGED cache
           \/ \E v \in Videos : \E e : Captions!Fresh(e) /\ cache' = [cache EXCEPT ![v] = e],
           NEW w \in Videos, Captions!Available(w)
    PROVE  Captions!Available(w)'
<1>1. Captions!Reusable(w)' = Captions!Reusable(w)
      BY DEF Captions!Reusable, Captions!Fresh, Captions!AsEntry
<1>2. Captions!Cached(w) => Captions!Cached(w)'
  <2>1. CASE UNCHANGED cache
        BY <2>1 DEF Captions!Cached, Captions!Fresh
  <2>2. ASSUME NEW v \in Videos, NEW e, Captions!Fresh(e), cache' = [cache EXCEPT ![v] = e]
        PROVE  Captions!Cached(w) => Captions!Cached(w)'
    <3>1. cache'[w] = IF w = v THEN e ELSE cache[w]
          BY <2>2
    <3> QED BY <2>2, <3>1 DEF Captions!Cached, Captions!Fresh
  <2> QED BY <2>1, <2>2
<1> QED BY <1>1, <1>2 DEF Captions!Available

LEMMA NodesOnlyAdd ==
    ASSUME UNCHANGED <<captionClock, cache>>,
           \A s \in Slots : nodes[s] # Captions!NoNode => nodes'[s] = nodes[s],
           NEW w \in Videos, Captions!Available(w)
    PROVE  Captions!Available(w)'
<1>1. Captions!Cached(w)' = Captions!Cached(w)
      BY DEF Captions!Cached, Captions!Fresh
<1>2. ASSUME NEW n \in Captions!Reusable(w)
      PROVE  n \in Captions!Reusable(w)'
  <2>1. PICK s \in Slots : n = nodes[s]
        BY DEF Captions!Reusable
  <2>2. n.video = w /\ n.created >= captionClock - TTL /\ Captions!Fresh(Captions!AsEntry(n))
        BY DEF Captions!Reusable
  <2>3. n # Captions!NoNode
        BY <2>2 DEF Captions!Fresh, Captions!AsEntry, Captions!NoNode, Captions!NoEntry
  <2>4. n = nodes'[s]
        BY <2>1, <2>3
  <2>5. Captions!Fresh(Captions!AsEntry(n))'
        BY <2>2, <2>4 DEF Captions!Fresh, Captions!AsEntry
  <2> QED BY <2>2, <2>4, <2>5 DEF Captions!Reusable
<1> QED BY <1>1, <1>2 DEF Captions!Available

LEMMA VideoIs ==
    ASSUME Captions!CaptionAssumption, CaptionRows, NEW s \in Slots, pos[s] =< Len(QueueOf[s])
    PROVE  Captions!Video(s) \in Videos /\ pos[s] \in 1..Len(QueueOf[s])
<1>1. QueueOf[s] \in Seq(Videos) /\ pos[s] \in Nat \ {0}
      BY DEF Captions!CaptionAssumption, CaptionRows
<1>2. pos[s] \in 1..Len(QueueOf[s])
      BY <1>1
<1> QED BY <1>1, <1>2 DEF Captions!Video

(* What the steps of a slot leave at hand.                                 *)
LEMMA SlotStepAdds ==
    ASSUME Captions!CaptionAssumption, CaptionInv, NEW s \in Slots, Captions!SlotStep(s),
           NEW w \in Videos, Captions!Available(w)
    PROVE  Captions!Available(w)'
<1>1. DOMAIN cache = Videos
      BY DEF CaptionInv, CaptionRows
<1>2. PassedNone(s) /\ CaptionRows
      BY DEF CaptionInv
<1> DEFINE Written == \E v \in Videos : \E e : Captions!Fresh(e) /\ cache' = [cache EXCEPT ![v] = e]
<1>3. ASSUME UNCHANGED cache \/ Written, UNCHANGED <<captionClock, nodes>>
      PROVE  Captions!Available(w)'
      BY <1>1, <1>3, CacheOnlyAdds
<1>4. ASSUME pos[s] =< Len(QueueOf[s]),
             \E e \in Captions!Entry(Captions!Video(s)) :
                 cache' = [cache EXCEPT ![Captions!Video(s)] = e]
      PROVE  Written
      BY <1>2, <1>4, VideoIs, EntryIsFresh
<1> HIDE DEF Written
<1>5. CASE Captions!Begin(s) \/ Captions!GiveUp(s) \/ Captions!Fetched(s) \/ Captions!NoTranscript(s)
           \/ Captions!AccessBlocked(s) \/ Captions!ToolFails(s)
      BY <1>3, <1>5 DEF Captions!Begin, Captions!GiveUp, Captions!Fetched, Captions!NoTranscript,
             Captions!AccessBlocked, Captions!ToolFails, Captions!shared
<1>6. CASE Captions!Visit(s)
      BY <1>3, <1>4, <1>6 DEF Captions!Visit, Captions!shared
<1>7. CASE Captions!ReadCache(s)
  <2>1. pos[s] =< Len(QueueOf[s]) /\ UNCHANGED <<captionClock, nodes>>
        BY <1>2, <1>7 DEF Captions!ReadCache, Captions!shared, PassedNone
  <2>2. \/ UNCHANGED cache
        \/ \E e \in Captions!Entry(Captions!Video(s)) :
                 cache' = [cache EXCEPT ![Captions!Video(s)] = e]
        BY <1>7 DEF Captions!ReadCache
  <2> QED BY <1>3, <1>4, <2>1, <2>2
<1>8. CASE Captions!Stamp(s)
  <2>1. pos[s] =< Len(QueueOf[s]) /\ UNCHANGED <<captionClock, nodes>>
        BY <1>2, <1>8 DEF Captions!Stamp, Captions!shared, PassedNone
  <2>2. \/ UNCHANGED cache
        \/ \E e \in Captions!Entry(Captions!Video(s)) :
                 cache' = [cache EXCEPT ![Captions!Video(s)] = e]
        BY <1>8 DEF Captions!Stamp
  <2> QED BY <1>3, <1>4, <2>1, <2>2
<1>9. CASE Captions!Store(s)
  <2>1. /\ pos[s] =< Len(QueueOf[s]) /\ place[s] = "store"
        /\ UNCHANGED <<captionClock, nodes>>
        /\ UNCHANGED cache \/ cache' = [cache EXCEPT ![Captions!Video(s)] = held[s]]
        BY <1>2, <1>9 DEF Captions!Store, Captions!shared, PassedNone
  <2>2. held[s] = [fetched |-> captionClock, claimed |-> captionClock] /\ captionClock \in Nat
        BY <1>2, <2>1 DEF CaptionRows
  <2>3. held[s] # Captions!NoEntry /\ captionClock < held[s].claimed + TTL
    <3>1. TTL \in Nat \ {0}
          BY DEF Captions!CaptionAssumption
    <3>2. held[s].fetched = captionClock /\ held[s].claimed = captionClock
          BY <2>2
    <3>3. Captions!NoEntry.fetched = -1
          BY DEF Captions!NoEntry
    <3>4. held[s] # Captions!NoEntry
          BY <2>2, <3>2, <3>3
    <3> QED BY <2>2, <3>1, <3>2, <3>4
  <2>4. Captions!Fresh(held[s])
        BY <2>3 DEF Captions!Fresh
  <2>5. Captions!Video(s) \in Videos
        BY <1>2, <2>1, VideoIs
  <2>6. UNCHANGED cache \/ Written
        BY <2>1, <2>4, <2>5 DEF Written
  <2> QED BY <1>3, <2>1, <2>6
<1>10. CASE Captions!Create(s)
  <2>1. /\ nodes' = [nodes EXCEPT ![s] =
                        [video |-> Captions!Video(s), fetched |-> held[s].fetched,
                         claimed |-> held[s].claimed, created |-> captionClock]]
        /\ place[s] = "create" /\ UNCHANGED <<captionClock, cache>>
        BY <1>10 DEF Captions!Create
  <2>2. nodes[s] = Captions!NoNode /\ DOMAIN nodes = Slots
        BY <1>2, <2>1 DEF CaptionRows
  <2>3. \A t \in Slots : nodes[t] # Captions!NoNode => nodes'[t] = nodes[t]
    <3>1. \A t \in Slots : t # s => nodes'[t] = nodes[t]
          BY <2>1, <2>2
    <3> QED BY <2>2, <3>1
  <2> QED BY <2>1, <2>3, NodesOnlyAdd
<1> QED BY <1>5, <1>6, <1>7, <1>8, <1>9, <1>10 DEF Captions!SlotStep

(* A step of a slot leaves the others alone, and the slot is not idle      *)
(* again.                                                                  *)
LEMMA SlotStepMoves ==
    ASSUME CaptionInv, NEW s \in Slots, Captions!SlotStep(s)
    PROVE  /\ UNCHANGED captionClock
           /\ DOMAIN cache' = Videos /\ DOMAIN nodes' = Slots
           /\ DOMAIN place' = Slots /\ DOMAIN held' = Slots
           /\ \A t \in Slots \ {s} :
                 /\ place'[t] = place[t] /\ pos'[t] = pos[t] /\ offered'[t] = offered[t]
                 /\ held'[t] = held[t] /\ nodes'[t] = nodes[t]
           /\ place[s] # "found" /\ place'[s] # "idle"
           /\ offered' \in [Slots -> SUBSET Videos]
           /\ \/ pos' = pos
              \/ pos' = [pos EXCEPT ![s] = @ + 1] /\ place'[s] = "next"
           /\ place'[s] = "store" =>
                 held'[s] = [fetched |-> captionClock, claimed |-> captionClock]
           /\ place'[s] = "found" \/ nodes'[s] = nodes[s]
<1>1. /\ DOMAIN cache = Videos
      /\ DOMAIN nodes = Slots /\ DOMAIN place = Slots /\ DOMAIN held = Slots
      /\ pos \in [Slots -> Nat \ {0}] /\ offered \in [Slots -> SUBSET Videos]
      BY DEF CaptionInv, CaptionRows
<1>2. CASE Captions!Begin(s)
  <2>1. {v \in Videos : Captions!Available(v)} \in SUBSET Videos
        OBVIOUS
  <2> DEFINE all == {v \in Videos : Captions!Available(v)}
  <2>2. /\ offered' = [offered EXCEPT ![s] = all]
        /\ place[s] = "idle" /\ place' = [place EXCEPT ![s] = "next"]
        /\ UNCHANGED <<captionClock, nodes, cache, pos, held>>
        BY <1>2 DEF Captions!Begin, Captions!shared, Captions!locals, Captions!Go
  <2> HIDE DEF all
  <2> QED BY <1>1, <2>1, <2>2 DEF all
<1>3. CASE Captions!Visit(s)
  <2>1. /\ place[s] = "next" /\ UNCHANGED <<captionClock, nodes, held, offered>>
        /\ \/ place' = [place EXCEPT ![s] = "next"] /\ pos' = [pos EXCEPT ![s] = @ + 1]
           \/ place' = [place EXCEPT ![s] = "tool"] /\ pos' = pos
        /\ DOMAIN cache' = DOMAIN cache
        BY <1>3 DEF Captions!Visit, Captions!shared, Captions!locals, Captions!Go, Captions!Skip
  <2> QED BY <1>1, <2>1
<1>4. CASE Captions!GiveUp(s)
  <2>1. /\ place[s] = "next" /\ UNCHANGED <<captionClock, nodes, held, offered, cache, pos>>
        /\ \/ place' = [place EXCEPT ![s] = "blocked"]
           \/ place' = [place EXCEPT ![s] = "unavailable"]
        BY <1>4 DEF Captions!GiveUp, Captions!shared, Captions!locals, Captions!Go
  <2> QED BY <1>1, <2>1
<1>5. CASE Captions!ReadCache(s)
  <2>1. /\ place[s] = "tool" /\ UNCHANGED <<captionClock, nodes, offered, pos>>
        /\ \/ place' = [place EXCEPT ![s] = "stamp"]
           \/ place' = [place EXCEPT ![s] = "fetch"]
        /\ DOMAIN cache' = DOMAIN cache
        /\ held' = held \/ \E e : held' = [held EXCEPT ![s] = e]
        BY <1>5 DEF Captions!ReadCache, Captions!shared, Captions!Go
  <2> QED BY <1>1, <2>1
<1>6. CASE Captions!Fetched(s)
  <2>1. /\ place[s] = "fetch" /\ UNCHANGED <<captionClock, nodes, offered, pos, cache>>
        /\ place' = [place EXCEPT ![s] = "store"]
        /\ held' = [held EXCEPT ![s] = [fetched |-> captionClock, claimed |-> captionClock]]
        BY <1>6 DEF Captions!Fetched, Captions!Go
  <2> QED BY <1>1, <2>1
<1>7. CASE Captions!NoTranscript(s)
  <2>1. /\ place[s] = "fetch" /\ UNCHANGED <<captionClock, nodes, held, offered, cache>>
        /\ \/ place' = [place EXCEPT ![s] = "next"] /\ pos' = [pos EXCEPT ![s] = @ + 1]
           \/ place' = place /\ pos' = pos
        BY <1>7 DEF Captions!NoTranscript, Captions!shared, Captions!Go, Captions!Skip
  <2> QED BY <1>1, <2>1
<1>8. CASE Captions!AccessBlocked(s)
  <2>1. /\ place[s] = "fetch" /\ UNCHANGED <<captionClock, nodes, held, offered, cache>>
        /\ place' = [place EXCEPT ![s] = "next"] /\ pos' = [pos EXCEPT ![s] = @ + 1]
        BY <1>8 DEF Captions!AccessBlocked, Captions!Go, Captions!Skip
  <2> QED BY <1>1, <2>1
<1>9. CASE Captions!ToolFails(s)
  <2>1. /\ place[s] \in {"tool", "fetch"}
        /\ UNCHANGED <<captionClock, nodes, held, offered, cache, pos>>
        /\ place' = [place EXCEPT ![s] = "failed"]
        BY <1>9 DEF Captions!ToolFails, Captions!shared, Captions!Go
  <2> QED BY <1>1, <2>1
<1>10. CASE Captions!Store(s)
  <2>1. /\ place[s] = "store" /\ UNCHANGED <<captionClock, nodes, held, offered, pos>>
        /\ place' = [place EXCEPT ![s] = "stamp"]
        /\ DOMAIN cache' = DOMAIN cache
        BY <1>10 DEF Captions!Store, Captions!shared, Captions!locals, Captions!Go
  <2> QED BY <1>1, <2>1
<1>11. CASE Captions!Stamp(s)
  <2>1. /\ place[s] = "stamp" /\ UNCHANGED <<captionClock, nodes, offered, pos>>
        /\ place' = [place EXCEPT ![s] = "create"]
        /\ DOMAIN cache' = DOMAIN cache
        /\ \E e : held' = [held EXCEPT ![s] = e]
        BY <1>11 DEF Captions!Stamp, Captions!shared, Captions!Go
  <2> QED BY <1>1, <2>1
<1>12. CASE Captions!Create(s)
  <2>1. /\ place[s] = "create" /\ UNCHANGED <<captionClock, cache, offered, pos>>
        /\ place' = [place EXCEPT ![s] = "found"]
        /\ \E n : nodes' = [nodes EXCEPT ![s] = n]
        /\ \E e : held' = [held EXCEPT ![s] = e]
        BY <1>12 DEF Captions!Create, Captions!Go
  <2> QED BY <1>1, <2>1
<1> QED BY <1>2, <1>3, <1>4, <1>5, <1>6, <1>7, <1>8, <1>9, <1>10, <1>11, <1>12
    DEF Captions!SlotStep

(* A slot that passes over a video was not offered it.                     *)
LEMMA SlotStepPasses ==
    ASSUME Captions!CaptionAssumption, CaptionInv, NEW s \in Slots, Captions!SlotStep(s)
    PROVE  PassedNone(s)'
<1>1. /\ PassedNone(s) /\ CaptionRows /\ OffersStand(s)
      /\ DOMAIN place = Slots /\ pos \in [Slots -> Nat \ {0}]
      /\ offered \in [Slots -> SUBSET Videos]
      /\ pos[s] \in Nat \ {0}
      BY DEF CaptionInv, CaptionRows
<1>2. Len(QueueOf[s]) \in Nat
      BY DEF Captions!CaptionAssumption
<1>3. CASE Captions!Begin(s)
  <2>1. pos'[s] = 1 /\ place'[s] = "next"
        BY <1>1, <1>3 DEF Captions!Begin, Captions!Go, PassedNone
  <2> QED BY <2>1 DEF PassedNone
\* The slot stays at its video.
<1>4. ASSUME pos' = pos, offered' = offered,
             place'[s] \notin {"idle", "unavailable", "blocked"},
             place'[s] # "next" => pos[s] =< Len(QueueOf[s]),
             place'[s] = "fetch" => Captions!Video(s) \notin offered[s]
      PROVE  PassedNone(s)'
      BY <1>1, <1>4 DEF PassedNone, Captions!Video
\* It goes on to the next one.
<1>5. ASSUME pos' = [pos EXCEPT ![s] = @ + 1], offered' = offered, place'[s] = "next",
             Captions!Video(s) \notin offered[s]
      PROVE  PassedNone(s)'
  <2>1. pos'[s] = pos[s] + 1
        BY <1>1, <1>5
  <2>2. \A k \in 1..(pos'[s] - 1) : k = pos[s] \/ k \in 1..(pos[s] - 1)
        BY <1>1, <2>1
  <2>3. \A k \in 1..(pos'[s] - 1) : QueueOf[s][k] \notin offered'[s]
        BY <1>1, <1>5, <2>2 DEF PassedNone, Captions!Video
  <2> QED BY <1>5, <2>3 DEF PassedNone
<1>6. ~Captions!Available(Captions!Video(s)) => Captions!Video(s) \notin offered[s]
      BY <1>1 DEF OffersStand
<1>7. CASE Captions!Visit(s)
  <2>1. /\ pos[s] =< Len(QueueOf[s]) /\ offered' = offered
        /\ \/ /\ ~Captions!Available(Captions!Video(s))
              /\ place' = [place EXCEPT ![s] = "next"] /\ pos' = [pos EXCEPT ![s] = @ + 1]
           \/ place' = [place EXCEPT ![s] = "tool"] /\ pos' = pos
        BY <1>7 DEF Captions!Visit, Captions!Go, Captions!Skip
  <2> QED BY <1>1, <1>4, <1>5, <1>6, <2>1
<1>8. CASE Captions!GiveUp(s)
  <2>1. /\ pos[s] > Len(QueueOf[s]) /\ offered' = offered /\ pos' = pos
        /\ \/ place' = [place EXCEPT ![s] = "blocked"]
           \/ place' = [place EXCEPT ![s] = "unavailable"]
        BY <1>8 DEF Captions!GiveUp, Captions!Go
  <2> QED BY <1>1, <2>1 DEF PassedNone
<1>9. CASE Captions!ReadCache(s)
  <2>1. /\ pos' = pos /\ offered' = offered /\ place[s] = "tool"
        /\ \/ place' = [place EXCEPT ![s] = "stamp"]
           \/ /\ place' = [place EXCEPT ![s] = "fetch"]
              /\ ~Captions!Available(Captions!Video(s))
        BY <1>9 DEF Captions!ReadCache, Captions!Go
  <2>2. pos[s] =< Len(QueueOf[s])
        BY <1>1, <2>1 DEF PassedNone
  <2> QED BY <1>1, <1>4, <1>6, <2>1, <2>2
<1>10. CASE Captions!Fetched(s) \/ Captions!ToolFails(s) \/ Captions!Store(s)
            \/ Captions!Stamp(s) \/ Captions!Create(s)
  <2>1. /\ pos' = pos /\ offered' = offered
        /\ place[s] \in {"tool", "fetch", "store", "stamp", "create"}
        /\ \E p \in {"store", "failed", "stamp", "create", "found"} :
               place' = [place EXCEPT ![s] = p]
        BY <1>10 DEF Captions!Fetched, Captions!ToolFails, Captions!Store, Captions!Stamp,
               Captions!Create, Captions!Go, Captions!locals
  <2>2. pos[s] =< Len(QueueOf[s])
        BY <1>1, <2>1 DEF PassedNone
  <2>3. place'[s] \in {"store", "failed", "stamp", "create", "found"}
        BY <1>1, <2>1
  <2> QED BY <1>4, <2>1, <2>2, <2>3
<1>11. CASE Captions!NoTranscript(s) \/ Captions!AccessBlocked(s)
  <2>1. /\ place[s] = "fetch" /\ offered' = offered
        /\ \/ place' = [place EXCEPT ![s] = "next"] /\ pos' = [pos EXCEPT ![s] = @ + 1]
           \/ place' = place /\ pos' = pos
        BY <1>11 DEF Captions!NoTranscript, Captions!AccessBlocked, Captions!Go, Captions!Skip
  <2>2. pos[s] =< Len(QueueOf[s]) /\ Captions!Video(s) \notin offered[s]
        BY <1>1, <2>1 DEF PassedNone
  <2> QED BY <1>1, <1>4, <1>5, <2>1, <2>2
<1> QED BY <1>3, <1>7, <1>8, <1>9, <1>10, <1>11 DEF Captions!SlotStep

LEMMA CaptionKept ==
    ASSUME Captions!CaptionAssumption, CaptionInv, [Captions!Next]_(Captions!vars)
    PROVE  CaptionInv'
<1>1. CaptionRows /\ \A s \in Slots : OffersStand(s) /\ PassedNone(s)
      BY DEF CaptionInv
<1>2. /\ offered \in [Slots -> SUBSET Videos] /\ pos \in [Slots -> Nat \ {0}]
      /\ \A t \in Slots : offered[t] \in SUBSET Videos
      BY <1>1 DEF CaptionRows
<1>3. ASSUME NEW s \in Slots, Captions!SlotStep(s)
      PROVE  CaptionInv'
  <2>1. /\ UNCHANGED captionClock
        /\ DOMAIN cache' = Videos /\ DOMAIN nodes' = Slots
        /\ DOMAIN place' = Slots /\ DOMAIN held' = Slots
        /\ \A t \in Slots \ {s} :
              /\ place'[t] = place[t] /\ pos'[t] = pos[t] /\ offered'[t] = offered[t]
              /\ held'[t] = held[t] /\ nodes'[t] = nodes[t]
        /\ place[s] # "found" /\ place'[s] # "idle"
        /\ offered' \in [Slots -> SUBSET Videos]
        /\ \/ pos' = pos
           \/ pos' = [pos EXCEPT ![s] = @ + 1] /\ place'[s] = "next"
        /\ place'[s] = "store" =>
              held'[s] = [fetched |-> captionClock, claimed |-> captionClock]
        /\ place'[s] = "found" \/ nodes'[s] = nodes[s]
        BY <1>3, SlotStepMoves
  <2>2. pos' \in [Slots -> Nat \ {0}]
        BY <1>2, <2>1
  <2>3. ASSUME NEW t \in Slots
        PROVE  /\ place'[t] # "found" => nodes'[t] = Captions!NoNode
               /\ place'[t] = "store" =>
                     held'[t] = [fetched |-> captionClock', claimed |-> captionClock']
        BY <1>1, <2>1 DEF CaptionRows
  <2>4. CaptionRows'
    <3>1. Captions!NoNode' = Captions!NoNode
          BY DEF Captions!NoNode
    <3> QED BY <1>1, <2>1, <2>2, <2>3, <3>1 DEF CaptionRows
  <2>5. ASSUME NEW t \in Slots, NEW v \in offered'[t]
        PROVE  v \in Videos /\ Captions!Available(v)
    <3>1. CASE offered'[t] = offered[t]
          BY <1>1, <1>2, <2>5, <3>1 DEF OffersStand
    <3>2. CASE Captions!Begin(s) /\ t = s
          BY <1>2, <2>5, <3>2 DEF Captions!Begin
    <3>3. t = s /\ ~Captions!Begin(s) => offered' = offered
          BY <1>3 DEF Captions!SlotStep, Captions!Visit, Captions!GiveUp, Captions!ReadCache,
                 Captions!Fetched, Captions!NoTranscript, Captions!AccessBlocked,
                 Captions!ToolFails, Captions!Store, Captions!Stamp, Captions!Create
    <3> QED BY <2>1, <3>1, <3>2, <3>3
  <2>6. \A t \in Slots : OffersStand(t)'
        BY <1>3, <2>5, SlotStepAdds DEF OffersStand
  <2>7. ASSUME NEW t \in Slots \ {s}
        PROVE  PassedNone(t)'
    <3>1. place'[t] = place[t] /\ pos'[t] = pos[t] /\ offered'[t] = offered[t]
          BY <2>1
    <3>2. PassedNone(t)
          BY <1>1
    <3> QED BY <3>1, <3>2 DEF PassedNone, Captions!Video
  <2>8. PassedNone(s)'
        BY <1>3, SlotStepPasses
  <2> QED BY <2>4, <2>6, <2>7, <2>8 DEF CaptionInv
\* What time and Redis take away is no longer offered.
<1>4. ASSUME UNCHANGED <<nodes, place, pos, held>>, DOMAIN cache' = Videos,
             captionClock' \in Nat,
             captionClock' = captionClock \/ \A s \in Slots : ~Captions!JustFetched(s),
             Captions!StillOffered
      PROVE  CaptionInv'
  <2>1. offered' = [s \in Slots |-> {v \in offered[s] : Captions!Available(v)'}]
        BY <1>4 DEF Captions!StillOffered
  <2>2. \A s \in Slots : offered'[s] = {v \in offered[s] : Captions!Available(v)'}
        BY <2>1
  <2>3. \A s \in Slots : offered'[s] \in SUBSET offered[s] /\ OffersStand(s)'
        BY <2>2 DEF OffersStand
  <2>4. offered' \in [Slots -> SUBSET Videos]
        BY <1>2, <2>1
  <2>5. ASSUME NEW s \in Slots, place[s] = "store"
        PROVE  captionClock' = captionClock
    <3>1. held[s] = [fetched |-> captionClock, claimed |-> captionClock]
          BY <1>1, <2>5 DEF CaptionRows
    <3>2. Captions!JustFetched(s)
          BY <2>5, <3>1 DEF Captions!JustFetched
    <3> QED BY <1>4, <3>2
  <2>6. CaptionRows'
    <3>1. \A s \in Slots : place[s] = "store" =>
              held[s] = [fetched |-> captionClock', claimed |-> captionClock']
          BY <1>1, <2>5 DEF CaptionRows
    <3>2. Captions!NoNode' = Captions!NoNode
          BY DEF Captions!NoNode
    <3> QED BY <1>1, <1>4, <2>4, <3>1, <3>2 DEF CaptionRows
  <2>7. \A s \in Slots : PassedNone(s)'
    <3> SUFFICES ASSUME NEW s \in Slots
                 PROVE  PassedNone(s)'
        OBVIOUS
    <3>1. PassedNone(s) /\ place' = place /\ pos' = pos /\ offered'[s] \subseteq offered[s]
          BY <1>1, <1>4, <2>3
    <3> QED BY <3>1 DEF PassedNone, Captions!Video
  <2> QED BY <2>3, <2>6, <2>7 DEF CaptionInv
<1>5. ASSUME NEW r \in Routes, Captions!RouteReopens(r)
      PROVE  CaptionInv'
  <2>1. UNCHANGED <<captionClock, cache, nodes, place, pos, fetches, slotRefused, held, offered>>
        BY <1>5 DEF Captions!RouteReopens, Captions!locals
  <2> QED BY <2>1 DEF CaptionInv, CaptionRows, OffersStand, PassedNone, Captions!Available,
         Captions!Cached, Captions!Reusable, Captions!Fresh, Captions!AsEntry, Captions!Video
<1>6. ASSUME NEW v \in Videos, Captions!Evict(v)
      PROVE  CaptionInv'
  <2>1. /\ UNCHANGED <<captionClock, nodes, place, pos, held>> /\ Captions!StillOffered
        /\ DOMAIN cache' = DOMAIN cache
        BY <1>6 DEF Captions!Evict, Captions!locals
  <2> QED BY <1>1, <1>4, <2>1 DEF CaptionRows
<1>7. CASE Captions!Tick
  <2>1. /\ UNCHANGED <<cache, nodes, place, pos, held>> /\ Captions!StillOffered
        /\ captionClock' = captionClock + 1
        /\ \A s \in Slots : ~Captions!JustFetched(s)
        BY <1>7 DEF Captions!Tick, Captions!locals
  <2> QED BY <1>1, <1>4, <2>1 DEF CaptionRows
<1>8. CASE UNCHANGED Captions!vars
  <2>1. UNCHANGED <<captionClock, cache, nodes, place, pos, fetches, slotRefused, held, offered>>
        BY <1>8 DEF Captions!vars
  <2> QED BY <2>1 DEF CaptionInv, CaptionRows, OffersStand, PassedNone, Captions!Available,
         Captions!Cached, Captions!Reusable, Captions!Fresh, Captions!AsEntry, Captions!Video
<1> QED BY <1>3, <1>5, <1>6, <1>7, <1>8 DEF Captions!Next

(* No slot ends without a transcript while a video of its queue has had a  *)
(* caption at hand from the start, whichever routes are blocked, for as    *)
(* many slots that share the cache as one lookup takes nodes               *)
(* (_fetch_transcript, available_caption).                                 *)
THEOREM CoverageIsKept ==
    Captions!CaptionAssumption => (Captions!Spec => []Captions!CoverageKept)
<1> SUFFICES ASSUME Captions!CaptionAssumption
             PROVE  Captions!Spec => []Captions!CoverageKept
    OBVIOUS
<1>1. Captions!Init => CaptionInv
  <2> SUFFICES ASSUME Captions!Init
               PROVE  CaptionInv
      OBVIOUS
  <2>1. CaptionRows
        BY DEF Captions!Init, CaptionRows
  <2>2. \A s \in Slots : offered[s] = {} /\ place[s] = "idle" /\ pos[s] = 1
        BY DEF Captions!Init
  <2> QED BY <2>1, <2>2 DEF CaptionInv, OffersStand, PassedNone
<1>2. CaptionInv /\ [Captions!Next]_(Captions!vars) => CaptionInv'
      BY CaptionKept
<1>3. CaptionInv => Captions!CoverageKept
  <2> SUFFICES ASSUME CaptionInv, NEW s \in Slots, place[s] \in {"unavailable", "blocked"},
                      NEW v \in offered[s], v \in Captions!Elements(QueueOf[s])
               PROVE  FALSE
      BY DEF Captions!CoverageKept
  <2>1. /\ pos[s] > Len(QueueOf[s])
        /\ \A k \in 1..(pos[s] - 1) : QueueOf[s][k] \notin offered[s]
        BY DEF CaptionInv, PassedNone
  <2>2. pos[s] \in Nat /\ QueueOf[s] \in Seq(Videos)
        BY DEF CaptionInv, CaptionRows, Captions!CaptionAssumption
  <2>3. PICK k \in 1..Len(QueueOf[s]) : v = QueueOf[s][k]
        BY <2>2 DEF Captions!Elements
  <2>4. k \in 1..(pos[s] - 1)
        BY <2>1, <2>2
  <2> QED BY <2>1, <2>3, <2>4
<1> QED BY <1>1, <1>2, <1>3, PTL DEF Captions!Spec

-----------------------------------------------------------------------------
(* Discovery: for any videos and products, whatever searches, rankings and *)
(* curations return, and for any number of slots.                          *)

CONSTANTS Products, Asked, Irrelevant, Unfit, Alike, Answers, Searches, Cap, SlotCount
VARIABLES slotStage, searches, hits, candidates, excluded, product, curation, cached, queues

Discovery == INSTANCE Discovery WITH place <- slotStage, Slots <- SlotCount

LEMMA Multiples ==
    ASSUME NEW x \in Int, NEW y \in Int, NEW n \in Nat, x < y
    PROVE  x * n + n =< y * n
<1>1. (y - x - 1) * n >= 0
      BY SMT
<1>2. (y - x - 1) * n = y * n - x * n - n
      BY SMT
<1> QED BY <1>1, <1>2, SMT

LEMMA Division ==
    ASSUME NEW a \in Nat, NEW n \in Nat \ {0}
    PROVE  /\ a \div n \in Nat /\ a % n \in 0..(n - 1)
           /\ a = (a \div n) * n + (a % n)
BY SMT

LEMMA Quotient ==
    ASSUME NEW a \in Nat, NEW n \in Nat \ {0}, NEW k \in Int
    PROVE  k =< a \div n <=> k * n =< a
<1> DEFINE q == a \div n
           r == a % n
<1>1. q \in Nat /\ r \in 0..(n - 1) /\ a = q * n + r
      BY Division
<1> HIDE DEF q, r
<1>2. CASE k =< q
  <2>1. k * n =< q * n
    <3>1. CASE k = q
          BY <1>1, <3>1
    <3>2. CASE k < q
      <4>1. k * n + n =< q * n
            BY <1>1, <3>2, Multiples
      <4> QED BY <1>1, <4>1
    <3> QED BY <1>1, <1>2, <3>1, <3>2
  <2>2. k * n \in Int /\ q * n \in Int
        BY <1>1
  <2> QED BY <1>1, <1>2, <2>1, <2>2
<1>3. CASE ~(k =< q)
  <2>1. q * n + n =< k * n
        BY <1>1, <1>3, Multiples
  <2>2. k * n \in Int /\ q * n \in Int
        BY <1>1
  <2> QED BY <1>1, <1>3, <2>1, <2>2
<1> QED BY <1>2, <1>3 DEF q

(* The place of an element of a queue in the order it is dealt from.       *)
LEMMA Dealt ==
    ASSUME SlotCount \in Nat \ {0}, NEW L \in Nat, NEW slot \in 1..SlotCount, NEW k \in Nat \ {0}
    PROVE  /\ (L + SlotCount - slot) \div SlotCount \in Nat
           /\ k \in 1..((L + SlotCount - slot) \div SlotCount) <=>
                  slot + (k - 1) * SlotCount \in 1..L
<1> DEFINE a == L + SlotCount - slot
<1>1. a \in Nat /\ a = L + SlotCount - slot
      OBVIOUS
<1> HIDE DEF a
<1>2. a \div SlotCount \in Nat /\ (k =< a \div SlotCount <=> k * SlotCount =< a)
      BY <1>1, Quotient, Division
<1>3. (k - 1) * SlotCount = k * SlotCount - SlotCount /\ k * SlotCount \in Nat /\ (k - 1) * SlotCount \in Nat
      BY SMT
<1>4. k * SlotCount =< a <=> slot + (k - 1) * SlotCount =< L
      BY <1>1, <1>3
<1>5. slot + (k - 1) * SlotCount >= 1
      BY <1>3
<1>6. slot + (k - 1) * SlotCount \in 1..L <=> slot + (k - 1) * SlotCount =< L
      BY <1>3, <1>5
<1>7. k \in 1..(a \div SlotCount) <=> k =< a \div SlotCount
      BY <1>2
<1> QED BY <1>2, <1>4, <1>6, <1>7 DEF a

(* Each place of the order is dealt to one queue ...                       *)
LEMMA DealtOnce ==
    ASSUME SlotCount \in Nat \ {0}, NEW s \in 1..SlotCount, NEW t \in 1..SlotCount,
           NEW k \in Nat \ {0}, NEW l \in Nat \ {0},
           s + (k - 1) * SlotCount = t + (l - 1) * SlotCount
    PROVE  s = t
<1>1. (k - 1) * SlotCount \in Int /\ (l - 1) * SlotCount \in Int
      OBVIOUS
<1>2. CASE k < l
  <2>1. (k - 1) * SlotCount + SlotCount =< (l - 1) * SlotCount
        BY <1>2, Multiples
  <2> QED BY <1>1, <2>1
<1>3. CASE l < k
  <2>1. (l - 1) * SlotCount + SlotCount =< (k - 1) * SlotCount
        BY <1>3, Multiples
  <2> QED BY <1>1, <2>1
<1>4. CASE k = l
      BY <1>1, <1>4
<1> QED BY <1>2, <1>3, <1>4

(* ... and to some queue; the first places each to the head of one.        *)
LEMMA DealtSomewhere ==
    ASSUME SlotCount \in Nat \ {0}, NEW L \in Nat, NEW i \in 1..L
    PROVE  \E s \in 1..SlotCount, k \in Nat \ {0} :
               i = s + (k - 1) * SlotCount /\ k \in 1..((L + SlotCount - s) \div SlotCount)
<1> DEFINE a == i - 1
           q == a \div SlotCount
           r == a % SlotCount
<1>0. a \in Nat /\ i = a + 1
      OBVIOUS
<1> HIDE DEF a
<1>1. q \in Nat /\ r \in 0..(SlotCount - 1) /\ a = q * SlotCount + r
      BY <1>0, Division
<1> HIDE DEF q, r
<1>2. r + 1 \in 1..SlotCount /\ q + 1 \in Nat \ {0} /\ (q + 1) - 1 = q
      BY <1>1
<1>3. q * SlotCount \in Int
      BY <1>1
<1>4. i = (r + 1) + ((q + 1) - 1) * SlotCount
      BY <1>0, <1>1, <1>2, <1>3
<1>5. q + 1 \in 1..((L + SlotCount - (r + 1)) \div SlotCount)
      BY <1>2, <1>4, Dealt
<1> QED BY <1>2, <1>4, <1>5

LEMMA DealtEvenly ==
    ASSUME SlotCount \in Nat \ {0}, NEW L \in Nat, NEW s \in 1..SlotCount, NEW t \in 1..SlotCount
    PROVE  (L + SlotCount - s) \div SlotCount =< ((L + SlotCount - t) \div SlotCount) + 1
<1> DEFINE a == L + SlotCount - s
           b == L + SlotCount - t
           k == a \div SlotCount
           l == b \div SlotCount
<1>1. a \in Nat /\ b \in Nat /\ a < b + SlotCount
      OBVIOUS
<1> HIDE DEF a, b
<1>2. k \in Nat /\ l \in Nat /\ k * SlotCount =< a /\ ~((l + 1) * SlotCount =< b)
  <2>1. k \in Nat /\ l \in Nat
        BY <1>1, Division
  <2>2. k =< a \div SlotCount <=> k * SlotCount =< a
        BY <1>1, <2>1, Quotient
  <2>3. l + 1 =< b \div SlotCount <=> (l + 1) * SlotCount =< b
        BY <1>1, <2>1, Quotient
  <2>4. k =< a \div SlotCount /\ ~(l + 1 =< b \div SlotCount)
        BY <2>1
  <2> QED BY <2>1, <2>2, <2>3, <2>4
<1> HIDE DEF k, l
<1>3. ASSUME ~(k =< l + 1)
      PROVE  FALSE
  <2>1. (l + 1) * SlotCount + SlotCount =< k * SlotCount
        BY <1>2, <1>3, Multiples
  <2>2. (l + 1) * SlotCount \in Int /\ k * SlotCount \in Int
        BY <1>2
  <2> QED BY <1>1, <1>2, <2>1, <2>2
<1> QED BY <1>3 DEF a, b, k, l

(* The queues dealt from an order.                                         *)
LEMMA QueuesAre ==
    ASSUME SlotCount \in Nat \ {0}, NEW T, NEW order \in Seq(T),
           \A i, j \in 1..Len(order) : order[i] = order[j] => i = j,
           queues = [slot \in 1..SlotCount |-> Discovery!SlotQueue(order, slot)]
    PROVE  /\ \A s, t \in DOMAIN queues : s # t =>
                  Discovery!ToSet(queues[s]) \cap Discovery!ToSet(queues[t]) = {}
           /\ Discovery!Queued = {order[i] : i \in 1..Len(order)}
           /\ \A s, t \in DOMAIN queues : Len(queues[s]) =< Len(queues[t]) + 1
           /\ Discovery!First = {order[i] : i \in {i \in 1..Len(order) : i =< SlotCount}}
<1> DEFINE L == Len(order)
           size(s) == (L + SlotCount - s) \div SlotCount
           at(s, k) == s + (k - 1) * SlotCount
<1>1. L \in Nat
      OBVIOUS
<1>2. ASSUME NEW s \in 1..SlotCount
      PROVE  /\ queues[s] = [k \in 1..size(s) |-> order[at(s, k)]]
             /\ size(s) \in Nat
             /\ \A k \in Nat \ {0} : k \in 1..size(s) <=> at(s, k) \in 1..L
  <2>1. queues[s] = Discovery!SlotQueue(order, s)
        OBVIOUS
  <2>2. queues[s] = [k \in 1..size(s) |-> order[at(s, k)]]
        BY <2>1 DEF Discovery!SlotQueue
  <2>3. 1 \in Nat \ {0}
        OBVIOUS
  <2> HIDE DEF L
  <2> QED BY <1>1, <2>2, <2>3, Dealt
<1>3. DOMAIN queues = 1..SlotCount
      OBVIOUS
<1>4. \A s, t \in 1..SlotCount, k, l \in Nat \ {0} : at(s, k) = at(t, l) => s = t
      BY DealtOnce
<1>5. \A i \in 1..L : \E s \in 1..SlotCount, k \in Nat \ {0} : i = at(s, k) /\ k \in 1..size(s)
  <2> HIDE DEF L
  <2> QED BY <1>1, DealtSomewhere
<1>6. \A s, t \in 1..SlotCount : size(s) =< size(t) + 1
  <2> HIDE DEF L
  <2> QED BY <1>1, DealtEvenly
<1>7. \A s \in 1..SlotCount : at(s, 1) = s
      OBVIOUS
<1> HIDE DEF size, at
<1>8. \A s \in 1..SlotCount : /\ DOMAIN queues[s] = 1..size(s) /\ Len(queues[s]) = size(s)
                          /\ \A k \in 1..size(s) : queues[s][k] = order[at(s, k)]
                                /\ at(s, k) \in 1..L /\ k \in Nat \ {0}
  <2> SUFFICES ASSUME NEW s \in 1..SlotCount
               PROVE  /\ DOMAIN queues[s] = 1..size(s) /\ Len(queues[s]) = size(s)
                      /\ \A k \in 1..size(s) : queues[s][k] = order[at(s, k)]
                            /\ at(s, k) \in 1..L /\ k \in Nat \ {0}
      OBVIOUS
  <2>1. \A k \in 1..size(s) : k \in Nat \ {0}
        BY <1>2
  <2> QED BY <1>2, <2>1
<1>9. ASSUME NEW s \in DOMAIN queues, NEW t \in DOMAIN queues, s # t,
             NEW v \in Discovery!ToSet(queues[s]), v \in Discovery!ToSet(queues[t])
      PROVE  FALSE
  <2>1. PICK k \in 1..size(s) : v = queues[s][k]
        BY <1>3, <1>8 DEF Discovery!ToSet
  <2>2. PICK l \in 1..size(t) : v = queues[t][l]
        BY <1>3, <1>8, <1>9 DEF Discovery!ToSet
  <2>3. order[at(s, k)] = order[at(t, l)] /\ at(s, k) \in 1..L /\ at(t, l) \in 1..L
        BY <1>3, <1>8, <2>1, <2>2
  <2>4. at(s, k) = at(t, l) /\ k \in Nat \ {0} /\ l \in Nat \ {0}
        BY <1>3, <1>8, <2>3
  <2> QED BY <1>3, <1>4, <1>9, <2>4
<1>10. Discovery!Queued = {order[i] : i \in 1..L}
  <2>1. ASSUME NEW v \in Discovery!Queued
        PROVE  \E i \in 1..L : v = order[i]
    <3>1. PICK s \in 1..SlotCount : v \in Discovery!ToSet(queues[s])
          BY <1>3 DEF Discovery!Queued
    <3>2. PICK k \in 1..size(s) : v = queues[s][k]
          BY <1>8, <3>1 DEF Discovery!ToSet
    <3> QED BY <1>8, <3>2
  <2>2. ASSUME NEW i \in 1..L
        PROVE  order[i] \in Discovery!Queued
    <3>1. PICK s \in 1..SlotCount, k \in Nat \ {0} : i = at(s, k) /\ k \in 1..size(s)
          BY <1>5
    <3>2. queues[s][k] = order[i] /\ k \in DOMAIN queues[s]
          BY <1>8, <3>1
    <3>3. order[i] \in Discovery!ToSet(queues[s])
          BY <3>2 DEF Discovery!ToSet
    <3> QED BY <1>3, <3>3 DEF Discovery!Queued
  <2> QED BY <2>1, <2>2
<1>11. \A s, t \in DOMAIN queues : Len(queues[s]) =< Len(queues[t]) + 1
      BY <1>3, <1>6, <1>8
<1>12. \A s \in 1..SlotCount : (queues[s] # <<>> <=> s =< L) /\ (s =< L => Head(queues[s]) = order[s])
  <2> SUFFICES ASSUME NEW s \in 1..SlotCount
               PROVE  (queues[s] # <<>> <=> s =< L) /\ (s =< L => Head(queues[s]) = order[s])
      OBVIOUS
  <2>1. /\ queues[s] = [k \in 1..size(s) |-> order[at(s, k)]] /\ size(s) \in Nat
        /\ 1 \in 1..size(s) <=> s \in 1..L
    <3>1. 1 \in Nat \ {0} /\ at(s, 1) = s
          BY <1>7
    <3> QED BY <1>2, <3>1
  <2>2. s \in 1..L <=> s =< L
        BY <1>1
  <2>3. CASE s =< L
    <3>1. 1 \in 1..size(s)
          BY <2>1, <2>2, <2>3
    <3>2. Len(queues[s]) >= 1 /\ queues[s][1] = order[s]
          BY <1>7, <1>8, <2>1, <3>1
    <3>3. queues[s] # <<>>
          BY <3>2
    <3>4. Head(queues[s]) = queues[s][1]
      <4>1. \A k \in 1..size(s) : order[at(s, k)] \in T
            BY <1>8
      <4>2. queues[s] \in Seq(T)
            BY <2>1, <4>1
      <4> QED BY <3>3, <4>2
    <3> QED BY <2>3, <3>2, <3>3, <3>4
  <2>4. CASE ~(s =< L)
    <3>1. size(s) = 0
          BY <2>1, <2>2, <2>4
    <3>2. queues[s] = <<>>
          BY <2>1, <3>1
    <3> QED BY <2>4, <3>2
  <2> QED BY <2>3, <2>4
<1>13. Discovery!First = {order[i] : i \in {i \in 1..L : i =< SlotCount}}
  <2>1. \A s : s \in {i \in 1..L : i =< SlotCount} <=> s \in 1..SlotCount /\ s =< L
        BY <1>1
  <2>2. Discovery!First = {Head(queues[s]) : s \in {s \in 1..SlotCount : queues[s] # <<>>}}
        BY <1>3 DEF Discovery!First
  <2>3. {s \in 1..SlotCount : queues[s] # <<>>} = {i \in 1..L : i =< SlotCount}
        BY <1>12, <2>1
  <2>4. \A s \in {i \in 1..L : i =< SlotCount} : Head(queues[s]) = order[s]
        BY <1>12, <2>1
  <2> DEFINE B == {i \in 1..L : i =< SlotCount}
  <2>5. Discovery!First = {Head(queues[s]) : s \in B} /\ \A s \in B : Head(queues[s]) = order[s]
        BY <2>2, <2>3, <2>4
  <2> HIDE DEF B
  <2>6. {Head(queues[s]) : s \in B} = {order[s] : s \in B}
    <3>1. ASSUME NEW s \in B
          PROVE  Head(queues[s]) = order[s]
          BY <2>5
    <3> DEFINE H == {Head(queues[s]) : s \in B}
               O == {order[s] : s \in B}
    <3>2. ASSUME NEW x \in H
          PROVE  x \in O
      <4>1. PICK s \in B : x = Head(queues[s])
            OBVIOUS
      <4> QED BY <3>1, <4>1
    <3>3. ASSUME NEW x \in O
          PROVE  x \in H
      <4>1. PICK s \in B : x = order[s]
            OBVIOUS
      <4>2. x = Head(queues[s])
            BY <3>1, <4>1
      <4> QED BY <4>2
    <3> HIDE DEF H, O
    <3>4. H = O
          BY <3>2, <3>3
    <3> QED BY <3>4 DEF H, O
  <2> QED BY <2>5, <2>6 DEF B
<1> QED BY <1>9, <1>10, <1>11, <1>13

-----------------------------------------------------------------------------
(* What a ranking keeps *)

LEMMA DiscoverySelect ==
    ASSUME NEW T, NEW s \in Seq(T), NEW S
    PROVE  LET r == Discovery!Select(s, S) IN
           /\ r \in Seq(T)
           /\ \A i \in 1..Len(r) : r[i] \in S /\ \E k \in 1..Len(s) : r[i] = s[k]
           /\ \A k \in 1..Len(s) : s[k] \in S => \E i \in 1..Len(r) : r[i] = s[k]
<1>1. Discovery!Select(s, S) = Select(s, S)
      BY DEF Discovery!Select, Select
<1> QED BY <1>1, SelectKeeps

LEMMA DiscoveryCardinality ==
    ASSUME NEW S
    PROVE  Discovery!Cardinality(S) = Cardinality(S)
BY DEF Discovery!Cardinality, Cardinality

(* The recursion of Kept up to n has a solution.                           *)
Keeps(c, p, n) ==
    c = [k \in 0..n |->
            IF k = 0 THEN {}
            ELSE IF Discovery!Refuses(p, c[k - 1], candidates[k])
                 THEN c[k - 1] ELSE c[k - 1] \cup {candidates[k]}]

LEMMA KeepsExists ==
    ASSUME candidates \in Seq(Videos), NEW p
    PROVE  \E c : Keeps(c, p, Len(candidates))
<1> DEFINE G == {n \in Nat : \E c : Keeps(c, p, n)}
<1>1. 0 \in G
  <2> DEFINE c == [k \in 0..0 |-> {}]
  <2>1. c = [k \in 0..0 |-> IF k = 0 THEN {}
                            ELSE IF Discovery!Refuses(p, c[k - 1], candidates[k])
                                 THEN c[k - 1] ELSE c[k - 1] \cup {candidates[k]}]
        OBVIOUS
  <2> HIDE DEF c
  <2>2. Keeps(c, p, 0)
        BY <2>1 DEF Keeps
  <2> QED BY <2>2
<1>2. ASSUME NEW n \in Nat, n \in G
      PROVE  n + 1 \in G
  <2>1. PICK c : Keeps(c, p, n)
        BY <1>2
  <2>2. c = [k \in 0..n |-> IF k = 0 THEN {}
                            ELSE IF Discovery!Refuses(p, c[k - 1], candidates[k])
                                 THEN c[k - 1] ELSE c[k - 1] \cup {candidates[k]}]
        BY <2>1 DEF Keeps
  <2> DEFINE d == [k \in 0..(n + 1) |->
                      IF k = 0 THEN {}
                      ELSE IF Discovery!Refuses(p, c[k - 1], candidates[k])
                           THEN c[k - 1] ELSE c[k - 1] \cup {candidates[k]}]
  <2> HIDE DEF d
  <2>3. d = [k \in 0..(n + 1) |->
                IF k = 0 THEN {}
                ELSE IF Discovery!Refuses(p, c[k - 1], candidates[k])
                     THEN c[k - 1] ELSE c[k - 1] \cup {candidates[k]}]
        BY DEF d
  <2>4. \A k \in 0..n : d[k] = c[k]
    <3>1. \A k \in 0..n : k \in 0..(n + 1)
          OBVIOUS
    <3> QED BY <2>2, <2>3, <3>1
  <2>5. \A k \in 0..(n + 1) : k # 0 => k - 1 \in 0..n /\ d[k - 1] = c[k - 1]
    <3>1. \A k \in 0..(n + 1) : k # 0 => k - 1 \in 0..n
          OBVIOUS
    <3> QED BY <2>4, <3>1
  <2>6. d = [k \in 0..(n + 1) |->
                IF k = 0 THEN {}
                ELSE IF Discovery!Refuses(p, d[k - 1], candidates[k])
                     THEN d[k - 1] ELSE d[k - 1] \cup {candidates[k]}]
        BY <2>3, <2>5
  <2>7. Keeps(d, p, n + 1)
        BY <2>6 DEF Keeps
  <2> QED BY <2>7
<1>3. Len(candidates) \in G
  <2>1. Len(candidates) \in Nat
        OBVIOUS
  <2> HIDE DEF G
  <2> QED BY <1>1, <1>2, <2>1, Climb
<1> QED BY <1>3

Unsuited(p) == Irrelevant[p] \cup Unfit

(* What is kept of the first n candidates.                                 *)
KeptOf(kept, p, n) ==
    /\ \A v \in kept : v \notin Unsuited(p) /\ \E i \in 1..n : v = candidates[i]
    /\ \A v, w \in kept : {v, w} \in Alike => v = w
    /\ \A i \in 1..n : \/ candidates[i] \in kept \/ candidates[i] \in Unsuited(p)
                       \/ \E w \in kept : {candidates[i], w} \in Alike

LEMMA KeptIs ==
    ASSUME candidates \in Seq(Videos), NEW p
    PROVE  KeptOf(Discovery!Kept(p), p, Len(candidates))
<1>1. PICK c : Keeps(c, p, Len(candidates)) /\ Discovery!Kept(p) = c[Len(candidates)]
  <2> DEFINE c == CHOOSE c : Keeps(c, p, Len(candidates))
  <2>1. Keeps(c, p, Len(candidates))
        BY KeepsExists
  <2>2. Discovery!Kept(p) = c[Len(candidates)]
        BY DEF Discovery!Kept, Keeps
  <2> QED BY <2>1, <2>2
<1>2. /\ c[0] = {}
      /\ \A k \in 1..Len(candidates) :
            c[k] = IF Discovery!Refuses(p, c[k - 1], candidates[k])
                   THEN c[k - 1] ELSE c[k - 1] \cup {candidates[k]}
      /\ Len(candidates) \in Nat
  <2>1. \A k \in 0..Len(candidates) :
            c[k] = IF k = 0 THEN {}
                   ELSE IF Discovery!Refuses(p, c[k - 1], candidates[k])
                        THEN c[k - 1] ELSE c[k - 1] \cup {candidates[k]}
        BY <1>1 DEF Keeps
  <2>2. Len(candidates) \in Nat
        OBVIOUS
  <2>3. c[0] = {}
    <3>1. 0 \in 0..Len(candidates)
          BY <2>2
    <3>2. c[0] = IF 0 = 0 THEN {}
                 ELSE IF Discovery!Refuses(p, c[0 - 1], candidates[0])
                      THEN c[0 - 1] ELSE c[0 - 1] \cup {candidates[0]}
          BY Zenon, <2>1, <3>1
    <3> QED BY <3>2
  <2>4. \A k \in 1..Len(candidates) : k \in 0..Len(candidates) /\ k # 0
        BY <2>2
  <2> QED BY <2>1, <2>2, <2>3, <2>4
<1> DEFINE G == {n \in Nat : n <= Len(candidates) => KeptOf(c[n], p, n)}
<1>3. 0 \in G
      BY <1>2 DEF KeptOf
<1>4. ASSUME NEW n \in Nat, n \in G
      PROVE  n + 1 \in G
  <2> SUFFICES ASSUME n + 1 <= Len(candidates)
               PROVE  KeptOf(c[n + 1], p, n + 1)
      OBVIOUS
  <2>1. KeptOf(c[n], p, n)
        BY <1>2, <1>4
  <2> DEFINE v == candidates[n + 1]
             kept == c[n]
  <2>2. c[n + 1] = IF Discovery!Refuses(p, kept, v) THEN kept ELSE kept \cup {v}
    <3>1. n + 1 \in 1..Len(candidates) /\ (n + 1) - 1 = n
          BY <1>2
    <3>2. c[n + 1] = IF Discovery!Refuses(p, c[(n + 1) - 1], candidates[n + 1])
                     THEN c[(n + 1) - 1] ELSE c[(n + 1) - 1] \cup {candidates[n + 1]}
          BY <1>2, <3>1
    <3> QED BY <3>1, <3>2
  <2>3. \A i \in 1..(n + 1) : i = n + 1 \/ i \in 1..n
        OBVIOUS
  <2>4. \A i \in 1..n : i \in 1..(n + 1)
        OBVIOUS
  <2>5. n + 1 \in 1..(n + 1)
        OBVIOUS
  <2> HIDE DEF kept
  <2>6. CASE Discovery!Refuses(p, kept, v)
    <3>1. v \in Unsuited(p) \/ \E w \in kept : {v, w} \in Alike
          BY <2>6 DEF Discovery!Refuses, Unsuited
    <3>2. KeptOf(kept, p, n + 1)
          BY <2>1, <2>3, <2>4, <3>1 DEF KeptOf, kept
    <3> QED BY <2>2, <2>6, <3>2
  <2>7. CASE ~Discovery!Refuses(p, kept, v)
    <3>1. v \notin Unsuited(p) /\ \A w \in kept : {v, w} \notin Alike
          BY <2>7 DEF Discovery!Refuses, Unsuited
    <3>2. \A w \in kept : {w, v} \notin Alike
      <4>1. \A w : {w, v} = {v, w}
            OBVIOUS
      <4> QED BY <3>1, <4>1
    <3> DEFINE more == kept \cup {v}
    <3>3. \A x \in more : x \notin Unsuited(p) /\ \E i \in 1..(n + 1) : x = candidates[i]
          BY <2>1, <2>4, <2>5, <3>1 DEF KeptOf, kept
    <3>4. \A x, y \in more : {x, y} \in Alike => x = y
          BY <2>1, <3>1, <3>2 DEF KeptOf, kept
    <3>5. \A i \in 1..(n + 1) : \/ candidates[i] \in more \/ candidates[i] \in Unsuited(p)
                                \/ \E w \in more : {candidates[i], w} \in Alike
          BY <2>1, <2>3 DEF KeptOf, kept
    <3> HIDE DEF more
    <3>6. KeptOf(more, p, n + 1)
          BY <3>3, <3>4, <3>5 DEF KeptOf
    <3> QED BY <2>2, <2>7, <3>6 DEF more
  <2> QED BY <2>6, <2>7
<1>5. Len(candidates) \in G
  <2> HIDE DEF G
  <2> QED BY <1>2, <1>3, <1>4, Climb
<1> QED BY <1>1, <1>2, <1>5

-----------------------------------------------------------------------------
(* The order the queues are dealt from *)

LEMMA BalancedIs ==
    ASSUME NEW T, NEW suited \in Seq(T), NEW hit, NEW order \in Discovery!Balanced(suited, hit)
    PROVE  /\ order \in Seq(T)
           /\ \A i, j \in 1..Len(order) : order[i] = order[j] => i = j
           /\ {order[i] : i \in 1..Len(order)} = Discovery!ToSet(suited)
           /\ \A i, j \in 1..Len(order) :
                  i < j /\ i =< SlotCount /\ order[j] \in hit => order[i] \in hit
<1> DEFINE S == Discovery!ToSet(suited)
           n == Cardinality(S)
<1>1. suited \in Surjection(1..Len(suited), S) /\ Len(suited) \in Nat
      BY DEF Surjection, Discovery!ToSet
<1>2. S \subseteq T
      BY DEF Discovery!ToSet
<1> HIDE DEF S
<1>3. IsFiniteSet(S) /\ n \in Nat
  <2>1. IsFiniteSet(1..Len(suited))
        BY <1>1, FS_Interval
  <2>2. IsFiniteSet(S)
        BY <1>1, <2>1, FS_Surjection
  <2> QED BY <2>2, FS_CardinalityType
<1>4. /\ order \in Discovery!SetToSeqs(S)
      /\ \A i, j \in DOMAIN order : i < j =>
             IF i <= SlotCount
             THEN order[j] \in hit => order[i] \in hit
             ELSE Discovery!Position(order[i], suited) < Discovery!Position(order[j], suited)
      BY DEF Discovery!Balanced, S
<1>5. order \in [1..n -> S] /\ \A i, j \in 1..n : i # j => order[i] # order[j]
      BY <1>4, DiscoveryCardinality DEF Discovery!SetToSeqs
<1> HIDE DEF n
<1>6. Len(order) = n /\ DOMAIN order = 1..n /\ order \in Seq(T)
      BY <1>2, <1>3, <1>5
<1>7. order \in Injection(1..n, S)
      BY <1>5 DEF Injection, IsInjective
<1>8. IsFiniteSet(1..n) /\ Cardinality(1..n) = n
      BY <1>3, FS_Interval
<1>9. order \in Surjection(1..n, S)
      BY <1>3, <1>7, <1>8, FS_Injection DEF n
<1>10. {order[i] : i \in 1..n} = S
      BY <1>5, <1>9 DEF Surjection
<1> QED BY <1>4, <1>5, <1>6, <1>10 DEF S

-----------------------------------------------------------------------------
(* What is excluded when the queues are made was excluded for the product  *)
(* in force; the queues are dealt from what is left.                       *)
DiscoveryInv ==
    /\ slotStage \in {"search", "rank", "resolve", "question", "curate", "queues", "fetch",
                      "no candidates"}
    /\ hits \in Seq(Videos) /\ candidates \in Seq(Videos)
    /\ slotStage \in {"search", "rank"} => product = Asked
    /\ slotStage \in {"resolve", "question", "curate", "queues", "fetch"} =>
           excluded = Discovery!Excluded(Asked)
    /\ slotStage \in {"queues", "fetch"} =>
           curation \in Seq(Discovery!ToSet(candidates) \cup {"unknown"})
    /\ slotStage = "fetch" =>
           \E order \in Discovery!Balanced(Discovery!Allowed, cached) :
               queues = [slot \in 1..SlotCount |-> Discovery!SlotQueue(order, slot)]
    /\ slotStage = "fetch" => cached \subseteq Discovery!ToSet(Discovery!Allowed)

(* The sequences over subsets of a finite set are sequences over the set.  *)
LEMMA OrdersAre ==
    ASSUME NEW T, NEW S, IsFiniteSet(S), S \subseteq T, NEW order \in Discovery!Orders(S)
    PROVE  order \in Seq(T)
<1>1. PICK U \in SUBSET S : order \in Discovery!SetToSeqs(U)
      BY DEF Discovery!Orders
<1>2. IsFiniteSet(U)
      BY FS_Subset
<1>3. Cardinality(U) \in Nat
      BY <1>2, FS_CardinalityType
<1>4. order \in [1..Cardinality(U) -> U]
      BY <1>1, DiscoveryCardinality DEF Discovery!SetToSeqs
<1> QED BY <1>3, <1>4

LEMMA ElementsFinite ==
    ASSUME NEW T, NEW s \in Seq(T)
    PROVE  IsFiniteSet(Discovery!ToSet(s)) /\ Discovery!ToSet(s) \subseteq T
<1>1. s \in Surjection(1..Len(s), Discovery!ToSet(s)) /\ Len(s) \in Nat
      BY DEF Surjection, Discovery!ToSet
<1>2. IsFiniteSet(1..Len(s))
      BY <1>1, FS_Interval
<1>3. IsFiniteSet(Discovery!ToSet(s))
      BY <1>1, <1>2, FS_Surjection
<1> QED BY <1>3 DEF Discovery!ToSet

LEMMA ExcludedStays ==
    ASSUME UNCHANGED candidates, NEW p
    PROVE  Discovery!Excluded(p)' = Discovery!Excluded(p)
BY DEF Discovery!Excluded, Discovery!Kept, Discovery!Refuses, Discovery!ToSet

LEMMA DiscoveryKept ==
    ASSUME Discovery!DiscoveryAssumption, DiscoveryInv, [Discovery!Next]_(Discovery!vars)
    PROVE  DiscoveryInv'
<1>0. Asked \in Products /\ Answers \subseteq Seq(Videos)
      BY DEF Discovery!DiscoveryAssumption
<1>1. CASE Discovery!Search
  <2>1. /\ slotStage = "search" /\ UNCHANGED <<slotStage, candidates, excluded, product>>
        BY <1>1 DEF Discovery!Search
  <2>2. PICK found \in Answers :
            LET all == hits \o Discovery!Select(found, Videos \ Discovery!ToSet(hits))
            IN hits' = SubSeq(all, 1, IF Len(all) < Cap THEN Len(all) ELSE Cap)
        BY <1>1 DEF Discovery!Search
  <2> DEFINE new == Discovery!Select(found, Videos \ Discovery!ToSet(hits))
             all == hits \o new
             last == IF Len(all) < Cap THEN Len(all) ELSE Cap
  <2>3. new \in Seq(Videos)
        BY <1>0, DiscoverySelect
  <2> HIDE DEF new
  <2>4. all \in Seq(Videos) /\ Len(all) \in Nat
    <3>1. hits \in Seq(Videos)
          BY DEF DiscoveryInv
    <3> QED BY <2>3, <3>1
  <2> HIDE DEF all
  <2>5. last \in Nat /\ last =< Len(all)
        BY <2>4 DEF Discovery!DiscoveryAssumption
  <2>6. hits' = SubSeq(all, 1, last)
        BY <2>2 DEF all, new
  <2> HIDE DEF last
  <2>7. hits' \in Seq(Videos)
        BY <2>4, <2>5, <2>6
  <2> QED BY <2>1, <2>7 DEF DiscoveryInv
<1>2. CASE Discovery!Discover
  <2>1. /\ slotStage = "search" /\ UNCHANGED <<hits, product>>
        /\ \/ slotStage' = "no candidates" /\ UNCHANGED candidates
           \/ slotStage' = "rank" /\ candidates' \in Discovery!Orders(Discovery!ToSet(hits))
        BY <1>2 DEF Discovery!Discover
  <2>2. hits \in Seq(Videos)
        BY DEF DiscoveryInv
  <2>3. candidates' \in Seq(Videos)
        BY <2>1, <2>2, ElementsFinite, OrdersAre DEF DiscoveryInv
  <2> QED BY <2>1, <2>3 DEF DiscoveryInv
<1>3. CASE Discovery!Rank
  <2>1. /\ slotStage = "rank" /\ slotStage' = "resolve" /\ UNCHANGED <<hits, candidates, product>>
        /\ excluded' = Discovery!Excluded(product)
        BY <1>3 DEF Discovery!Rank
  <2>2. excluded' = Discovery!Excluded(Asked)'
        BY <2>1, ExcludedStays DEF DiscoveryInv
  <2> QED BY <2>1, <2>2 DEF DiscoveryInv
<1>4. CASE Discovery!Resolve \/ Discovery!AnswerProduct
  <2>1. /\ slotStage \in {"resolve", "question"} /\ slotStage' \in {"question", "curate"}
        /\ UNCHANGED <<hits, candidates, excluded>>
        BY <1>4 DEF Discovery!Resolve, Discovery!AnswerProduct
  <2>2. excluded' = Discovery!Excluded(Asked)'
        BY <2>1, ExcludedStays DEF DiscoveryInv
  <2> QED BY <2>1, <2>2 DEF DiscoveryInv
<1>5. CASE Discovery!Curate
  <2>1. /\ slotStage = "curate" /\ UNCHANGED <<hits, candidates, excluded>>
        /\ \/ slotStage' = "no candidates"
           \/ /\ slotStage' = "queues"
              /\ curation' \in Discovery!Orders(Discovery!ToSet(candidates) \cup {"unknown"})
        BY <1>5 DEF Discovery!Curate
  <2>2. excluded' = Discovery!Excluded(Asked)'
        BY <2>1, ExcludedStays DEF DiscoveryInv
  <2> DEFINE S == Discovery!ToSet(candidates) \cup {"unknown"}
  <2>3. IsFiniteSet(S)
    <3>1. IsFiniteSet(Discovery!ToSet(candidates))
          BY ElementsFinite DEF DiscoveryInv
    <3> QED BY <3>1, FS_AddElement
  <2>4. S' = S
        BY <2>1 DEF Discovery!ToSet
  <2> HIDE DEF S
  <2>5. slotStage' = "queues" => curation' \in Seq(S)
        BY <2>1, <2>3, OrdersAre DEF S
  <2> QED BY <2>1, <2>2, <2>4, <2>5 DEF DiscoveryInv, S
<1>6. CASE Discovery!BuildQueues
  <2>1. /\ slotStage = "queues" /\ slotStage' = "fetch"
        /\ UNCHANGED <<hits, candidates, excluded, product, curation>>
        /\ cached' \in SUBSET Discovery!ToSet(Discovery!Allowed)
        /\ \E order \in Discovery!Balanced(Discovery!Allowed, cached') :
               queues' = [slot \in 1..SlotCount |-> Discovery!SlotQueue(order, slot)]
        BY <1>6 DEF Discovery!BuildQueues
  <2>2. Discovery!Excluded(Asked)' = Discovery!Excluded(Asked)
        BY <2>1, ExcludedStays
  <2>3. Discovery!Allowed' = Discovery!Allowed
    <3>1. Discovery!Effective' = Discovery!Effective
          BY <2>1, ExcludedStays DEF Discovery!Effective
    <3> QED BY <2>1, <3>1 DEF Discovery!Allowed, Discovery!ToSet
  <2> DEFINE dealt(suited, hit, q) == \E order \in Discovery!Balanced(suited, hit) :
                 q = [slot \in 1..SlotCount |-> Discovery!SlotQueue(order, slot)]
  <2>4. dealt(Discovery!Allowed', cached', queues')
        BY <2>1, <2>3
  <2>5. cached' \subseteq Discovery!ToSet(Discovery!Allowed')
        BY <2>1, <2>3
  <2>6. excluded' = Discovery!Excluded(Asked)' /\ curation' \in Seq(Discovery!ToSet(candidates') \cup {"unknown"})
        BY <2>1, <2>2 DEF DiscoveryInv
  <2> QED BY <2>1, <2>4, <2>5, <2>6 DEF DiscoveryInv
<1>7. CASE UNCHANGED Discovery!vars
  <2>1. UNCHANGED <<slotStage, hits, candidates, excluded, product, curation, cached, queues>>
        BY <1>7 DEF Discovery!vars
  <2>2. Discovery!Excluded(Asked)' = Discovery!Excluded(Asked)
        BY <2>1, ExcludedStays
  <2>3. Discovery!Allowed' = Discovery!Allowed
    <3>1. Discovery!Effective' = Discovery!Effective
          BY <2>1, ExcludedStays DEF Discovery!Effective
    <3> QED BY <2>1, <3>1 DEF Discovery!Allowed, Discovery!ToSet
  <2> QED BY <2>1, <2>2, <2>3 DEF DiscoveryInv
<1> QED BY <1>1, <1>2, <1>3, <1>4, <1>5, <1>6, <1>7 DEF Discovery!Next

LEMMA QueuesShare ==
    ASSUME Discovery!DiscoveryAssumption, DiscoveryInv
    PROVE  Discovery!QueuesShareOut
<1> SUFFICES ASSUME slotStage = "fetch"
             PROVE  Discovery!QueuesShareOut
    BY DEF Discovery!QueuesShareOut
<1>0. SlotCount \in Nat \ {0}
      BY DEF Discovery!DiscoveryAssumption
<1> DEFINE C == Discovery!ToSet(candidates)
           K == Discovery!Kept(product)
           suited == Discovery!Allowed
           T == C \cup {"unknown"}
<1>1. candidates \in Seq(Videos) /\ KeptOf(K, product, Len(candidates))
      BY KeptIs DEF DiscoveryInv
<1>2. /\ K \subseteq C
      /\ \A v \in K : v \notin Unsuited(product)
      /\ \A v, w \in K : {v, w} \in Alike => v = w
      /\ \A v \in C : v \in K \/ v \in Unsuited(product) \/ \E w \in C : {v, w} \in Alike
  <2>1. C = {candidates[i] : i \in 1..Len(candidates)}
        BY <1>1 DEF Discovery!ToSet
  <2> HIDE DEF C, K
  <2>2. K \subseteq C
        BY <1>1, <2>1 DEF KeptOf
  <2>3. \A v \in K : v \notin Unsuited(product)
        BY <1>1 DEF KeptOf
  <2>4. \A v, w \in K : {v, w} \in Alike => v = w
        BY <1>1 DEF KeptOf
  <2>5. ASSUME NEW v \in C
        PROVE  v \in K \/ v \in Unsuited(product) \/ \E w \in C : {v, w} \in Alike
    <3>1. PICK i \in 1..Len(candidates) : v = candidates[i]
          BY <2>1
    <3>2. \/ candidates[i] \in K \/ candidates[i] \in Unsuited(product)
          \/ \E w \in K : {candidates[i], w} \in Alike
          BY <1>1 DEF KeptOf
    <3> QED BY <2>2, <3>1, <3>2
  <2> QED BY <2>2, <2>3, <2>4, <2>5
<1>3. C \ Discovery!Effective = K
  <2>1. Discovery!Effective = Discovery!Excluded(product)
        BY DEF DiscoveryInv, Discovery!Effective
  <2>2. Discovery!Excluded(product) = C \ K
        BY DEF Discovery!Excluded
  <2> HIDE DEF C, K
  <2> QED BY <1>2, <2>1, <2>2
<1>4. curation \in Seq(T) /\ suited = Discovery!Select(curation, K)
      BY <1>3 DEF DiscoveryInv, Discovery!Allowed
<1> HIDE DEF C, K, T
<1>5. suited \in Seq(T) /\ Discovery!ToSet(suited) = Discovery!ToSet(curation) \cap K
  <2> DEFINE r == Discovery!Select(curation, K)
  <2>1. /\ r \in Seq(T)
        /\ \A i \in 1..Len(r) : r[i] \in K /\ \E k \in 1..Len(curation) : r[i] = curation[k]
        /\ \A k \in 1..Len(curation) : curation[k] \in K => \E i \in 1..Len(r) : r[i] = curation[k]
    <3>1. curation \in Seq(T)
          BY <1>4
    <3> QED BY <3>1, DiscoverySelect
  <2>2. suited = r
        BY <1>4
  <2> HIDE DEF r, suited
  <2>3. /\ Discovery!ToSet(r) = {r[i] : i \in 1..Len(r)}
        /\ Discovery!ToSet(curation) = {curation[k] : k \in 1..Len(curation)}
        BY <1>4, <2>1 DEF Discovery!ToSet
  <2>4. Discovery!ToSet(r) \subseteq Discovery!ToSet(curation) \cap K
        BY <2>1, <2>3
  <2>5. Discovery!ToSet(curation) \cap K \subseteq Discovery!ToSet(r)
        BY <2>1, <2>3
  <2> QED BY <2>1, <2>2, <2>4, <2>5
<1>6. PICK order \in Discovery!Balanced(suited, cached) :
          queues = [slot \in 1..SlotCount |-> Discovery!SlotQueue(order, slot)]
      BY DEF DiscoveryInv
<1>7. cached \subseteq Discovery!ToSet(suited)
      BY DEF DiscoveryInv
<1> HIDE DEF suited
<1>8. /\ order \in Seq(T)
      /\ \A i, j \in 1..Len(order) : order[i] = order[j] => i = j
      /\ {order[i] : i \in 1..Len(order)} = Discovery!ToSet(suited)
      /\ \A i, j \in 1..Len(order) :
             i < j /\ i =< SlotCount /\ order[j] \in cached => order[i] \in cached
      BY <1>5, BalancedIs
<1>9. /\ \A s, t \in DOMAIN queues : s # t =>
             Discovery!ToSet(queues[s]) \cap Discovery!ToSet(queues[t]) = {}
      /\ Discovery!Queued = Discovery!ToSet(suited)
      /\ \A s, t \in DOMAIN queues : Len(queues[s]) =< Len(queues[t]) + 1
      /\ Discovery!First = {order[i] : i \in {i \in 1..Len(order) : i =< SlotCount}}
  <2>1. /\ order \in Seq(T)
        /\ \A i, j \in 1..Len(order) : order[i] = order[j] => i = j
        /\ queues = [slot \in 1..SlotCount |-> Discovery!SlotQueue(order, slot)]
        BY <1>6, <1>8
  <2>2. {order[i] : i \in 1..Len(order)} = Discovery!ToSet(suited)
        BY <1>8
  <2>3. /\ \A s, t \in DOMAIN queues : s # t =>
               Discovery!ToSet(queues[s]) \cap Discovery!ToSet(queues[t]) = {}
        /\ Discovery!Queued = {order[i] : i \in 1..Len(order)}
        /\ \A s, t \in DOMAIN queues : Len(queues[s]) =< Len(queues[t]) + 1
        /\ Discovery!First = {order[i] : i \in {i \in 1..Len(order) : i =< SlotCount}}
        BY <1>0, <2>1, QueuesAre
  <2> QED BY <2>2, <2>3
<1>10. Discovery!Queued = Discovery!ToSet(curation) \cap K
      BY <1>5, <1>9
<1>11. \A v, w \in Discovery!Queued : {v, w} \in Alike => v = w
      BY <1>2, <1>10
<1>12. \A v \in Discovery!Queued : v \notin Irrelevant[product] \cup Unfit
      BY <1>2, <1>10 DEF Unsuited
<1>13. \A v \in C \cap Discovery!ToSet(curation) :
           v \in Discovery!Queued \/ v \in Irrelevant[product] \cup Unfit
             \/ \E w \in C : {v, w} \in Alike
      BY <1>2, <1>10 DEF Unsuited
<1>14. cached \subseteq Discovery!First \/ Discovery!First \subseteq cached
  <2> SUFFICES ASSUME NEW v \in cached, v \notin Discovery!First,
                      NEW w \in Discovery!First
               PROVE  w \in cached
      OBVIOUS
  <2>1. PICK j \in 1..Len(order) : v = order[j]
        BY <1>7, <1>8
  <2>2. PICK i \in 1..Len(order) : i =< SlotCount /\ w = order[i]
        BY <1>9
  <2>3. ~(j =< SlotCount)
        BY <1>9, <2>1
  <2>4. i < j
        BY <1>0, <1>8, <2>1, <2>2, <2>3
  <2> QED BY <1>8, <2>1, <2>2, <2>4
<1> QED BY <1>9, <1>11, <1>12, <1>13, <1>14 DEF Discovery!QueuesShareOut, C

(* Whatever is found, answered and curated, and for any number of slots,   *)
(* no video is tried by two slots, none is lost that suits the product in  *)
(* force, no slot is short of a video while another has a reserve, and     *)
(* cached captions come first (_effective_discovery, rank_candidates,      *)
(* balance_curated_order, source_slot_queues).                             *)
THEOREM QueuesAreShared ==
    Discovery!DiscoveryAssumption => (Discovery!Spec => []Discovery!QueuesShareOut)
<1> SUFFICES ASSUME Discovery!DiscoveryAssumption
             PROVE  Discovery!Spec => []Discovery!QueuesShareOut
    OBVIOUS
<1>1. Discovery!Init => DiscoveryInv
      BY DEF Discovery!Init, DiscoveryInv
<1>2. DiscoveryInv /\ [Discovery!Next]_(Discovery!vars) => DiscoveryInv'
      BY DiscoveryKept
<1>3. DiscoveryInv => Discovery!QueuesShareOut
      BY QueuesShare
<1> QED BY <1>1, <1>2, <1>3, PTL DEF Discovery!Spec

-----------------------------------------------------------------------------
(* Rows that are settled: module RowRules *)

(* A report and its publication: no step takes a revocation back.          *)
LEMMA RevocationsStay ==
    [Publication!Next]_(Publication!vars) =>
        ReportRule(report, report') /\ PublicationRule(publication, publication')
<1> SUFFICES ASSUME [Publication!Next]_(Publication!vars)
             PROVE  ReportRule(report, report') /\ PublicationRule(publication, publication')
    OBVIOUS
<1>1. \/ UNCHANGED <<report, publication>>
      \/ report = "none" /\ report' = "published" /\ UNCHANGED publication
      \/ UNCHANGED report /\ publication' = IF publication = "none" THEN "open" ELSE publication
      \/ publication = "open" /\ publication' = "revoked" /\ report' = "revoked"
  <2>1. CASE UNCHANGED Publication!vars
        BY <2>1 DEF Publication!vars, Publication!rowVars
  <2>2. CASE Publication!WriteReport \/ Publication!Conclude \/ Publication!Revoke
        BY <2>2 DEF Publication!WriteReport, Publication!Conclude, Publication!Revoke,
           Publication!Publish
  <2>3. ASSUME \/ Publication!TasksEnd \/ Publication!ReadReport \/ Publication!ProjectionFails
               \/ Publication!Cancel \/ Publication!Retry
        PROVE  UNCHANGED <<report, publication>>
        BY <2>3 DEF Publication!TasksEnd, Publication!ReadReport, Publication!ProjectionFails,
           Publication!Cancel, Publication!Retry, Publication!rowVars
  <2>4. ASSUME NEW r \in Requests,
               \/ Publication!FindPublication(r) \/ Publication!ServeReport(r)
               \/ Publication!AdoptAll(r) \/ Publication!LoadRun(r) \/ Publication!AdoptRun(r)
        PROVE  UNCHANGED <<report, publication>>
        BY <2>4, Zenon DEF Publication!FindPublication, Publication!ServeReport, Publication!AdoptAll,
           Publication!LoadRun, Publication!AdoptRun, Publication!rowVars
  <2> QED BY <2>1, <2>2, <2>3, <2>4 DEF Publication!Next
<1> QED BY <1>1 DEF ReportRule, PublicationRule

(* An attempt of an agent is ended once: by its own worker, which finds    *)
(* it over after a lapse, or by the lapse.                                 *)
AttemptsStay == \A i \in Calls!Numbers : AttemptRule(attempts[i], attempts'[i])

LEMMA AttemptsEndOnce == CallInv /\ [Calls!Next]_(Calls!vars) => AttemptsStay
<1> SUFFICES ASSUME CallInv, [Calls!Next]_(Calls!vars) PROVE AttemptsStay
    OBVIOUS
<1>0. /\ Calls!Numbers = 1..Calls!Last /\ Calls!Last \in Nat
      /\ attempts \in Seq(Row) /\ Calls!Last = Len(attempts)
      BY NumbersAre DEF CallInv, Shape, Calls!Last
<1>1. CASE UNCHANGED attempts
      BY <1>1 DEF AttemptsStay, AttemptRule, Final
<1>2. ASSUME NEW i \in Calls!Numbers, attempts[i].status = "running",
             \A j \in Calls!Numbers : j # i => attempts'[j] = attempts[j]
      PROVE  AttemptsStay
      BY <1>2 DEF AttemptsStay, AttemptRule, Final
<1>3. ASSUME NEW i \in Calls!Numbers, Calls!Return(i) PROVE AttemptsStay
  <2>1. CASE Calls!Over(i)
        BY <1>1, <1>3, <2>1 DEF Calls!Return
  <2>2. CASE ~Calls!Over(i)
    <3>1. \E status, outcome : Calls!Ended(i, status, outcome)
          BY <1>3, <2>2 DEF Calls!Return
    <3>2. \A j \in Calls!Numbers : j # i => attempts'[j] = attempts[j]
          BY <1>0, <3>1 DEF Calls!Ended
    <3> QED BY <1>2, <2>2, <3>2 DEF Calls!Over
  <2> QED BY <2>1, <2>2
<1>4. ASSUME Calls!Lapse PROVE AttemptsStay
  <2>1. Calls!Last \in Calls!Numbers /\ attempts[Calls!Last].status = "running"
        BY <1>0, <1>4 DEF Calls!Lapse
  <2>2. \A j \in Calls!Numbers : j # Calls!Last => attempts'[j] = attempts[j]
        BY <1>0, <1>4 DEF Calls!Lapse
  <2> QED BY <1>2, <2>1, <2>2
<1>5. ASSUME Calls!Claim PROVE AttemptsStay
  <2>1. PICK row : attempts' = Append(attempts, row)
        BY <1>5 DEF Calls!Claim
  <2>2. \A j \in Calls!Numbers : attempts'[j] = attempts[j]
        BY <1>0, <2>1
  <2> QED BY <2>2 DEF AttemptsStay, AttemptRule, Final
<1>6. CASE Calls!RequestCancellation \/ Calls!RetryTask \/ UNCHANGED Calls!vars
      BY <1>1, <1>6 DEF Calls!RequestCancellation, Calls!RetryTask, Calls!vars
<1>7. ASSUME NEW i \in Calls!Numbers,
             \/ Calls!Prepare(i) \/ Calls!Look(i) \/ Calls!Call(i)
             \/ Calls!ReceiveAnswer(i) \/ Calls!Bind(i) \/ Calls!Die(i)
      PROVE  AttemptsStay
      BY <1>1, <1>7 DEF Calls!Prepare, Calls!Look, Calls!Call, Calls!ReceiveAnswer, Calls!Bind,
         Calls!Die
<1> QED BY <1>3, <1>4, <1>5, <1>6, <1>7 DEF Calls!Next

(* No step changes a row that the triggers of the database protect: an     *)
(* attempt of an agent or a refresh of the catalog that is over, a report  *)
(* or a publication that is revoked (prevent_task_attempt_terminal_update, *)
(* prevent_openrouter_refresh_terminal_update and their like).             *)
THEOREM OverIsOver ==
    /\ Publication!Spec =>
           [][ReportRule(report, report') /\ PublicationRule(publication, publication')]_
             (Publication!vars)
    /\ Calls!Spec => [][AttemptsStay]_(Calls!vars)
    /\ Catalog!CatalogAssumption => (Catalog!Spec => [][RefreshesStay]_(Catalog!vars))
<1>1. Publication!Spec =>
           [][ReportRule(report, report') /\ PublicationRule(publication, publication')]_
             (Publication!vars)
      BY RevocationsStay, PTL DEF Publication!Spec
<1>2. Calls!Spec => [][AttemptsStay]_(Calls!vars)
      BY CallInitially, CallInvKept, AttemptsEndOnce, PTL DEF Calls!Spec
<1>3. ASSUME Catalog!CatalogAssumption
      PROVE  Catalog!Spec => [][RefreshesStay]_(Catalog!vars)
  <2> DEFINE Inv == CatalogInv /\ InHand
  <2>1. Catalog!Init => Inv
        BY <1>3, CatalogInitially, InHandInitially
  <2>2. Inv /\ [Catalog!Next]_(Catalog!vars) => Inv' /\ RefreshesStay
        BY <1>3, CatalogKept, RefreshesEndOnce
  <2> HIDE DEF Inv
  <2> QED BY <2>1, <2>2, PTL DEF Catalog!Spec
<1> QED BY <1>1, <1>2, <1>3
=============================================================================
