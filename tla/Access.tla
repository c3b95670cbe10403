------------------------------- MODULE Access -------------------------------
(***************************************************************************)
(* Sessions of an administrator: sign-in with its throttle in Redis and    *)
(* its lock on the account's row, requests that slide a session's idle     *)
(* expiry, and the ways a session ends.  Users' and anonymous sessions     *)
(* slide and end in the same way; users sign in without a throttle.        *)
(*                                                                         *)
(* A sign-in reads the counters, then the account, then counts a failure   *)
(* or writes the account back, and other sign-ins run in between; a write  *)
(* from a row that has changed fails (OptimisticLockMixin).                *)
(* Operators named _Slip: see module Runtime.                              *)
(***************************************************************************)
EXTENDS Integers, FiniteSets

CONSTANTS
    Logins,    \* sign-ins, each with the session it may create
    Visits,    \* requests that present a session
    Attempts,  \* admin_login_attempts
    Window,    \* admin_login_window_minutes
    Idle,      \* session_idle_minutes
    Absolute,  \* session_absolute_hours
    MaxTime    \* bound: the clock stops here

AccessAssumption ==
    /\ {Attempts, Window, Idle, Absolute} \subseteq Nat \ {0}
    /\ MaxTime \in Nat

VARIABLES
    now,
    failures,  \* the counters of the account and of the address
    expiry,    \* when each counter expires
    account,   \* the row of the account: locked_until and whether a sign-in holds a current copy
    login,     \* each sign-in: where it is, and what it has read
    session,   \* the sessions
    visit      \* each request: where it is, and the session it presents

vars == <<now, failures, expiry, account, login, session, visit>>

Keys == {"account", "ip"}
NoSession == [status |-> "none", idle |-> 0, absolute |-> 0]
NoVisit == [at |-> "idle", of |-> "none", idle |-> 0, since |-> "none"]

Init ==
    /\ now = 0
    /\ failures = [k \in Keys |-> 0] /\ expiry = [k \in Keys |-> 0]
    /\ account = [locked |-> 0, seen |-> {}]
    /\ login = [l \in Logins |-> [at |-> "idle", read |-> 0, lock |-> 0]]
    /\ session = [l \in Logins |-> NoSession]
    /\ visit = [v \in Visits |-> NoVisit]

Least(a, b) == IF a < b THEN a ELSE b
Most(a, b) == IF a > b THEN a ELSE b
Goto(l, place) == login' = [login EXCEPT ![l].at = place]

(* login, before the password is verified. *)
CheckThrottle(l) ==
    /\ login[l].at = "idle"
    /\ Goto(l, IF \E k \in Keys : failures[k] >= Attempts THEN "refused" ELSE "admitted")
    /\ UNCHANGED <<now, failures, expiry, account, session, visit>>

(* The account's row is read; a locked account makes any password wrong.   *)
Verify(l, right) ==
    /\ login[l].at = "admitted"
    /\ account' = [account EXCEPT !.seen = @ \cup {l}]
    /\ login' = [login EXCEPT ![l] =
           [at |-> IF right /\ account.locked <= now THEN "verified" ELSE "wrong",
            read |-> now, lock |-> 0]]
    /\ UNCHANGED <<now, failures, expiry, session, visit>>

(* _record_failure: both counters, each with a window from its first one;  *)
(* Redis may be away, and then nothing else is recorded.                   *)
CountFailure(l) ==
    /\ login[l].at = "wrong"
    /\ LET count == [k \in Keys |-> failures[k] + 1]
           end == [k \in Keys |-> IF failures[k] = 0 THEN now + Window ELSE expiry[k]]
           reached == Most(count["account"], count["ip"]) >= Attempts
       IN /\ failures' = count /\ expiry' = end
          /\ login' = [login EXCEPT ![l].at = "counted",
                 ![l].lock = IF reached
                             THEN login[l].read + Most(end["account"], end["ip"]) - now
                             ELSE 0]
    /\ UNCHANGED <<now, account, session, visit>>

(* A write of the account's row, from the copy that l has read.            *)
Current_Slip(l) == TRUE
Current(l) == l \in account.seen
WriteAccount(locked) == account' = [locked |-> locked, seen |-> {}]

RecordFailure(l) ==
    /\ login[l].at = "counted"
    /\ Goto(l, "refused")
    /\ IF Current(l)
       THEN WriteAccount(IF login[l].lock > 0 THEN login[l].lock ELSE account.locked)
       ELSE UNCHANGED account
    /\ UNCHANGED <<now, failures, expiry, session, visit>>

(* The session is written with the account, and the session the browser    *)
(* held before is revoked.                                                 *)
Replaced(l) == {{}} \cup {{s} : s \in {s \in Logins : session[s].status = "live"}}
OpenSession(l) ==
    /\ login[l].at = "verified"
    /\ IF ~Current(l)
       THEN Goto(l, "refused") /\ UNCHANGED <<account, session>>
       ELSE \E prior \in Replaced(l) :
              LET absolute == login[l].read + Absolute IN
              /\ session' = [s \in Logins |->
                     IF s = l THEN [status |-> "live",
                                    idle |-> Least(login[l].read + Idle, absolute),
                                    absolute |-> absolute]
                     ELSE IF s \in prior THEN [session[s] EXCEPT !.status = "revoked"]
                     ELSE session[s]]
              /\ WriteAccount(0)
              /\ Goto(l, "opened")
    /\ UNCHANGED <<now, failures, expiry, visit>>

(* _clear_rate_state: the counter of the account only, and Redis may be    *)
(* away.                                                                   *)
ClearFailures(l) ==
    /\ login[l].at = "opened"
    /\ Goto(l, "done")
    /\ failures' \in {failures, [failures EXCEPT !["account"] = 0]}
    /\ UNCHANGED <<now, expiry, account, session, visit>>

-----------------------------------------------------------------------------

Live(s) == session[s].status = "live" /\ session[s].idle > now /\ session[s].absolute > now

(* authenticate: a session found expired is revoked; a live one is used,   *)
(* and touched when it was not seen for half a minute.                     *)
Present(v, s) ==
    /\ visit[v].at \in {"idle", "accepted", "refused"}
    /\ session[s].status # "none"
    /\ IF Live(s)
       THEN /\ visit' = [visit EXCEPT ![v] =
                   [at |-> "touching", of |-> s, since |-> session[s].status,
                    idle |-> Least(now + Idle, session[s].absolute)]]
            /\ UNCHANGED session
       ELSE /\ visit' = [visit EXCEPT ![v] =
                   [at |-> "refused", of |-> s, since |-> session[s].status, idle |-> 0]]
            /\ session' = [session EXCEPT ![s].status = "revoked"]
    /\ UNCHANGED <<now, failures, expiry, account, login>>

Touched(row, idle) == [row EXCEPT !.idle = idle]
Touch(v) ==
    /\ visit[v].at = "touching"
    /\ visit' = [visit EXCEPT ![v].at = "accepted"]
    /\ \/ session' = [session EXCEPT ![visit[v].of] = Touched(@, visit[v].idle)]
       \/ UNCHANGED session
    /\ UNCHANGED <<now, failures, expiry, account, login>>

(* logout of the session of a request, or revoke_session of another one.   *)
End(v, s) ==
    /\ visit[v].at = "accepted"
    /\ session[s].status = "live"
    /\ session' = [session EXCEPT ![s].status = "revoked"]
    /\ visit' = [visit EXCEPT ![v] = NoVisit]
    /\ UNCHANGED <<now, failures, expiry, account, login>>

(* revoke_expired_sessions, by the scheduler. *)
Sweep ==
    /\ \E s \in Logins : session[s].status = "live" /\ ~Live(s)
    /\ session' = [s \in Logins |->
           IF session[s].status = "live" /\ ~Live(s)
           THEN [session[s] EXCEPT !.status = "revoked"] ELSE session[s]]
    /\ UNCHANGED <<now, failures, expiry, account, login, visit>>

Tick ==
    /\ now < MaxTime
    /\ now' = now + 1
    /\ failures' = [k \in Keys |-> IF expiry[k] <= now' THEN 0 ELSE failures[k]]
    /\ UNCHANGED <<expiry, account, login, session, visit>>

Next ==
    \/ \E l \in Logins :
           \/ CheckThrottle(l) \/ CountFailure(l) \/ RecordFailure(l)
           \/ OpenSession(l) \/ ClearFailures(l)
           \/ \E right \in BOOLEAN : Verify(l, right)
    \/ \E v \in Visits :
           \/ Touch(v)
           \/ \E s \in Logins : Present(v, s) \/ End(v, s)
    \/ Sweep \/ Tick

Spec == Init /\ [][Next]_vars

-----------------------------------------------------------------------------

(* No sign-in that read the account before it was locked opens a session   *)
(* while the lock lasts; the touch of a request never brings back a        *)
(* session that was revoked meanwhile; and an idle expiry never passes the *)
(* absolute one (login, authenticate, logout, revoke_session,              *)
(* revoke_expired_sessions).                                               *)
Opened(s) == session[s].status = "none" /\ session'[s].status = "live"
SessionsSound ==
    [][\A s \in Logins :
           /\ Opened(s) => account.locked <= now
           /\ session[s].status = "revoked" => session'[s].status = "revoked"
           /\ session'[s].idle <= session'[s].absolute]_vars
=============================================================================
