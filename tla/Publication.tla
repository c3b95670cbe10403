---------------------------- MODULE Publication ----------------------------
(***************************************************************************)
(* Who may see a report, and until when: the publication of a run's report *)
(* when the run ends, its revocation by an administrator, the retries that *)
(* let a run end again, the readers that hold the public token, and the    *)
(* users that adopt a run started without an account.                      *)
(*                                                                         *)
(* A row written through the ORM carries a version: a write from a copy    *)
(* that is no longer current fails.  The conditional UPDATE of             *)
(* adopt_anonymous_runs neither checks nor raises the version.             *)
(* Operators named _Slip: see module Runtime.                              *)
(***************************************************************************)
CONSTANTS
    Requests,   \* requests of the HTTP API
    UserOf,     \* the signed-in user of each request, or Nobody
    Nobody

PublicationAssumption == Requests = DOMAIN UserOf

VARIABLES
    run,          \* status of the run; "complete" stands for partial too
    tasks,        \* how its tasks stand: active, or how they ended
    report,       \* status of its Report row
    publication,  \* status of its ReportPublication row
    final,        \* the report _finalize_run has read, while it concludes
    owner,        \* user_id of the run
    fresh,        \* requests whose copy of the run's row is current
    step,         \* where each request is
    answer,       \* what it was answered
    late          \* whether the report was revoked before the request began

runVars == <<run, tasks, final>>
rowVars == <<report, publication>>
requestVars == <<step, answer, late>>
vars == <<runVars, rowVars, requestVars, owner, fresh>>

Init ==
    /\ run = "running" /\ tasks = "active" /\ final = "idle"
    /\ report = "none" /\ publication = "none"
    /\ owner = Nobody
    /\ fresh = {}
    /\ step = [r \in Requests |-> "idle"]
    /\ answer = [r \in Requests |-> "none"]
    /\ late = [r \in Requests |-> FALSE]

Written == fresh' = {}

(* _publish_report, the task: a run has one report, and a second execution *)
(* returns the one that exists, whatever its status.                       *)
WriteReport ==
    /\ run = "running" /\ tasks = "active"
    /\ report = "none" /\ report' = "published"
    /\ UNCHANGED <<runVars, publication, requestVars, owner, fresh>>

(* The last task ends: all succeed, which takes a report; or some are      *)
(* skipped, or some fail.                                                  *)
TasksEnd ==
    /\ run = "running" /\ tasks = "active"
    /\ tasks' \in {"skipped", "failed"} \cup IF report = "none" THEN {} ELSE {"succeeded"}
    /\ Written
    /\ UNCHANGED <<run, final, rowVars, requestVars, owner>>

(* _finalize_run holds the run's row, not the report's.                    *)
ReadReport ==
    /\ run = "running" /\ tasks # "active" /\ final = "idle"
    /\ final' = report
    /\ UNCHANGED <<run, tasks, rowVars, requestVars, owner, fresh>>

(* publish_report returns a publication that exists.                       *)
Publish_Slip(p) == "open"
Publish(p) == IF p = "none" THEN "open" ELSE p

(* build_public_projection finds the report without its candidates or      *)
(* nodes and raises: the transaction that ended the last task is undone.   *)
ProjectionFails ==
    /\ final = "published" /\ publication = "none"
    /\ final' = "idle" /\ tasks' = "active"
    /\ UNCHANGED <<run, rowVars, requestVars, owner, fresh>>

Conclude ==
    /\ final # "idle"
    /\ final' = "idle"
    /\ \/ /\ final = "published"
          /\ publication' = Publish(publication)
          /\ run' = "complete"
          /\ Written
       \/ /\ final # "published" /\ tasks = "succeeded"
          /\ run' = "complete"
          /\ Written /\ UNCHANGED publication
       \/ /\ final # "published" /\ tasks = "failed"
          /\ run' = "failed"
          /\ Written /\ UNCHANGED publication
       \/ /\ final # "published" /\ tasks = "skipped"
          /\ UNCHANGED <<run, publication, fresh>>
    /\ UNCHANGED <<tasks, report, requestVars, owner>>

(* request_cancellation, up to the finalization that follows it.           *)
Cancel ==
    /\ run = "running" /\ final = "idle"
    /\ run' = "cancelled"
    /\ Written
    /\ UNCHANGED <<tasks, final, rowVars, requestVars, owner>>

(* retry_task: a failed task of a run that is not cancelled.               *)
Retry ==
    /\ run \in {"complete", "failed"}
    /\ tasks = "failed"
    /\ run' = "running" /\ tasks' = "active"
    /\ Written
    /\ UNCHANGED <<final, rowVars, requestVars, owner>>

(* revoke_report locks the publication and changes both rows.              *)
Revoke ==
    /\ publication = "open"
    /\ publication' = "revoked" /\ report' = "revoked"
    /\ UNCHANGED <<runVars, requestVars, owner, fresh>>

-----------------------------------------------------------------------------

Begin(r, s) ==
    /\ step[r] = "idle"
    /\ step' = [step EXCEPT ![r] = s]
    /\ answer' = [answer EXCEPT ![r] = "none"]
    /\ late' = [late EXCEPT ![r] = report = "revoked"]
Reply(r, a) ==
    /\ step' = [step EXCEPT ![r] = "idle"]
    /\ answer' = [answer EXCEPT ![r] = a]

(* _publication: the row of the token, then the report and the run.        *)
FindPublication(r) ==
    /\ publication = "open"
    /\ Begin(r, "found")
    /\ UNCHANGED <<runVars, rowVars, owner, fresh>>

ServeReport(r) ==
    /\ step[r] = "found"
    /\ Reply(r, IF report = "published" /\ run = "complete" THEN "report" ELSE "not found")
    /\ UNCHANGED <<runVars, rowVars, late, owner, fresh>>

(* adopt_anonymous_runs, in one statement; list_user_researches then lists *)
(* the user's runs with the link of each publication that is open.         *)
Unowned_Slip == TRUE
Unowned == owner = Nobody
AdoptAll(r) ==
    /\ UserOf[r] # Nobody /\ step[r] = "idle"
    /\ owner' = IF Unowned THEN UserOf[r] ELSE owner
    /\ late' = [late EXCEPT ![r] = report = "revoked"]
    /\ answer' = [answer EXCEPT ![r] =
           IF owner' = UserOf[r] /\ publication = "open" THEN "link" ELSE "none"]
    /\ UNCHANGED <<runVars, rowVars, fresh, step>>

(* adopt_run and _authorized_run load the row and find it without owner.   *)
LoadRun(r) ==
    /\ UserOf[r] # Nobody
    /\ Unowned
    /\ Begin(r, "loaded")
    /\ fresh' = fresh \cup {r}
    /\ UNCHANGED <<runVars, rowVars, owner>>

AdoptRun(r) ==
    /\ step[r] = "loaded"
    /\ final = "idle"
    /\ Reply(r, "none")
    /\ IF r \in fresh
       THEN owner' = UserOf[r] /\ Written
       ELSE UNCHANGED owner /\ fresh' = fresh \ {r}
    /\ UNCHANGED <<runVars, rowVars, late>>

Next ==
    \/ WriteReport \/ TasksEnd \/ ReadReport \/ ProjectionFails \/ Conclude
    \/ Cancel \/ Retry \/ Revoke
    \/ \E r \in Requests :
           FindPublication(r) \/ ServeReport(r) \/ AdoptAll(r) \/ LoadRun(r) \/ AdoptRun(r)

Spec == Init /\ [][Next]_vars

-----------------------------------------------------------------------------

(* A revocation is final: no request that begins after it is answered with *)
(* the report or its link, however often the run is retried and concluded, *)
(* and a report that is revoked has no open publication (revoke_report,    *)
(* publish_report, _finalize_run).                                         *)
RevocationHolds ==
    /\ \A r \in Requests : late[r] => answer[r] \notin {"report", "link"}
    /\ report = "revoked" <=> publication = "revoked"

(* A run changes its owner only by a request that had found it without one *)
(* (adopt_anonymous_runs, adopt_run, _authorized_run).                     *)
OwnerKept ==
    [][owner = Nobody \/ owner' = owner \/ \E r \in Requests : step[r] = "loaded"]_vars
=============================================================================
