----------------------------- MODULE RunPromise -----------------------------
(***************************************************************************)
(* What a run promises to the person who asked for it, without attempts,   *)
(* deliveries or workers: results are accepted one by one and kept, a      *)
(* report is published over accepted audits only, and the run ends in the  *)
(* way its results and its report say, at most once unless an              *)
(* administrator reopens a failed run.                                     *)
(***************************************************************************)
CONSTANTS Tasks, Auditor

VARIABLES
    phase,      \* "open" until the run is cancelled or ends
    accepted,   \* the tasks whose result has been accepted
    published   \* the kind of report that exists

Ended == {"complete", "partial", "failed", "cancelled"}

Init == phase = "open" /\ accepted = {} /\ published = "none"

\* The ways an open run with the given accepted results may end.
Outcome(results) ==
    IF published # "none" THEN {published}
    ELSE IF results = Tasks THEN {"complete"} ELSE {"failed"}

\* An open run accepts at most one more result, and may end with it.
Advance ==
    /\ phase = "open"
    /\ \/ accepted' = accepted
       \/ \E t \in Tasks \ accepted : accepted' = accepted \cup {t}
    /\ phase' \in {"open"} \cup Outcome(accepted')
    /\ UNCHANGED published

Publish ==
    /\ phase \in {"open", "cancelling"}
    /\ published = "none"
    /\ Auditor \subseteq accepted
    /\ published' \in {"complete", "partial"}
    /\ UNCHANGED <<phase, accepted>>

Cancel ==
    /\ phase \in {"open", "cancelling"}
    /\ phase' \in {"cancelling", "cancelled"}
    /\ UNCHANGED <<accepted, published>>

Reopen ==
    /\ phase = "failed"
    /\ phase' = "open"
    /\ UNCHANGED <<accepted, published>>

Next == Advance \/ Publish \/ Cancel \/ Reopen

Spec == Init /\ [][Next]_<<phase, accepted, published>>
=============================================================================
