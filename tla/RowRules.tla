------------------------------ MODULE RowRules ------------------------------
(***************************************************************************)
(* What the triggers of the database let an UPDATE do to a row: one that   *)
(* breaks a rule raises, and rolls its transaction back.  The code is      *)
(* meant never to ask for such a change, except where an action says so    *)
(* (Configuration.WriteResult).                                            *)
(***************************************************************************)

Final(old, new, statuses) == old.status \in statuses => new = old

VersionRule(old, new) == old.life = "published" => new = old
AttemptRule(old, new) == Final(old, new, {"succeeded", "failed", "cancelled", "timed_out"})
RefreshRule(old, new) == Final(old, new, {"succeeded", "failed"})
ReservationRule(old, new) == Final(old, new, {"reconciled", "released"})
UsageRule(old, new) == Final(old, new, {"complete", "reconciled", "unreconcilable"})

\* Of a report and its publication the models keep the status.
ReportRule(old, new) ==
    /\ old = "published" => new \in {"published", "revoked"}
    /\ old = "revoked" => new = old
PublicationRule(old, new) == old = "revoked" => new = old
=============================================================================
