---------------------------- MODULE RunContracts ----------------------------
(***************************************************************************)
(* The status vocabularies of a run, a task, an attempt and an outbox row, *)
(* and the two transition tables every status assignment of the runtime is *)
(* checked against (backend/app/runtime/contracts.py).                     *)
(***************************************************************************)

RunStatus == {"queued", "running", "waiting_for_input", "complete", "partial",
              "failed", "cancelling", "cancelled"}

TaskStatus == {"blocked", "queued", "running", "waiting_for_input",
               "succeeded", "failed", "skipped", "cancelling", "cancelled",
               "timed_out"}

AttemptStatus == {"running", "succeeded", "failed", "cancelled", "timed_out"}

OutboxStatus == {"pending", "processing", "published"}

RunTerminal == {"complete", "partial", "failed", "cancelled"}

TaskTerminal == {"succeeded", "failed", "skipped", "cancelled", "timed_out"}

AttemptTerminal == {"succeeded", "failed", "cancelled", "timed_out"}

\* RUN_TRANSITIONS: the statuses a run may move to from s.
RunTransitions(s) ==
    CASE s = "queued"            -> {"running", "cancelling", "failed"}
      [] s = "running"           -> {"complete", "partial", "failed",
                                     "cancelling", "waiting_for_input"}
      [] s = "waiting_for_input" -> {"running", "cancelling", "failed"}
      [] s = "cancelling"        -> {"cancelled"}
      [] s = "failed"            -> {"running"}
      [] OTHER                   -> {}

\* TASK_TRANSITIONS: the statuses a task may move to from s.
TaskTransitions(s) ==
    CASE s = "blocked"           -> {"queued", "skipped", "cancelled"}
      [] s = "queued"            -> {"running", "failed", "timed_out",
                                     "cancelling", "cancelled"}
      [] s = "running"           -> {"succeeded", "queued", "failed",
                                     "cancelling", "cancelled", "timed_out",
                                     "waiting_for_input"}
      [] s = "waiting_for_input" -> {"succeeded", "failed", "cancelled"}
      [] s = "cancelling"        -> {"cancelled", "succeeded"}
      [] s = "skipped"           -> {"blocked"}
      [] s \in {"failed", "timed_out"} -> {"queued"}
      [] OTHER                   -> {}

\* require_run_transition / require_task_transition: staying put is legal.
LegalRunMove(from, to) == to = from \/ to \in RunTransitions(from)
LegalTaskMove(from, to) == to = from \/ to \in TaskTransitions(from)
=============================================================================
