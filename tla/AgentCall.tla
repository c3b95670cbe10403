----------------------------- MODULE AgentCall ------------------------------
(***************************************************************************)
(* One task of an agent through its attempts: the prompt an attempt        *)
(* prepares, the look for a cancellation, the one paid call it may make,   *)
(* what may come back, and what the next attempt is told about it.         *)
(*                                                                         *)
(* The worker of an attempt whose lease lapsed goes on beside the next     *)
(* attempt's.  An attempt's output, if it is refused, is named by the      *)
(* attempt's number (invalid_output_hash).  Module Runtime has the tasks,  *)
(* Budget the reservation of the call, Reporting what the roles return.    *)
(* Operators named _Slip: see module Runtime.                              *)
(***************************************************************************)
EXTENDS Integers, Sequences

CONSTANTS
    MaxAttempts,  \* max_attempts of the task
    MaxManual     \* bound: retries by an administrator

AgentCallAssumption == MaxAttempts \in Nat \ {0} /\ MaxManual \in Nat

VARIABLES
    run,       \* status of the run
    task,      \* status of the task
    allowed,   \* attempts the task may have
    attempts,  \* its attempts, each with what its input asks it to correct
    worker,    \* where the worker of each attempt is
    raised,    \* the error or the output each worker has in hand
    past       \* ghost: workers that were past their look when the run was cancelled

vars == <<run, task, allowed, attempts, worker, raised, past>>

Init ==
    /\ run = "running" /\ task = "queued"
    /\ allowed = MaxAttempts
    /\ attempts = <<>> /\ worker = <<>> /\ raised = <<>>
    /\ past = {}

Numbers == DOMAIN attempts
Last == Len(attempts)

(* An outcome of the handler: the category of its error, whether it may be *)
(* tried again, and whether an output was refused.  "other" stands for     *)
(* limit, configuration, quality, budget, provider and internal.           *)
Outcome(category, again, refusal) == [category |-> category, again |-> again, refusal |-> refusal]
Output == Outcome("none", FALSE, FALSE)

(* execute_task: the input of an attempt quotes the refusal of the attempt *)
(* before it, if that one failed validation.                               *)
Previous == Last
Correction(k) ==
    IF k # 0 /\ attempts[k].error = "validation" THEN attempts[k].refused ELSE 0
Claim ==
    /\ task = "queued" /\ run = "running"
    /\ task' = "running"
    /\ attempts' = Append(attempts,
           [status |-> "running", error |-> "none", refused |-> 0,
            corrects |-> Correction(Previous)])
    /\ worker' = Append(worker, "prepare")
    /\ raised' = Append(raised, Output)
    /\ UNCHANGED <<run, allowed, past>>

Goto(i, place) == worker' = [worker EXCEPT ![i] = place]
Leave(i) ==
    /\ Goto(i, "done")
    /\ raised' = [raised EXCEPT ![i] = Output]
Raise(i, outcome) ==
    /\ Goto(i, "return")
    /\ raised' = [raised EXCEPT ![i] = outcome]

(* _agent_task_input and _call_agent, up to the call: a source that is not *)
(* there is skipped, and input that is wrong or too long is not retried.   *)
Prepare(i) ==
    /\ worker[i] = "prepare"
    /\ \/ Goto(i, "look") /\ UNCHANGED raised
       \/ Raise(i, Output)
       \/ \E category \in {"validation", "other"} : Raise(i, Outcome(category, FALSE, FALSE))
    /\ UNCHANGED <<run, task, allowed, attempts, past>>

LookForCancellation(i) ==
    IF run = "cancelling" \/ task \in {"cancelling", "cancelled"}
    THEN Raise(i, Outcome("cancelled", FALSE, FALSE))
    ELSE Goto(i, "call") /\ UNCHANGED raised
Look(i) ==
    /\ worker[i] = "look"
    /\ LookForCancellation(i)
    /\ UNCHANGED <<run, task, allowed, attempts, past>>

(* reserve_request refuses an attempt that is over, or for a budget; then  *)
(* the request leaves.                                                     *)
Call(i) ==
    /\ worker[i] = "call"
    /\ \/ Raise(i, Outcome("other", FALSE, FALSE))
       \/ attempts[i].status = "running" /\ Goto(i, "sent") /\ UNCHANGED raised
    /\ UNCHANGED <<run, task, allowed, attempts, past>>

(* The answer: an error of the provider, retried or not; content that is   *)
(* no JSON object or not of the schema, which is paid for; or content.     *)
ProviderErrors == {Outcome("transient", TRUE, FALSE), Outcome("other", FALSE, FALSE)}
Refusal == Outcome("validation", TRUE, TRUE)
ReceiveAnswer(i) ==
    /\ worker[i] = "sent"
    /\ \/ Goto(i, "bind") /\ UNCHANGED raised
       \/ \E error \in ProviderErrors \cup {Refusal} : Raise(i, error)
    /\ UNCHANGED <<run, task, allowed, attempts, past>>

(* The content is bound to the sources it names, and post-processed.       *)
Bind(i) ==
    /\ worker[i] = "bind"
    /\ \E outcome \in {Output, Refusal, Outcome("other", FALSE, FALSE)} : Raise(i, outcome)
    /\ UNCHANGED <<run, task, allowed, attempts, past>>

-----------------------------------------------------------------------------

(* _complete_attempt_success and _complete_attempt_failure: nothing is     *)
(* changed once the attempt is over.                                       *)
Over_Slip(i) == FALSE
Over(i) == attempts[i].status # "running"

RetryableCategories == {"transient", "validation"}
Ended(i, status, outcome) ==
    attempts' = [attempts EXCEPT ![i].status = status, ![i].error = outcome.category,
                     ![i].refused = IF outcome.refusal THEN i ELSE 0]

Return(i) ==
    /\ worker[i] = "return"
    /\ Leave(i)
    /\ LET outcome == raised[i] IN
       IF Over(i)
       THEN UNCHANGED <<task, attempts>>
       ELSE IF run = "cancelling" \/ outcome.category = "cancelled"
       THEN /\ Ended(i, "cancelled", [outcome EXCEPT !.category =
                   IF @ = "none" THEN "cancelled" ELSE @])
            /\ task' = "cancelled"
       ELSE IF outcome = Output
       THEN Ended(i, "succeeded", outcome) /\ task' = "succeeded"
       ELSE /\ Ended(i, "failed", outcome)
            /\ task' = IF outcome.again /\ outcome.category \in RetryableCategories
                          /\ i < allowed
                       THEN "queued" ELSE "failed"
    /\ UNCHANGED <<run, allowed, past>>

(* recover_stale_attempts: the worker may only seem to be dead. *)
Lapse ==
    /\ Last # 0 /\ attempts[Last].status = "running"
    /\ IF run = "cancelling"
       THEN /\ attempts' = [attempts EXCEPT ![Last].status = "cancelled", ![Last].error = "cancelled"]
            /\ task' = "cancelled"
       ELSE /\ attempts' = [attempts EXCEPT ![Last].status = "failed",
                                ![Last].error = "worker_interrupted"]
            /\ task' = IF Last < allowed THEN "queued" ELSE "failed"
    /\ UNCHANGED <<run, allowed, worker, raised, past>>

Die(i) ==
    /\ worker[i] # "done" /\ Leave(i)
    /\ UNCHANGED <<run, task, allowed, attempts, past>>

Calling == {"call", "sent", "bind"}
RequestCancellation ==
    /\ run = "running" /\ task \in {"queued", "running"}
    /\ run' = "cancelling"
    /\ task' = IF task = "queued" THEN "cancelled" ELSE "cancelling"
    /\ past' = {i \in Numbers : worker[i] \in Calling}
    /\ UNCHANGED <<allowed, attempts, worker, raised>>

RetryTask ==
    /\ run = "running" /\ task = "failed"
    /\ Last < MaxAttempts + MaxManual
    /\ task' = "queued"
    /\ allowed' = IF allowed > Last THEN allowed ELSE Last + 1
    /\ UNCHANGED <<run, attempts, worker, raised, past>>

Next ==
    \/ Claim \/ Lapse \/ RequestCancellation \/ RetryTask
    \/ \E i \in Numbers :
           \/ Prepare(i) \/ Look(i) \/ Call(i) \/ ReceiveAnswer(i) \/ Bind(i)
           \/ Return(i) \/ Die(i)

Spec == Init /\ [][Next]_vars

-----------------------------------------------------------------------------

(* An attempt corrects the refused output of the attempt right before it,  *)
(* and none when that one was interrupted, refused nothing or went on      *)
(* beside it: what its prompt quotes stays what the record says            *)
(* (execute_task, _complete_attempt_failure).                              *)
CorrectionsFollow ==
    \A i \in Numbers \ {1} :
        attempts[i].corrects = IF attempts[i-1].error = "validation" THEN attempts[i-1].refused ELSE 0

(* After a cancellation no worker makes a call but one that had looked just *)
(* before it (task_is_cancelled, request_cancellation).                    *)
CallsStop == run = "cancelling" => \A i \in Numbers : worker[i] \in Calling => i \in past

CallsFollowUp == CorrectionsFollow /\ CallsStop
=============================================================================
