--------------------------- MODULE Configuration ---------------------------
(***************************************************************************)
(* The administrative configuration: drafts of agents and workflows are    *)
(* edited, evaluated by a background job, published and activated, the     *)
(* model assignment and the seed publish versions of their own, and runs   *)
(* freeze what is active.                                                  *)
(*                                                                         *)
(* Requests load a row, and lock it later without loading it again; what   *)
(* protects the row is the version counter in the WHERE of its UPDATE.  A  *)
(* request, or an execution of a job, is `fresh' while no UPDATE of its    *)
(* row was committed since it loaded it.  Operators named _Slip: see       *)
(* module Runtime.                                                         *)
(***************************************************************************)
EXTENDS Integers, FiniteSets

CONSTANTS
    Agents,       \* versions of agents
    CheckedIn,    \* the agent version of the seeded workflow
    Workflows,    \* versions of workflows
    Seeded,       \* the workflow version of the seed
    Contents,     \* what an agent version can say: prompts, limits, references
    Shipped,      \* the content of the seeded agent
    Sessions,     \* of administrators, with one request at a time each
    Executions,   \* workers that execute jobs
    MaxMessages,  \* bound: deliveries of a job in the broker
    MaxRuns,      \* bound: runs created
    None

ConfigurationAssumption ==
    /\ CheckedIn \in Agents
    /\ Seeded \in Workflows
    /\ Shipped \in Contents
    /\ None \notin Contents \cup Workflows \cup Agents
    /\ Agents \cap Workflows = {}
    /\ MaxMessages \in Nat \ {0}
    /\ MaxRuns \in Nat

VARIABLES
    agent,      \* AgentVersion: lifecycle, content, and the content its
                \* evaluation_metadata calls evaluated
    result,     \* agents with an AgentEvaluationResult that passed the suite
    workflow,   \* WorkflowVersion: lifecycle and the agent it refers to
    active,     \* ActiveConfiguration.workflow_version_id
    audit,      \* the latest configuration.activated event
    request,    \* the request of each session: the row it is for, and what it
                \* read before it locked
    job,        \* AdminJob.status of the evaluation of each agent version
    messages,   \* its deliveries in the broker
    execution,  \* what each worker executes
    passed,     \* history: contents that passed a complete suite, per agent
    runs        \* ConfigurationSnapshot of every run

vars == <<agent, result, workflow, active, audit, request, job, messages, execution, passed, runs>>

Lives == {"absent", "draft", "published"}
Idle == [of |-> None, seen |-> None, fresh |-> TRUE]
Free == [at |-> "idle", of |-> None, content |-> None, verdict |-> FALSE, fresh |-> TRUE]

AgentVersion == [life : Lives, content : Contents, evaluated : Contents \cup {None}]
WorkflowVersion == [life : Lives, agent : Agents]
JobStatus == {"none", "queued", "running", "succeeded", "failed"}
ConfigurationSnapshot == [workflow : Workflows, agent : Agents, content : Contents]

TypeOK ==
    /\ agent \in [Agents -> AgentVersion]
    /\ result \subseteq Agents
    /\ workflow \in [Workflows -> WorkflowVersion]
    /\ active \in Workflows
    /\ audit \in [before : Workflows, after : Workflows]
    /\ request \in [Sessions ->
           [of : Agents \cup Workflows \cup {None}, seen : Workflows \cup {None}, fresh : BOOLEAN]]
    /\ job \in [Agents -> JobStatus]
    /\ messages \in [Agents -> 0..MaxMessages]
    /\ execution \in [Executions -> [at : {"idle", "suite", "suite_done", "writing", "failing", "finishing"},
                                     of : Agents \cup {None}, content : Contents \cup {None},
                                     verdict : BOOLEAN, fresh : BOOLEAN]]
    /\ passed \subseteq Agents \X Contents
    /\ runs \subseteq ConfigurationSnapshot

\* The seed ran: its versions are published, with a static evaluation.
Init ==
    /\ agent = [a \in Agents |-> [life |-> IF a = CheckedIn THEN "published" ELSE "absent",
                                  content |-> Shipped, evaluated |-> None]]
    /\ passed = {<<CheckedIn, Shipped>>}
    /\ result = {CheckedIn}
    /\ workflow = [w \in Workflows |-> [life |-> IF w = Seeded THEN "published" ELSE "absent",
                                        agent |-> CheckedIn]]
    /\ active = Seeded
    /\ audit = [before |-> Seeded, after |-> Seeded]
    /\ request = [s \in Sessions |-> Idle]
    /\ job = [a \in Agents |-> "none"]
    /\ messages = [a \in Agents |-> 0]
    /\ execution = [x \in Executions |-> Free]
    /\ runs = {}

jobVars == <<job, messages>>
records == <<result, audit, passed, runs>>

\* An UPDATE of a row was committed: copies of it, other than the writer's,
\* are stale from now on.
Outdated(S) ==
    [s \in DOMAIN request |-> IF s \in S THEN [request[s] EXCEPT !.fresh = FALSE] ELSE request[s]]
StaleEdits(a) == Outdated({s \in Sessions : request[s].of = a})
StaleActivations == Outdated({s \in Sessions : request[s].of \in Workflows})
StaleExecutions(a) ==
    [x \in Executions |-> IF execution[x].of = a THEN [execution[x] EXCEPT !.fresh = FALSE]
                          ELSE execution[x]]
Answered(s) == [request EXCEPT ![s] = Idle]

(* create_draft: a copy of any version, not evaluated. *)
NewDraft(a) ==
    /\ agent[a].life = "absent"
    /\ \E source \in Agents :
           /\ agent[source].life # "absent"
           /\ agent' = [agent EXCEPT ![a] = [life |-> "draft", content |-> agent[source].content,
                                             evaluated |-> None]]
    /\ UNCHANGED <<workflow, active, request, jobVars, execution, records>>
NewWorkflowDraft(w) ==
    /\ workflow[w].life = "absent"
    /\ \E source \in Workflows :
           /\ workflow[source].life # "absent"
           /\ workflow' = [workflow EXCEPT ![w] = [life |-> "draft", agent |-> workflow[source].agent]]
    /\ UNCHANGED <<agent, active, request, jobVars, execution, records>>

(* edit_draft loads the version, update_draft locks it without loading it  *)
(* again: what it checks is what was loaded.                               *)
LoadDraft(s, a) ==
    /\ request[s].of = None
    /\ agent[a].life = "draft"
    /\ request' = [request EXCEPT ![s] = [of |-> a, seen |-> None, fresh |-> TRUE]]
    /\ UNCHANGED <<agent, workflow, active, jobVars, execution, records>>

(* update_draft: the content and the evaluation change together, or not at *)
(* all.                                                                    *)
Edited(s, a, c) ==
    /\ agent' = [agent EXCEPT ![a].content = c, ![a].evaluated = None]
    /\ request' = [StaleEdits(a) EXCEPT ![s] = Idle]
    /\ execution' = StaleExecutions(a)
Edit(s) ==
    /\ request[s].of \in Agents
    /\ \/ request[s].fresh /\ \E c \in Contents : Edited(s, request[s].of, c)
       \/ ~request[s].fresh /\ request' = Answered(s) /\ UNCHANGED <<agent, execution>>
    /\ UNCHANGED <<workflow, active, jobVars, records>>

\* The same requests for a workflow, whose counter works alike: one step.
EditWorkflow(w) ==
    /\ workflow[w].life = "draft"
    /\ \E a \in Agents : workflow' = [workflow EXCEPT ![w].agent = a]
    /\ UNCHANGED <<agent, active, request, jobVars, execution, records>>

(* publish_draft locks the row as it loads it.  The content must be the    *)
(* one its evaluation names, and a result must have passed.                *)
Evaluated_Slip(a) == a \in result
Evaluated(a) == agent[a].evaluated = agent[a].content /\ a \in result
Publish(a) ==
    /\ agent[a].life = "draft" /\ Evaluated(a)
    /\ agent' = [agent EXCEPT ![a].life = "published"]
    /\ request' = StaleEdits(a)
    /\ execution' = StaleExecutions(a)
    /\ UNCHANGED <<workflow, active, jobVars, records>>
PublishWorkflow(w) ==
    /\ workflow[w].life = "draft"
    /\ agent[workflow[w].agent].life = "published"
    /\ workflow' = [workflow EXCEPT ![w].life = "published"]
    /\ UNCHANGED <<agent, active, request, jobVars, execution, records>>

(* activate reads the active version, activate_version locks it without    *)
(* reading it again.  An activation of the version it read updates no row  *)
(* and is not protected.                                                   *)
LoadActive(s, w) ==
    /\ request[s].of = None
    /\ workflow[w].life = "published"
    /\ request' = [request EXCEPT ![s] = [of |-> w, seen |-> active, fresh |-> TRUE]]
    /\ UNCHANGED <<agent, workflow, active, jobVars, execution, records>>
Activated(s) ==
    /\ active' = request[s].of
    /\ audit' = [before |-> request[s].seen, after |-> request[s].of]
    /\ request' = [StaleActivations EXCEPT ![s] = Idle]
Activate_Slip(s) ==
    /\ request[s].of \in Workflows
    /\ Activated(s)
    /\ UNCHANGED <<agent, workflow, jobVars, execution, result, passed, runs>>
Activate(s) ==
    /\ request[s].of \in Workflows
    /\ LET same == request[s].of = request[s].seen IN
       \/ ~same /\ request[s].fresh /\ Activated(s)
       \/ ~same /\ ~request[s].fresh /\ request' = Answered(s) /\ UNCHANGED <<active, audit>>
       \/ /\ same
          /\ audit' = [before |-> request[s].of, after |-> request[s].of]
          /\ request' = Answered(s)
          /\ UNCHANGED active
    /\ UNCHANGED <<agent, workflow, jobVars, execution, result, passed, runs>>

(* An agent version with the content is found, or published at once with a *)
(* static evaluation in place of the suite.                                *)
PublishedAgent(a, c) ==
    \/ /\ agent[a].life = "published" /\ agent[a].content = c
       /\ UNCHANGED <<agent, result, passed>>
    \/ /\ agent[a].life = "absent"
       /\ agent' = [agent EXCEPT ![a] = [life |-> "published", content |-> c, evaluated |-> None]]
       /\ result' = result \cup {a}
       /\ passed' = passed \cup {<<a, c>>}
PublishedWorkflow(w, a) ==
    /\ workflow[w].life = "absent" \/ workflow[w] = [life |-> "published", agent |-> a]
    /\ workflow' = [workflow EXCEPT ![w] = [life |-> "published", agent |-> a]]

(* save_agent_models_assignment: in one transaction, whose read of the     *)
(* active configuration its UPDATE checks.                                 *)
Assign(a, w, c) ==
    /\ PublishedAgent(a, c)
    /\ PublishedWorkflow(w, a)
    /\ active' = w
    /\ request' = StaleActivations
    /\ UNCHANGED <<jobVars, execution, audit, runs>>

(* seed_analysis_configuration, at every start: it activates in a          *)
(* development environment that is not pinned.                             *)
Seed(a, w) ==
    /\ PublishedAgent(a, Shipped)
    /\ PublishedWorkflow(w, a)
    /\ \/ active' = w /\ request' = StaleActivations
       \/ UNCHANGED <<active, request>>
    /\ UNCHANGED <<jobVars, execution, audit, runs>>

(* evaluate_draft and create_job: one job per idempotency key; the enqueue *)
(* may fail.                                                               *)
RequestEvaluation(a) ==
    /\ agent[a].life = "draft" /\ job[a] = "none"
    /\ job' = [job EXCEPT ![a] = "queued"]
    /\ \/ messages' = [messages EXCEPT ![a] = 1]
       \/ UNCHANGED messages
    /\ UNCHANGED <<agent, workflow, active, request, execution, records>>

(* run_job: the first transaction, and evaluate_agent_version up to its    *)
(* first call; a draft that was published meanwhile fails the job.         *)
StartJob(x, a) ==
    /\ execution[x].at = "idle" /\ messages[a] > 0
    /\ messages' = [messages EXCEPT ![a] = @ - 1]
    /\ IF job[a] # "queued" THEN UNCHANGED <<job, execution>>
       ELSE /\ job' = [job EXCEPT ![a] = "running"]
            /\ execution' = [execution EXCEPT ![x] =
                   [Free EXCEPT !.at = IF agent[a].life = "draft" THEN "suite" ELSE "failing",
                                !.of = a, !.content = agent[a].content]]
    /\ UNCHANGED <<agent, workflow, active, request, records>>

(* The golden cases, one model call or two each: the suite passes, fails,  *)
(* or ends early when the evaluation budget is used up.                    *)
RunSuite(x) ==
    /\ execution[x].at = "suite"
    /\ \E verdict \in BOOLEAN :
           /\ execution' = [execution EXCEPT ![x].at = "suite_done", ![x].verdict = verdict]
           /\ passed' = IF verdict THEN passed \cup {<<execution[x].of, execution[x].content>>}
                        ELSE passed
    /\ UNCHANGED <<agent, result, workflow, active, audit, request, jobVars, runs>>
SuiteRaises(x) ==
    /\ execution[x].at = "suite"
    /\ execution' = [execution EXCEPT ![x].at = "failing"]
    /\ UNCHANGED <<agent, workflow, active, request, jobVars, records>>

(* The draft is loaded again and compared with what was evaluated. *)
LoadEvaluated(x) ==
    /\ execution[x].at = "suite_done"
    /\ LET row == agent[execution[x].of] IN
       execution' = [execution EXCEPT ![x].at = "writing", ![x].fresh = TRUE,
           ![x].verdict = @ /\ row.content = execution[x].content /\ row.life = "draft"]
    /\ UNCHANGED <<agent, workflow, active, request, jobVars, records>>

(* The result and the metadata of the draft, in one transaction.  A lost   *)
(* version check fails the job, and so does the trigger that refuses to    *)
(* change a version that was published while the suite ran.                *)
WriteResult(x) ==
    /\ execution[x].at = "writing"
    /\ LET e == execution[x] IN
       \/ /\ e.fresh /\ agent[e.of].life = "draft"
          /\ agent' = [agent EXCEPT ![e.of].evaluated = IF e.verdict THEN e.content ELSE None]
          /\ result' = IF e.verdict THEN result \cup {e.of} ELSE result
          /\ request' = StaleEdits(e.of)
          /\ execution' = [StaleExecutions(e.of) EXCEPT ![x] = [e EXCEPT !.at = "finishing"]]
       \/ /\ ~e.fresh \/ agent[e.of].life = "published"
          /\ execution' = [execution EXCEPT ![x].at = "failing"]
          /\ UNCHANGED <<agent, result, request>>
    /\ UNCHANGED <<workflow, active, audit, jobVars, passed, runs>>

(* The last transaction of run_job: only a job that is still running. *)
FinishJob(x) ==
    /\ execution[x].at \in {"failing", "finishing"}
    /\ LET a == execution[x].of
           end == IF execution[x].at = "finishing" THEN "succeeded" ELSE "failed" IN
       job' = [job EXCEPT ![a] = IF @ = "running" THEN end ELSE @]
    /\ execution' = [execution EXCEPT ![x] = Free]
    /\ UNCHANGED <<agent, workflow, active, request, messages, records>>

WorkerDies(x) ==
    /\ execution[x].at # "idle"
    /\ execution' = [execution EXCEPT ![x] = Free]
    /\ UNCHANGED <<agent, workflow, active, request, jobVars, records>>

(* recover_jobs: queued jobs, and jobs that have been running for long,    *)
(* whether or not something still executes them.                           *)
Recoverable(a) == job[a] \in {"queued", "running"}
RecoverJob(a) ==
    /\ Recoverable(a) /\ messages[a] < MaxMessages
    /\ job' = [job EXCEPT ![a] = "queued"]
    /\ messages' = [messages EXCEPT ![a] = @ + 1]
    /\ UNCHANGED <<agent, workflow, active, request, execution, records>>

(* build_configuration_snapshot: every version referred to is published.   *)
CreateRun ==
    /\ Cardinality(runs) < MaxRuns
    /\ LET a == workflow[active].agent IN
       /\ workflow[active].life = "published" /\ agent[a].life = "published"
       /\ runs' = runs \cup {[workflow |-> active, agent |-> a, content |-> agent[a].content]}
    /\ UNCHANGED <<agent, result, workflow, active, audit, request, jobVars, execution, passed>>

ExecutionStep(x) == RunSuite(x) \/ SuiteRaises(x) \/ LoadEvaluated(x) \/ WriteResult(x) \/ FinishJob(x)

Next ==
    \/ \E a \in Agents : NewDraft(a) \/ Publish(a) \/ RequestEvaluation(a) \/ RecoverJob(a)
    \/ \E w \in Workflows : NewWorkflowDraft(w) \/ EditWorkflow(w) \/ PublishWorkflow(w)
    \/ \E s \in Sessions : (\E a \in Agents : LoadDraft(s, a)) \/ Edit(s)
    \/ \E s \in Sessions : (\E w \in Workflows : LoadActive(s, w)) \/ Activate(s)
    \/ \E a \in Agents, w \in Workflows : Seed(a, w) \/ \E c \in Contents : Assign(a, w, c)
    \/ \E x \in Executions : (\E a \in Agents : StartJob(x, a)) \/ ExecutionStep(x) \/ WorkerDies(x)
    \/ CreateRun

Spec == Init /\ [][Next]_vars

-----------------------------------------------------------------------------

(* Nothing is published, and so nothing can run, that did not pass a       *)
(* complete suite with exactly the content it has: edits, publications and *)
(* evaluations of an older content may overlap (publish_draft,             *)
(* update_draft, evaluate_agent_version).                                  *)
PublishedIsEvaluated ==
    \A a \in Agents : agent[a].life = "published" => <<a, agent[a].content>> \in passed

(* What a run froze can be read again: the versions its snapshot refers to *)
(* never change, whatever requests were in progress when they were         *)
(* published (build_configuration_snapshot, update_draft).                 *)
RunsReproducible ==
    \A r \in runs : /\ agent[r.agent].life = "published" /\ agent[r.agent].content = r.content
                    /\ workflow[r.workflow] = [life |-> "published", agent |-> r.agent]

(* The prior version an activation records is the one it replaced, so that *)
(* the record can be followed back; two administrators who activate at the *)
(* same time do not overwrite each other unseen (activate_version).        *)
PriorIsReplaced ==
    [][audit'.before # audit'.after /\ audit' # audit => audit'.before = active]_vars
=============================================================================
