------------------------ MODULE ConfigurationProofs -------------------------
(***************************************************************************)
(* For any number of administrators, workers, versions and contents: what  *)
(* is published passed a suite with exactly the content it has, runs stay  *)
(* reproducible, an activation records the version it replaced, and a      *)
(* version that is published does not change.                              *)
(***************************************************************************)
EXTENDS Configuration, RowRules, TLAPS

Request == [of : Agents \cup Workflows \cup {None}, seen : Workflows \cup {None}, fresh : BOOLEAN]
Stages == {"idle", "suite", "suite_done", "writing", "failing", "finishing"}
Execution == [at : Stages, of : Agents \cup {None}, content : Contents \cup {None},
              verdict : BOOLEAN, fresh : BOOLEAN]

Typed ==
    /\ agent \in [Agents -> AgentVersion]
    /\ workflow \in [Workflows -> WorkflowVersion]
    /\ active \in Workflows
    /\ request \in [Sessions -> Request]
    /\ execution \in [Executions -> Execution]
    /\ runs \subseteq ConfigurationSnapshot

(* A request that is fresh sees the row as it is: a draft that was not     *)
(* published since, and the active version.                                *)
EditsFit == \A s \in Sessions :
    request[s].of \in Agents /\ request[s].fresh => agent[request[s].of].life = "draft"
ActivationsFit == \A s \in Sessions :
    request[s].of \in Workflows /\ request[s].fresh => request[s].seen = active

(* What an evaluation names, and what a worker is about to write, passed.  *)
EvaluationsFit == \A a \in Agents :
    agent[a].evaluated # None => <<a, agent[a].evaluated>> \in passed
VerdictFits(e, done) ==
    /\ e.at # "idle" => e.of \in Agents /\ e.content \in Contents
    /\ e.at \in {"suite_done", "writing"} /\ e.verdict => <<e.of, e.content>> \in done
VerdictsFit == \A x \in Executions : VerdictFits(execution[x], passed)

ConfigInv ==
    /\ Typed /\ EditsFit /\ ActivationsFit /\ EvaluationsFit /\ VerdictsFit
    /\ PublishedIsEvaluated /\ RunsReproducible

PriorStep == audit'.before # audit'.after /\ audit' # audit => audit'.before = active

LEMMA ConfigInitially == ConfigurationAssumption /\ Init => ConfigInv
<1> SUFFICES ASSUME ConfigurationAssumption, Init PROVE ConfigInv
    OBVIOUS
<1>1. Typed
      BY DEF ConfigurationAssumption, Init, Typed, AgentVersion, WorkflowVersion, Lives, Idle, Free,
             Request, Execution, Stages
<1>2. EditsFit /\ ActivationsFit
      BY DEF ConfigurationAssumption, Init, EditsFit, ActivationsFit, Idle
<1>3. EvaluationsFit /\ VerdictsFit
      BY DEF Init, EvaluationsFit, VerdictsFit, VerdictFits, Free
<1>4. PublishedIsEvaluated /\ RunsReproducible
      BY DEF Init, PublishedIsEvaluated, RunsReproducible
<1> QED BY <1>1, <1>2, <1>3, <1>4 DEF ConfigInv

-----------------------------------------------------------------------------
(* What the actions do to each row *)

(* A version of an agent that is not published is written, and named as    *)
(* evaluated or published only with a content that passed.                 *)
AgentWritten(a, row) ==
    /\ agent[a].life # "published"
    /\ agent' = [agent EXCEPT ![a] = row]
    /\ row.evaluated # None => <<a, row.evaluated>> \in passed'
    /\ row.life = "published" => <<a, row.content>> \in passed'
AgentsStep ==
    /\ passed \subseteq passed'
    /\ agent' = agent \/ \E a \in Agents, row \in AgentVersion : AgentWritten(a, row)

(* A published workflow is written only as it is. *)
WorkflowsStep ==
    workflow' = workflow \/ \E w \in Workflows, row \in WorkflowVersion :
        /\ workflow' = [workflow EXCEPT ![w] = row]
        /\ workflow[w].life = "published" => row = workflow[w]

RunsStep ==
    \/ runs' = runs
    \/ \E w \in Workflows :
           /\ workflow[w].life = "published" /\ agent[workflow[w].agent].life = "published"
           /\ runs' = runs \cup {[workflow |-> w, agent |-> workflow[w].agent,
                                  content |-> agent[workflow[w].agent].content]}

RequestsStep == request' \in [Sessions -> Request] /\ EditsFit' /\ ActivationsFit'
ExecutionsStep == execution' \in [Executions -> Execution] /\ VerdictsFit'

AgentsKept ==
    /\ agent' \in [Agents -> AgentVersion] /\ EvaluationsFit' /\ PublishedIsEvaluated'
    /\ \A a \in Agents : agent[a].life = "published" => agent'[a] = agent[a]
RunsFit ==
    /\ runs' \subseteq ConfigurationSnapshot
    /\ \A r \in runs' : /\ agent[r.agent].life = "published" /\ agent[r.agent].content = r.content
                        /\ workflow[r.workflow] = [life |-> "published", agent |-> r.agent]

LEMMA StepsKeep ==
    ASSUME ConfigInv, AgentsStep, WorkflowsStep, RunsStep, RequestsStep, ExecutionsStep,
           active' \in Workflows
    PROVE  ConfigInv'
<1>1. AgentsKept
  <2>1. CASE agent' = agent
        BY <2>1 DEF AgentsStep, ConfigInv, Typed, EvaluationsFit, PublishedIsEvaluated, AgentsKept
  <2>2. ASSUME NEW a \in Agents, NEW row \in AgentVersion, AgentWritten(a, row)
        PROVE  AgentsKept
    <3>1. \A b \in Agents : agent'[b] = IF b = a THEN row ELSE agent[b]
          BY <2>2 DEF AgentWritten, ConfigInv, Typed
    <3>2. agent' \in [Agents -> AgentVersion]
          BY <2>2 DEF AgentWritten, ConfigInv, Typed
    <3>3. EvaluationsFit' /\ PublishedIsEvaluated'
          BY <2>2, <3>1 DEF AgentWritten, AgentsStep, ConfigInv, EvaluationsFit, PublishedIsEvaluated
    <3> QED BY <2>2, <3>1, <3>2, <3>3 DEF AgentWritten, AgentsKept
  <2> QED BY <2>1, <2>2 DEF AgentsStep
<1>2. /\ workflow' \in [Workflows -> WorkflowVersion]
      /\ \A w \in Workflows : workflow[w].life = "published" => workflow'[w] = workflow[w]
      BY DEF WorkflowsStep, ConfigInv, Typed
<1>3. RunsFit
  <2>1. CASE runs' = runs
        BY <2>1 DEF ConfigInv, Typed, RunsReproducible, RunsFit
  <2>2. ASSUME NEW w \in Workflows,
               workflow[w].life = "published", agent[workflow[w].agent].life = "published",
               runs' = runs \cup {[workflow |-> w, agent |-> workflow[w].agent,
                                   content |-> agent[workflow[w].agent].content]}
        PROVE  RunsFit
    <3>1. workflow[w] \in WorkflowVersion /\ agent[workflow[w].agent] \in AgentVersion
          BY DEF ConfigInv, Typed, WorkflowVersion
    <3>2. workflow[w] = [life |-> "published", agent |-> workflow[w].agent]
          BY <2>2, <3>1 DEF WorkflowVersion
    <3> QED BY <2>2, <3>1, <3>2
            DEF ConfigInv, Typed, RunsReproducible, ConfigurationSnapshot, WorkflowVersion,
                AgentVersion, RunsFit
  <2> QED BY <2>1, <2>2 DEF RunsStep
<1>4. RunsReproducible'
  <2> SUFFICES ASSUME NEW r \in runs'
               PROVE  /\ agent'[r.agent].life = "published" /\ agent'[r.agent].content = r.content
                      /\ workflow'[r.workflow] = [life |-> "published", agent |-> r.agent]
      BY DEF RunsReproducible
  <2>1. r.agent \in Agents /\ r.workflow \in Workflows
        BY <1>3 DEF RunsFit, ConfigurationSnapshot
  <2>2. /\ agent[r.agent].life = "published" /\ agent[r.agent].content = r.content
        /\ workflow[r.workflow] = [life |-> "published", agent |-> r.agent]
        BY <1>3 DEF RunsFit
  <2>3. workflow[r.workflow].life = "published"
        BY <2>2
  <2> QED BY <1>1, <1>2, <2>1, <2>2, <2>3 DEF AgentsKept
<1> QED BY <1>1, <1>2, <1>3, <1>4 DEF AgentsKept, RunsFit, RequestsStep, ExecutionsStep, ConfigInv, Typed

-----------------------------------------------------------------------------
(* Requests and executions of which nothing but the freshness changes *)

LEMMA OutdatedIs ==
    ASSUME ConfigInv, NEW S
    PROVE  /\ Outdated(S) \in [Sessions -> Request]
           /\ \A s \in Sessions : /\ Outdated(S)[s].of = request[s].of
                                  /\ Outdated(S)[s].seen = request[s].seen
                                  /\ Outdated(S)[s].fresh => request[s].fresh /\ s \notin S
<1>1. DOMAIN request = Sessions /\ \A s \in Sessions : request[s] \in Request
      BY DEF ConfigInv, Typed
<1> QED BY <1>1 DEF Outdated, Request

LEMMA StaleExecutionsIs ==
    ASSUME ConfigInv, NEW a
    PROVE  /\ StaleExecutions(a) \in [Executions -> Execution]
           /\ \A x \in Executions : /\ StaleExecutions(a)[x].at = execution[x].at
                                    /\ StaleExecutions(a)[x].of = execution[x].of
                                    /\ StaleExecutions(a)[x].content = execution[x].content
                                    /\ StaleExecutions(a)[x].verdict = execution[x].verdict
<1>1. \A x \in Executions : execution[x] \in Execution
      BY DEF ConfigInv, Typed
<1> QED BY <1>1 DEF StaleExecutions, Execution

LEMMA VerdictsStay ==
    ASSUME ConfigInv, passed \subseteq passed', execution' \in [Executions -> Execution],
           \A x \in Executions : /\ execution'[x].at = execution[x].at
                                 /\ execution'[x].of = execution[x].of
                                 /\ execution'[x].content = execution[x].content
                                 /\ execution'[x].verdict = execution[x].verdict
    PROVE  ExecutionsStep
BY DEF ConfigInv, VerdictsFit, VerdictFits, ExecutionsStep

LEMMA ExecutionsStay ==
    ASSUME ConfigInv, passed \subseteq passed', UNCHANGED execution PROVE ExecutionsStep
BY VerdictsStay DEF ConfigInv, Typed

LEMMA RequestsStay ==
    ASSUME ConfigInv, UNCHANGED <<request, active>>,
           \A a \in Agents : agent[a].life = "draft" => agent'[a].life = "draft"
    PROVE  RequestsStep
BY DEF ConfigInv, Typed, EditsFit, ActivationsFit, RequestsStep

(* The request of s ends, and the others at most become stale: those for a *)
(* draft that is written or published, or for an activation.               *)
LEMMA RequestsAge ==
    ASSUME ConfigInv, request' \in [Sessions -> Request],
           \A s \in Sessions : request'[s] = Idle \/
               /\ request'[s].of = request[s].of /\ request'[s].seen = request[s].seen
               /\ request'[s].fresh => request[s].fresh
               /\ request'[s].fresh /\ request'[s].of \in Agents =>
                      agent'[request'[s].of].life = "draft"
               /\ request'[s].fresh /\ request'[s].of \in Workflows => active' = active,
           ConfigurationAssumption
    PROVE  RequestsStep
BY DEF ConfigInv, EditsFit, ActivationsFit, RequestsStep, Idle, ConfigurationAssumption

-----------------------------------------------------------------------------
(* Drafts and publication *)

LEMMA NewDraftKeeps ==
    ASSUME ConfigurationAssumption, ConfigInv, NEW a \in Agents, NewDraft(a) PROVE ConfigInv'
<1>1. PICK source \in Agents :
          agent' = [agent EXCEPT ![a] = [life |-> "draft", content |-> agent[source].content,
                                         evaluated |-> None]]
      BY DEF NewDraft
<1> DEFINE row == [life |-> "draft", content |-> agent[source].content, evaluated |-> None]
<1>2. row \in AgentVersion /\ row.life = "draft" /\ row.evaluated = None
      BY DEF ConfigInv, Typed, AgentVersion, Lives
<1>3. agent[a].life = "absent" /\ agent' = [agent EXCEPT ![a] = row]
      BY <1>1 DEF NewDraft
<1> HIDE DEF row
<1>4. AgentsStep
      BY <1>2, <1>3 DEF AgentsStep, AgentWritten, NewDraft, records
<1>5. RequestsStep
      BY <1>2, <1>3, RequestsStay DEF NewDraft, ConfigInv, Typed
<1>6. ExecutionsStep
      BY ExecutionsStay DEF NewDraft, records
<1> QED BY <1>4, <1>5, <1>6, StepsKeep DEF NewDraft, records, WorkflowsStep, RunsStep, ConfigInv, Typed

LEMMA WorkflowDraftsKeep ==
    ASSUME ConfigurationAssumption, ConfigInv, NEW w \in Workflows,
           NewWorkflowDraft(w) \/ EditWorkflow(w) \/ PublishWorkflow(w)
    PROVE  ConfigInv'
<1>1. UNCHANGED <<agent, active, request, execution, passed, runs>>
      BY DEF NewWorkflowDraft, EditWorkflow, PublishWorkflow, records
<1>2. workflow[w] \in WorkflowVersion /\ workflow[w].life # "published"
      BY DEF NewWorkflowDraft, EditWorkflow, PublishWorkflow, ConfigInv, Typed
<1>3. \E row \in WorkflowVersion : workflow' = [workflow EXCEPT ![w] = row]
  <2>1. CASE NewWorkflowDraft(w)
    <3>1. PICK source \in Workflows :
              workflow' = [workflow EXCEPT ![w] = [life |-> "draft", agent |-> workflow[source].agent]]
          BY <2>1 DEF NewWorkflowDraft
    <3>2. [life |-> "draft", agent |-> workflow[source].agent] \in WorkflowVersion
          BY DEF ConfigInv, Typed, WorkflowVersion, Lives
    <3> QED BY <3>1, <3>2
  <2>2. CASE EditWorkflow(w)
    <3>1. PICK a \in Agents : workflow' = [workflow EXCEPT ![w].agent = a]
          BY <2>2 DEF EditWorkflow
    <3>2. [workflow[w] EXCEPT !.agent = a] \in WorkflowVersion
          BY <1>2 DEF WorkflowVersion
    <3> QED BY <3>1, <3>2
  <2>3. CASE PublishWorkflow(w)
    <3>1. workflow' = [workflow EXCEPT ![w].life = "published"]
          BY <2>3 DEF PublishWorkflow
    <3>2. [workflow[w] EXCEPT !.life = "published"] \in WorkflowVersion
          BY <1>2 DEF WorkflowVersion, Lives
    <3> QED BY <3>1, <3>2
  <2> QED BY <2>1, <2>2, <2>3
<1>4. WorkflowsStep
      BY <1>2, <1>3 DEF WorkflowsStep
<1>5. AgentsStep /\ RunsStep /\ RequestsStep /\ ExecutionsStep
      BY <1>1, RequestsStay, ExecutionsStay DEF AgentsStep, RunsStep
<1> QED BY <1>1, <1>4, <1>5, StepsKeep DEF ConfigInv, Typed

LEMMA LoadsKeep ==
    ASSUME ConfigurationAssumption, ConfigInv, NEW s \in Sessions,
           (\E a \in Agents : LoadDraft(s, a)) \/ (\E w \in Workflows : LoadActive(s, w))
    PROVE  ConfigInv'
<1>1. UNCHANGED <<agent, workflow, active, execution, passed, runs>>
      BY DEF LoadDraft, LoadActive, records
<1> DEFINE Loaded(row) == /\ request' = [request EXCEPT ![s] = row]
                          /\ row.of \in Agents => agent[row.of].life = "draft"
                          /\ row.of \in Workflows => row.seen = active
<1>2. \E row \in Request : Loaded(row)
  <2>1. ASSUME NEW a \in Agents, LoadDraft(s, a) PROVE \E row \in Request : Loaded(row)
    <3>1. [of |-> a, seen |-> None, fresh |-> TRUE] \in Request
          BY DEF Request
    <3>2. a \notin Workflows
          BY DEF ConfigurationAssumption
    <3> QED BY <2>1, <3>1, <3>2 DEF LoadDraft
  <2>2. ASSUME NEW w \in Workflows, LoadActive(s, w) PROVE \E row \in Request : Loaded(row)
    <3>1. [of |-> w, seen |-> active, fresh |-> TRUE] \in Request
          BY DEF Request, ConfigInv, Typed
    <3>2. w \notin Agents
          BY DEF ConfigurationAssumption
    <3> QED BY <2>2, <3>1, <3>2 DEF LoadActive
  <2> QED BY <2>1, <2>2
<1>3. RequestsStep
  <2>1. PICK row \in Request : Loaded(row)
        BY <1>2
  <2>2. request' \in [Sessions -> Request]
        /\ \A z \in Sessions : request'[z] = IF z = s THEN row ELSE request[z]
        BY <2>1 DEF ConfigInv, Typed
  <2> QED BY <1>1, <2>1, <2>2 DEF RequestsStep, EditsFit, ActivationsFit, ConfigInv
<1>4. AgentsStep /\ WorkflowsStep /\ RunsStep /\ ExecutionsStep
      BY <1>1, ExecutionsStay DEF AgentsStep, WorkflowsStep, RunsStep
<1> QED BY <1>1, <1>3, <1>4, StepsKeep DEF ConfigInv, Typed

LEMMA EditKeeps ==
    ASSUME ConfigurationAssumption, ConfigInv, NEW s \in Sessions, Edit(s) PROVE ConfigInv'
<1>1. UNCHANGED <<workflow, active, passed, runs>> /\ Idle \in Request /\ request[s] \in Request
      BY DEF Edit, records, Idle, Request, ConfigInv, Typed
<1>2. CASE request[s].fresh
  <2> DEFINE a == request[s].of
  <2>1. PICK c \in Contents : Edited(s, a, c)
        BY <1>2, <1>1 DEF Edit, Request
  <2>2. a \in Agents /\ agent[a].life = "draft"
        BY <1>2 DEF Edit, ConfigInv, EditsFit
  <2> DEFINE row == [agent[a] EXCEPT !.content = c, !.evaluated = None]
  <2> HIDE DEF a
  <2>3. row \in AgentVersion /\ row.life = "draft" /\ row.evaluated = None
        BY <2>2 DEF ConfigInv, Typed, AgentVersion
  <2>4. agent' = [agent EXCEPT ![a] = row]
        BY <2>1, <2>2 DEF Edited, ConfigInv, Typed, AgentVersion
  <2> HIDE DEF row
  <2>5. AgentsStep
        BY <1>1, <2>2, <2>3, <2>4 DEF AgentsStep, AgentWritten
  <2>6. request' = [StaleEdits(a) EXCEPT ![s] = Idle] /\ execution' = StaleExecutions(a)
        BY <2>1 DEF Edited
  <2>7. RequestsStep
    <3> DEFINE S == {z \in Sessions : request[z].of = a}
    <3>1. StaleEdits(a) = Outdated(S)
          BY DEF StaleEdits
    <3> HIDE DEF S
    <3>2. request' \in [Sessions -> Request]
          BY <1>1, <2>6, <3>1, OutdatedIs
    <3>3. ASSUME NEW z \in Sessions, z # s
          PROVE  /\ request'[z].of = request[z].of /\ request'[z].seen = request[z].seen
                 /\ request'[z].fresh => request[z].fresh
          BY <2>6, <3>1, <3>3, OutdatedIs
    <3>4. \A b \in Agents : agent[b].life = "draft" => agent'[b].life = "draft"
          BY <2>2, <2>3, <2>4 DEF ConfigInv, Typed
    <3>5. request'[s] = Idle
          BY <2>6, <3>1, OutdatedIs
    <3>6. \A z \in Sessions : z # s /\ request'[z].fresh /\ request'[z].of \in Agents =>
              agent'[request'[z].of].life = "draft"
          BY <3>3, <3>4 DEF ConfigInv, EditsFit
    <3> QED BY <1>1, <3>2, <3>3, <3>5, <3>6, RequestsAge
  <2>8. ExecutionsStep
        BY <1>1, <2>6, StaleExecutionsIs, VerdictsStay
  <2> QED BY <1>1, <2>5, <2>7, <2>8, StepsKeep DEF WorkflowsStep, RunsStep, ConfigInv, Typed
<1>3. CASE ~request[s].fresh
  <2>1. request' = [request EXCEPT ![s] = Idle] /\ UNCHANGED <<agent, execution>>
        BY <1>3 DEF Edit, Answered
  <2>2. RequestsStep
    <3>1. /\ request' \in [Sessions -> Request]
          /\ \A z \in Sessions : request'[z] = IF z = s THEN Idle ELSE request[z]
          BY <1>1, <2>1 DEF ConfigInv, Typed
    <3>2. \A z \in Sessions : z # s /\ request'[z].fresh /\ request'[z].of \in Agents =>
              agent'[request'[z].of].life = "draft"
          BY <2>1, <3>1 DEF ConfigInv, EditsFit
    <3> QED BY <1>1, <3>1, <3>2, RequestsAge
  <2>3. AgentsStep /\ ExecutionsStep
        BY <1>1, <2>1, ExecutionsStay DEF AgentsStep
  <2> QED BY <1>1, <2>2, <2>3, StepsKeep DEF WorkflowsStep, RunsStep, ConfigInv, Typed
<1> QED BY <1>2, <1>3

LEMMA PublishKeeps ==
    ASSUME ConfigurationAssumption, ConfigInv, NEW a \in Agents, Publish(a) PROVE ConfigInv'
<1> DEFINE row == [agent[a] EXCEPT !.life = "published"]
           S == {z \in Sessions : request[z].of = a}
<1>1. /\ agent[a].life = "draft" /\ Evaluated(a) /\ agent[a] \in AgentVersion
      /\ UNCHANGED <<workflow, active, passed, runs>>
      /\ agent' = [agent EXCEPT ![a].life = "published"]
      /\ request' = Outdated(S) /\ execution' = StaleExecutions(a)
      BY DEF Publish, records, StaleEdits, ConfigInv, Typed
<1>2. agent' = [agent EXCEPT ![a] = row]
      BY <1>1
<1>3. /\ row \in AgentVersion /\ row.life = "published"
      /\ row.content = agent[a].content /\ row.evaluated = agent[a].evaluated
      BY <1>1 DEF AgentVersion, Lives
<1> HIDE DEF row
<1>4. <<a, agent[a].content>> \in passed /\ (agent[a].evaluated # None => <<a, agent[a].evaluated>> \in passed)
  <2>1. agent[a].content # None
        BY <1>1 DEF AgentVersion, ConfigurationAssumption
  <2> QED BY <1>1, <2>1 DEF Evaluated, ConfigInv, EvaluationsFit
<1>5. AgentsStep
      BY <1>1, <1>2, <1>3, <1>4 DEF AgentsStep, AgentWritten
<1>6. RequestsStep
  <2>1. /\ request' \in [Sessions -> Request]
        /\ \A z \in Sessions : /\ request'[z].of = request[z].of /\ request'[z].seen = request[z].seen
                               /\ request'[z].fresh => request[z].fresh /\ z \notin S
        BY <1>1, OutdatedIs
  <2>2. \A z \in Sessions : request'[z].fresh /\ request'[z].of \in Agents =>
            agent'[request'[z].of].life = "draft"
        BY <2>1, <1>2 DEF ConfigInv, Typed, EditsFit
  <2> HIDE DEF S
  <2> QED BY <1>1, <2>1, <2>2, RequestsAge
<1>7. ExecutionsStep
      BY <1>1, StaleExecutionsIs, VerdictsStay
<1> QED BY <1>1, <1>5, <1>6, <1>7, StepsKeep DEF WorkflowsStep, RunsStep, ConfigInv, Typed

-----------------------------------------------------------------------------
(* Activation *)

LEMMA ActivateKeeps ==
    ASSUME ConfigurationAssumption, ConfigInv, NEW s \in Sessions, Activate(s)
    PROVE  ConfigInv' /\ PriorStep
<1> DEFINE S == {z \in Sessions : request[z].of \in Workflows}
<1>1. /\ UNCHANGED <<agent, workflow, execution, passed, runs>> /\ Idle \in Request
      /\ request[s].of \in Workflows /\ request[s].of \notin Agents /\ active \in Workflows
      BY DEF Activate, Idle, Request, ConfigInv, Typed, ConfigurationAssumption
<1>2. AgentsStep /\ WorkflowsStep /\ RunsStep /\ ExecutionsStep
      BY <1>1, ExecutionsStay DEF AgentsStep, WorkflowsStep, RunsStep
<1>3. CASE request[s].fresh /\ Activated(s)
  <2>1. /\ active' = request[s].of /\ audit' = [before |-> request[s].seen, after |-> request[s].of]
        /\ request' = [Outdated(S) EXCEPT ![s] = Idle]
        BY <1>3 DEF Activated, StaleActivations
  <2>2. request[s].seen = active
        BY <1>1, <1>3 DEF ConfigInv, ActivationsFit
  <2>3. /\ request' \in [Sessions -> Request] /\ request'[s] = Idle
        /\ \A z \in Sessions : z # s =>
               /\ request'[z].of = request[z].of /\ request'[z].seen = request[z].seen
               /\ request'[z].fresh => request[z].fresh /\ z \notin S
    <3>1. /\ Outdated(S) \in [Sessions -> Request]
          /\ \A z \in Sessions : /\ Outdated(S)[z].of = request[z].of
                                 /\ Outdated(S)[z].seen = request[z].seen
                                 /\ Outdated(S)[z].fresh => request[z].fresh /\ z \notin S
          BY OutdatedIs
    <3> HIDE DEF S
    <3> QED BY <1>1, <2>1, <3>1
  <2>4. \A z \in Sessions : z # s /\ request'[z].fresh =>
            /\ request'[z].of \notin Workflows
            /\ request'[z].of \in Agents => agent'[request'[z].of].life = "draft"
        BY <1>1, <2>3 DEF ConfigInv, EditsFit
  <2>5. RequestsStep
    <3> HIDE DEF S
    <3> QED BY <2>3, <2>4, RequestsAge
  <2> QED BY <1>1, <1>2, <2>1, <2>2, <2>5, StepsKeep DEF PriorStep
<1>4. CASE request' = Answered(s) /\ UNCHANGED active
           /\ (audit' = audit \/ audit' = [before |-> request[s].of, after |-> request[s].of])
  <2>1. /\ request' \in [Sessions -> Request]
        /\ \A z \in Sessions : request'[z] = IF z = s THEN Idle ELSE request[z]
        BY <1>1, <1>4 DEF Answered, ConfigInv, Typed
  <2>2. \A z \in Sessions : z # s /\ request'[z].fresh /\ request'[z].of \in Agents =>
            agent'[request'[z].of].life = "draft"
        BY <1>1, <2>1 DEF ConfigInv, EditsFit
  <2>3. RequestsStep
        BY <1>4, <2>1, <2>2, RequestsAge
  <2> QED BY <1>1, <1>2, <1>4, <2>3, StepsKeep DEF PriorStep
<1> QED BY <1>3, <1>4 DEF Activate

(* The model assignment and the seed write a published agent and workflow  *)
(* and may activate it in the same transaction.                            *)
LEMMA PublishedPairKeeps ==
    ASSUME ConfigurationAssumption, ConfigInv,
           NEW a \in Agents, NEW w \in Workflows, NEW c \in Contents,
           PublishedAgent(a, c), PublishedWorkflow(w, a),
           \/ active' = w /\ request' = StaleActivations
           \/ UNCHANGED <<active, request>>,
           UNCHANGED <<execution, audit, runs>>
    PROVE  ConfigInv'
<1>1. AgentsStep
  <2>1. CASE UNCHANGED <<agent, result, passed>>
        BY <2>1 DEF AgentsStep
  <2>2. CASE /\ agent[a].life = "absent"
             /\ agent' = [agent EXCEPT ![a] = [life |-> "published", content |-> c, evaluated |-> None]]
             /\ passed' = passed \cup {<<a, c>>}
    <3> DEFINE row == [life |-> "published", content |-> c, evaluated |-> None]
    <3>1. row \in AgentVersion /\ row.content = c /\ row.evaluated = None
          BY DEF AgentVersion, Lives
    <3>2. agent' = [agent EXCEPT ![a] = row]
          BY <2>2
    <3> HIDE DEF row
    <3> QED BY <2>2, <3>1, <3>2 DEF AgentsStep, AgentWritten
  <2> QED BY <2>1, <2>2 DEF PublishedAgent
<1>2. \A b \in Agents : agent[b].life = "draft" => agent'[b].life = "draft"
      BY DEF PublishedAgent, ConfigInv, Typed
<1>3. passed \subseteq passed'
      BY DEF PublishedAgent
<1>4. WorkflowsStep
  <2> DEFINE row == [life |-> "published", agent |-> a]
  <2>1. row \in WorkflowVersion /\ workflow' = [workflow EXCEPT ![w] = row]
        /\ (workflow[w].life = "absent" \/ workflow[w] = row)
        BY DEF PublishedWorkflow, WorkflowVersion, Lives
  <2> HIDE DEF row
  <2> QED BY <2>1 DEF WorkflowsStep
<1>5. RequestsStep /\ active' \in Workflows
  <2>1. CASE UNCHANGED <<active, request>>
        BY <1>2, <2>1, RequestsStay DEF ConfigInv, Typed
  <2>2. CASE active' = w /\ request' = StaleActivations
    <3> DEFINE S == {z \in Sessions : request[z].of \in Workflows}
    <3>1. /\ request' \in [Sessions -> Request]
          /\ \A z \in Sessions : /\ request'[z].of = request[z].of /\ request'[z].seen = request[z].seen
                                 /\ request'[z].fresh => request[z].fresh /\ z \notin S
          BY <2>2, OutdatedIs DEF StaleActivations
    <3>2. \A z \in Sessions : request'[z].fresh =>
              /\ request'[z].of \notin Workflows
              /\ request'[z].of \in Agents => agent'[request'[z].of].life = "draft"
          BY <1>2, <3>1 DEF ConfigInv, EditsFit
    <3> HIDE DEF S
    <3> QED BY <2>2, <3>1, <3>2, RequestsAge
  <2> QED BY <2>1, <2>2
<1>6. ExecutionsStep
      BY <1>3, ExecutionsStay
<1> QED BY <1>1, <1>4, <1>5, <1>6, StepsKeep DEF RunsStep

-----------------------------------------------------------------------------
(* Jobs and runs *)

(* The execution of x changes, and with it at most what passed.            *)
LEMMA ExecutionKeeps ==
    ASSUME ConfigurationAssumption, ConfigInv, NEW x \in Executions, NEW e \in Execution,
           execution' = [execution EXCEPT ![x] = e], VerdictFits(e, passed'), passed \subseteq passed',
           UNCHANGED <<agent, workflow, active, request, runs>>
    PROVE  ConfigInv'
<1>1. /\ execution' \in [Executions -> Execution]
      /\ \A z \in Executions : execution'[z] = IF z = x THEN e ELSE execution[z]
      BY DEF ConfigInv, Typed
<1>2. ExecutionsStep
      BY <1>1 DEF ExecutionsStep, ConfigInv, VerdictsFit, VerdictFits
<1>3. AgentsStep /\ WorkflowsStep /\ RunsStep /\ RequestsStep
      BY RequestsStay DEF AgentsStep, WorkflowsStep, RunsStep
<1> QED BY <1>2, <1>3, StepsKeep DEF ConfigInv, Typed

LEMMA StartJobKeeps ==
    ASSUME ConfigurationAssumption, ConfigInv, NEW x \in Executions, NEW a \in Agents, StartJob(x, a)
    PROVE  ConfigInv'
<1> DEFINE place == IF agent[a].life = "draft" THEN "suite" ELSE "failing"
           e == [Free EXCEPT !.at = place, !.of = a, !.content = agent[a].content]
<1>1. UNCHANGED <<agent, workflow, active, request, passed, runs>>
      BY DEF StartJob, records
<1>2. CASE execution' = execution
  <2>1. AgentsStep /\ WorkflowsStep /\ RunsStep /\ RequestsStep /\ ExecutionsStep
        BY <1>1, <1>2, RequestsStay, ExecutionsStay DEF AgentsStep, WorkflowsStep, RunsStep
  <2> QED BY <1>1, <2>1, StepsKeep DEF ConfigInv, Typed
<1>3. CASE execution' = [execution EXCEPT ![x] = e]
  <2>1. place \in {"suite", "failing"}
        OBVIOUS
  <2> HIDE DEF place
  <2>2. agent[a].content \in Contents
        BY DEF ConfigInv, Typed, AgentVersion
  <2>3. e \in Execution
        BY <2>1, <2>2 DEF Free, Execution, Stages
  <2>4. VerdictFits(e, passed')
        BY <1>1, <2>1, <2>2 DEF VerdictFits, Free
  <2> HIDE DEF e
  <2> QED BY <1>1, <1>3, <2>3, <2>4, ExecutionKeeps
<1> QED BY <1>2, <1>3 DEF StartJob

LEMMA RunSuiteKeeps ==
    ASSUME ConfigurationAssumption, ConfigInv, NEW x \in Executions, RunSuite(x)
    PROVE  ConfigInv'
<1>1. /\ execution[x] \in Execution /\ execution[x].at = "suite"
      /\ execution[x].of \in Agents /\ execution[x].content \in Contents
      /\ UNCHANGED <<agent, workflow, active, request, runs>>
      BY DEF RunSuite, ConfigInv, Typed, VerdictsFit, VerdictFits
<1>2. PICK verdict \in BOOLEAN :
          /\ execution' = [execution EXCEPT ![x].at = "suite_done", ![x].verdict = verdict]
          /\ passed' = IF verdict THEN passed \cup {<<execution[x].of, execution[x].content>>}
                       ELSE passed
      BY DEF RunSuite
<1> DEFINE e == [execution[x] EXCEPT !.at = "suite_done", !.verdict = verdict]
<1>3. e \in Execution /\ e.of = execution[x].of /\ e.content = execution[x].content
      /\ e.verdict = verdict
      BY <1>1 DEF Execution, Stages
<1>4. execution' = [execution EXCEPT ![x] = e]
      BY <1>1, <1>2 DEF Execution
<1> HIDE DEF e
<1>5. VerdictFits(e, passed') /\ passed \subseteq passed'
      BY <1>1, <1>2, <1>3 DEF VerdictFits
<1> QED BY <1>1, <1>3, <1>4, <1>5, ExecutionKeeps

LEMMA ReleaseKeeps ==
    ASSUME ConfigurationAssumption, ConfigInv, NEW x \in Executions,
           SuiteRaises(x) \/ FinishJob(x) \/ WorkerDies(x)
    PROVE  ConfigInv'
<1>1. UNCHANGED <<agent, workflow, active, request, passed, runs>>
      BY DEF SuiteRaises, FinishJob, WorkerDies, records
<1>2. execution[x] \in Execution /\ VerdictFits(execution[x], passed)
      BY DEF ConfigInv, Typed, VerdictsFit
<1>3. CASE SuiteRaises(x)
  <2> DEFINE e == [execution[x] EXCEPT !.at = "failing"]
  <2>1. e \in Execution /\ VerdictFits(e, passed') /\ execution' = [execution EXCEPT ![x] = e]
        BY <1>2, <1>3 DEF SuiteRaises, VerdictFits, Execution, Stages
  <2> HIDE DEF e
  <2> QED BY <1>1, <2>1, ExecutionKeeps
<1>4. CASE FinishJob(x) \/ WorkerDies(x)
  <2>1. Free \in Execution /\ VerdictFits(Free, passed') /\ execution' = [execution EXCEPT ![x] = Free]
        BY <1>4 DEF FinishJob, WorkerDies, Free, VerdictFits, Execution, Stages
  <2> QED BY <1>1, <2>1, ExecutionKeeps
<1> QED BY <1>3, <1>4

LEMMA LoadEvaluatedKeeps ==
    ASSUME ConfigurationAssumption, ConfigInv, NEW x \in Executions, LoadEvaluated(x)
    PROVE  ConfigInv'
<1> DEFINE row == agent[execution[x].of]
           same == row.content = execution[x].content /\ row.life = "draft"
           verdict == execution[x].verdict /\ same
           e == [execution[x] EXCEPT !.at = "writing", !.fresh = TRUE, !.verdict = verdict]
<1>1. /\ execution[x] \in Execution /\ execution[x].at = "suite_done" /\ VerdictFits(execution[x], passed)
      /\ UNCHANGED <<agent, workflow, active, request, passed, runs>>
      BY DEF LoadEvaluated, ConfigInv, Typed, VerdictsFit, records
<1>2. execution' = [execution EXCEPT ![x].at = "writing", ![x].fresh = TRUE, ![x].verdict = verdict]
      BY <1>1 DEF LoadEvaluated
<1>3. verdict \in BOOLEAN /\ (verdict => execution[x].verdict)
      OBVIOUS
<1> HIDE DEF verdict
<1>4. /\ e \in Execution /\ e.of = execution[x].of /\ e.content = execution[x].content
      /\ e.verdict = verdict
      BY <1>1, <1>3 DEF Execution, Stages
<1>5. execution' = [execution EXCEPT ![x] = e]
      BY <1>1, <1>2 DEF Execution
<1> HIDE DEF e
<1>6. VerdictFits(e, passed')
      BY <1>1, <1>3, <1>4 DEF VerdictFits
<1> QED BY <1>1, <1>4, <1>5, <1>6, ExecutionKeeps

LEMMA WriteResultKeeps ==
    ASSUME ConfigurationAssumption, ConfigInv, NEW x \in Executions, WriteResult(x)
    PROVE  ConfigInv'
<1> DEFINE e == execution[x]
           a == e.of
<1>1. /\ e \in Execution /\ e.at = "writing" /\ a \in Agents /\ e.content \in Contents
      /\ e.verdict => <<a, e.content>> \in passed
      /\ UNCHANGED <<workflow, active, passed, runs>>
      BY DEF WriteResult, ConfigInv, Typed, VerdictsFit, VerdictFits
<1>2. CASE execution' = [execution EXCEPT ![x].at = "failing"] /\ UNCHANGED <<agent, request>>
  <2> DEFINE failing == [execution[x] EXCEPT !.at = "failing"]
  <2>1. failing \in Execution /\ VerdictFits(failing, passed')
        /\ execution' = [execution EXCEPT ![x] = failing]
        BY <1>1, <1>2 DEF VerdictFits, Execution, Stages
  <2> HIDE DEF failing
  <2> QED BY <1>1, <1>2, <2>1, ExecutionKeeps
<1>3. CASE /\ agent[a].life = "draft"
           /\ agent' = [agent EXCEPT ![a].evaluated = IF e.verdict THEN e.content ELSE None]
           /\ request' = StaleEdits(a)
           /\ execution' = [StaleExecutions(a) EXCEPT ![x] = [e EXCEPT !.at = "finishing"]]
  <2> DEFINE named == IF e.verdict THEN e.content ELSE None
             row == [agent[a] EXCEPT !.evaluated = named]
  <2>1. named \in Contents \cup {None} /\ (named # None => <<a, named>> \in passed)
        BY <1>1
  <2>2. agent' = [agent EXCEPT ![a].evaluated = named]
        BY <1>3
  <2> HIDE DEF named
  <2>3. row \in AgentVersion /\ row.life = "draft" /\ row.evaluated = named
        /\ agent' = [agent EXCEPT ![a] = row]
    <3>1. agent[a] \in AgentVersion /\ agent[a].life = "draft"
          BY <1>1, <1>3 DEF ConfigInv, Typed
    <3>2. row \in AgentVersion /\ row.life = "draft" /\ row.evaluated = named
          BY <2>1, <3>1 DEF AgentVersion
    <3>3. agent' = [agent EXCEPT ![a] = row]
          BY <2>2
    <3> QED BY <3>2, <3>3
  <2> HIDE DEF row
  <2>4. AgentsStep
        BY <1>1, <1>3, <2>1, <2>3 DEF AgentsStep, AgentWritten
  <2>5. \A b \in Agents : agent[b].life = "draft" => agent'[b].life = "draft"
        BY <1>1, <2>3 DEF ConfigInv, Typed
  <2>6. RequestsStep
    <3> DEFINE S == {z \in Sessions : request[z].of = a}
    <3>1. request' = Outdated(S)
          BY <1>3 DEF StaleEdits
    <3> HIDE DEF S
    <3>2. /\ request' \in [Sessions -> Request]
          /\ \A z \in Sessions : /\ request'[z].of = request[z].of /\ request'[z].seen = request[z].seen
                                 /\ request'[z].fresh => request[z].fresh
          BY <3>1, OutdatedIs
    <3>3. \A z \in Sessions : request'[z].fresh /\ request'[z].of \in Agents =>
              agent'[request'[z].of].life = "draft"
          BY <2>5, <3>2 DEF ConfigInv, EditsFit
    <3> QED BY <1>1, <3>2, <3>3, RequestsAge
  <2>7. ExecutionsStep
    <3> DEFINE done == [e EXCEPT !.at = "finishing"]
    <3>1. done \in Execution /\ VerdictFits(done, passed)
          BY <1>1 DEF Execution, Stages, VerdictFits
    <3>2. execution' = [StaleExecutions(a) EXCEPT ![x] = done]
          BY <1>3
    <3> HIDE DEF done
    <3>3. /\ StaleExecutions(a) \in [Executions -> Execution]
          /\ \A z \in Executions : VerdictFits(StaleExecutions(a)[z], passed)
          BY StaleExecutionsIs DEF ConfigInv, VerdictsFit, VerdictFits
    <3>4. /\ execution' \in [Executions -> Execution]
          /\ \A z \in Executions : VerdictFits(execution'[z], passed)
          BY <3>1, <3>2, <3>3
    <3> QED BY <1>1, <3>4 DEF ExecutionsStep, VerdictsFit, VerdictFits
  <2> QED BY <1>1, <2>4, <2>6, <2>7, StepsKeep DEF WorkflowsStep, RunsStep, ConfigInv, Typed
<1> QED BY <1>2, <1>3 DEF WriteResult

LEMMA CreateRunKeeps ==
    ASSUME ConfigurationAssumption, ConfigInv, CreateRun PROVE ConfigInv'
<1>1. UNCHANGED <<agent, workflow, active, request, execution, passed>> /\ active \in Workflows
      BY DEF CreateRun, ConfigInv, Typed
<1>2. RunsStep
      BY <1>1 DEF CreateRun, RunsStep
<1>3. AgentsStep /\ WorkflowsStep /\ RequestsStep /\ ExecutionsStep
      BY <1>1, RequestsStay, ExecutionsStay DEF AgentsStep, WorkflowsStep
<1> QED BY <1>1, <1>2, <1>3, StepsKeep

LEMMA QuietKeeps ==
    ASSUME ConfigInv, UNCHANGED <<agent, workflow, active, request, execution, passed, runs>>
    PROVE  ConfigInv'
BY DEF ConfigInv, Typed, EditsFit, ActivationsFit, EvaluationsFit, VerdictsFit, VerdictFits,
       PublishedIsEvaluated, RunsReproducible

-----------------------------------------------------------------------------

LEMMA ConfigInvKept ==
    ASSUME ConfigurationAssumption, ConfigInv, [Next]_vars
    PROVE  ConfigInv' /\ (PriorStep \/ UNCHANGED vars)
<1>1. CASE UNCHANGED vars
      BY <1>1, QuietKeeps DEF vars
<1>2. ASSUME NEW s \in Sessions, Activate(s)
      PROVE  ConfigInv' /\ PriorStep
      BY <1>2, ActivateKeeps
<1>3. ASSUME NEW a \in Agents,
             NewDraft(a) \/ Publish(a) \/ RequestEvaluation(a) \/ RecoverJob(a)
      PROVE  ConfigInv' /\ PriorStep
  <2>1. UNCHANGED audit
        BY <1>3 DEF NewDraft, Publish, RequestEvaluation, RecoverJob, records
  <2>2. ASSUME RequestEvaluation(a) \/ RecoverJob(a) PROVE ConfigInv'
        BY <2>2, QuietKeeps DEF RequestEvaluation, RecoverJob, records
  <2> QED BY <1>3, <2>1, <2>2, NewDraftKeeps, PublishKeeps DEF PriorStep
<1>4. ASSUME NEW w \in Workflows, NewWorkflowDraft(w) \/ EditWorkflow(w) \/ PublishWorkflow(w)
      PROVE  ConfigInv' /\ PriorStep
  <2>1. UNCHANGED audit
        BY <1>4 DEF NewWorkflowDraft, EditWorkflow, PublishWorkflow, records
  <2> QED BY <1>4, <2>1, WorkflowDraftsKeep DEF PriorStep
<1>5. ASSUME NEW s \in Sessions, (\E a \in Agents : LoadDraft(s, a)) \/ Edit(s)
                                 \/ (\E w \in Workflows : LoadActive(s, w))
      PROVE  ConfigInv' /\ PriorStep
  <2>1. UNCHANGED audit
        BY <1>5 DEF LoadDraft, Edit, LoadActive, records
  <2> QED BY <1>5, <2>1, LoadsKeep, EditKeeps DEF PriorStep
<1>6. ASSUME NEW a \in Agents, NEW w \in Workflows, Seed(a, w) \/ \E c \in Contents : Assign(a, w, c)
      PROVE  ConfigInv' /\ PriorStep
  <2>1. UNCHANGED audit
        BY <1>6 DEF Seed, Assign
  <2>2. ASSUME Seed(a, w) PROVE ConfigInv'
        BY <2>2, PublishedPairKeeps DEF Seed, ConfigurationAssumption
  <2>3. ASSUME NEW c \in Contents, Assign(a, w, c) PROVE ConfigInv'
        BY <2>3, PublishedPairKeeps DEF Assign
  <2> QED BY <1>6, <2>1, <2>2, <2>3 DEF PriorStep
<1>7. ASSUME NEW x \in Executions,
             (\E a \in Agents : StartJob(x, a)) \/ ExecutionStep(x) \/ WorkerDies(x)
      PROVE  ConfigInv' /\ PriorStep
  <2>1. UNCHANGED audit
        BY <1>7 DEF StartJob, ExecutionStep, RunSuite, SuiteRaises, LoadEvaluated, WriteResult,
                    FinishJob, WorkerDies, records
  <2> QED BY <1>7, <2>1, StartJobKeeps, RunSuiteKeeps, ReleaseKeeps, LoadEvaluatedKeeps,
          WriteResultKeeps DEF ExecutionStep, PriorStep
<1>8. CASE CreateRun
  <2>1. UNCHANGED audit
        BY <1>8 DEF CreateRun
  <2> QED BY <1>8, <2>1, CreateRunKeeps DEF PriorStep
<1> QED BY <1>1, <1>2, <1>3, <1>4, <1>5, <1>6, <1>7, <1>8 DEF Next

(* Nothing is published, and so nothing can run, that did not pass a       *)
(* complete suite with exactly the content it has, for any number of       *)
(* overlapping edits and evaluations (publish_draft, update_draft).        *)
THEOREM PublicationsPassed == ConfigurationAssumption => (Spec => []PublishedIsEvaluated)
<1> SUFFICES ASSUME ConfigurationAssumption PROVE Spec => []PublishedIsEvaluated
    OBVIOUS
<1>1. ConfigInv => PublishedIsEvaluated
      BY DEF ConfigInv
<1>2. Init => ConfigInv
      BY ConfigInitially
<1>3. ConfigInv /\ [Next]_vars => ConfigInv'
      BY ConfigInvKept
<1> QED BY <1>1, <1>2, <1>3, PTL DEF Spec

(* The versions that the snapshot of a run refers to never change          *)
(* (build_configuration_snapshot).                                         *)
THEOREM SnapshotsStay == ConfigurationAssumption => (Spec => []RunsReproducible)
<1> SUFFICES ASSUME ConfigurationAssumption PROVE Spec => []RunsReproducible
    OBVIOUS
<1>1. ConfigInv => RunsReproducible
      BY DEF ConfigInv
<1>2. Init => ConfigInv
      BY ConfigInitially
<1>3. ConfigInv /\ [Next]_vars => ConfigInv'
      BY ConfigInvKept
<1> QED BY <1>1, <1>2, <1>3, PTL DEF Spec

(* An activation records the version it replaced, for any number of        *)
(* administrators that activate at the same time (activate_version).       *)
THEOREM PriorsAreReplaced == ConfigurationAssumption => (Spec => PriorIsReplaced)
<1> SUFFICES ASSUME ConfigurationAssumption PROVE Spec => PriorIsReplaced
    OBVIOUS
<1>1. Init => ConfigInv
      BY ConfigInitially
<1>2. ConfigInv /\ [Next]_vars => ConfigInv'
      BY ConfigInvKept
<1>3. ConfigInv /\ [Next]_vars => [PriorStep]_vars
      BY ConfigInvKept
<1>4. Spec => [][PriorStep]_vars
      BY <1>1, <1>2, <1>3, PTL DEF Spec
<1> QED BY <1>4 DEF PriorIsReplaced, PriorStep

-----------------------------------------------------------------------------
(* Versions that are published: module RowRules *)

AgentsStay == \A a \in Agents : VersionRule(agent[a], agent'[a])
WorkflowsStay == \A w \in Workflows : VersionRule(workflow[w], workflow'[w])

VersionsKept ==
    /\ \A a \in Agents : VersionRule(agent[a], agent'[a])
    /\ \A w \in Workflows : VersionRule(workflow[w], workflow'[w])

LEMMA OneAgent ==
    ASSUME Typed, NEW a \in Agents, agent[a].life # "published",
           NEW row, agent' = [agent EXCEPT ![a] = row]
    PROVE  AgentsStay
BY DEF Typed, AgentsStay, VersionRule

LEMMA OneWorkflow ==
    ASSUME Typed, NEW w \in Workflows, NEW row, workflow[w].life # "published" \/ workflow[w] = row,
           workflow' = [workflow EXCEPT ![w] = row]
    PROVE  WorkflowsStay
BY DEF Typed, WorkflowsStay, VersionRule

LEMMA SameRows == (UNCHANGED agent => AgentsStay) /\ (UNCHANGED workflow => WorkflowsStay)
BY DEF AgentsStay, WorkflowsStay, VersionRule

(* An edit reaches a draft only: the request is fresh.                     *)
LEMMA EditStays == ASSUME ConfigInv, NEW s \in Sessions, Edit(s) PROVE AgentsStay /\ WorkflowsStay
<1>1. UNCHANGED workflow /\ request[s].of \in Agents
      BY DEF Edit
<1>2. CASE UNCHANGED agent
      BY <1>1, <1>2, SameRows
<1>3. ASSUME request[s].fresh, NEW c \in Contents, Edited(s, request[s].of, c)
      PROVE  AgentsStay
  <2> DEFINE a == request[s].of
             row == [agent[a] EXCEPT !.content = c, !.evaluated = None]
  <2>1. a \in Agents /\ agent[a].life = "draft"
        BY <1>1, <1>3 DEF ConfigInv, EditsFit
  <2>2. agent' = [agent EXCEPT ![a] = row]
        BY <1>3, <2>1 DEF Edited, ConfigInv, Typed, AgentVersion
  <2> HIDE DEF a, row
  <2> QED BY <2>1, <2>2, OneAgent DEF ConfigInv
<1> QED BY <1>1, <1>2, <1>3, SameRows DEF Edit

LEMMA DraftStays ==
    ASSUME ConfigInv, NEW a \in Agents, NewDraft(a) \/ Publish(a)
    PROVE  AgentsStay /\ WorkflowsStay
<1>1. UNCHANGED workflow /\ agent[a].life # "published"
      BY DEF NewDraft, Publish
<1>2. \E row : agent' = [agent EXCEPT ![a] = row]
  <2>1. CASE NewDraft(a)
        BY <2>1 DEF NewDraft
  <2>2. CASE Publish(a)
        BY <2>2 DEF Publish
  <2> QED BY <2>1, <2>2
<1> QED BY <1>1, <1>2, OneAgent, SameRows DEF ConfigInv

LEMMA WorkflowDraftStays ==
    ASSUME ConfigInv, NEW w \in Workflows,
           NewWorkflowDraft(w) \/ EditWorkflow(w) \/ PublishWorkflow(w)
    PROVE  AgentsStay /\ WorkflowsStay
<1>1. UNCHANGED agent /\ workflow[w].life # "published"
      BY DEF NewWorkflowDraft, EditWorkflow, PublishWorkflow
<1>2. \E row : workflow' = [workflow EXCEPT ![w] = row]
  <2>1. CASE NewWorkflowDraft(w)
        BY <2>1 DEF NewWorkflowDraft
  <2>2. CASE EditWorkflow(w)
        BY <2>2 DEF EditWorkflow
  <2>3. CASE PublishWorkflow(w)
        BY <2>3 DEF PublishWorkflow
  <2> QED BY <2>1, <2>2, <2>3
<1> QED BY <1>1, <1>2, OneWorkflow, SameRows DEF ConfigInv

LEMMA PairStays ==
    ASSUME ConfigInv, NEW a \in Agents, NEW w \in Workflows, NEW c,
           PublishedAgent(a, c), PublishedWorkflow(w, a)
    PROVE  AgentsStay /\ WorkflowsStay
<1>1. \/ UNCHANGED agent
      \/ agent[a].life # "published" /\ \E row : agent' = [agent EXCEPT ![a] = row]
      BY DEF PublishedAgent
<1>2. \E row : /\ workflow[w].life # "published" \/ workflow[w] = row
               /\ workflow' = [workflow EXCEPT ![w] = row]
      BY DEF PublishedWorkflow
<1> QED BY <1>1, <1>2, OneAgent, OneWorkflow, SameRows DEF ConfigInv

(* The result of an evaluation is written to a draft only: the trigger     *)
(* refuses a version that was published meanwhile.                         *)
LEMMA ResultStays ==
    ASSUME ConfigInv, NEW x \in Executions, WriteResult(x)
    PROVE  AgentsStay /\ WorkflowsStay
<1> DEFINE a == execution[x].of
<1>1. UNCHANGED workflow /\ a \in Agents
  <2>1. VerdictFits(execution[x], passed) /\ execution[x].at = "writing"
        BY DEF ConfigInv, VerdictsFit, WriteResult
  <2> QED BY <2>1 DEF VerdictFits, WriteResult
<1>2. \/ UNCHANGED agent
      \/ agent[a].life = "draft" /\ \E v : agent' = [agent EXCEPT ![a].evaluated = v]
      BY DEF WriteResult
<1>3. (\E v : agent' = [agent EXCEPT ![a].evaluated = v]) =>
          \E row : agent' = [agent EXCEPT ![a] = row]
      OBVIOUS
<1> HIDE DEF a
<1> QED BY <1>1, <1>2, <1>3, OneAgent, SameRows DEF ConfigInv

LEMMA VersionsStay ==
    ASSUME ConfigurationAssumption, ConfigInv, [Next]_vars
    PROVE  AgentsStay /\ WorkflowsStay
<1>1. CASE UNCHANGED <<agent, workflow>>
      BY <1>1, SameRows
<1>2. ASSUME NEW a \in Agents,
             NewDraft(a) \/ Publish(a) \/ RequestEvaluation(a) \/ RecoverJob(a)
      PROVE  AgentsStay /\ WorkflowsStay
      BY <1>1, <1>2, DraftStays DEF RequestEvaluation, RecoverJob
<1>3. ASSUME NEW w \in Workflows, NewWorkflowDraft(w) \/ EditWorkflow(w) \/ PublishWorkflow(w)
      PROVE  AgentsStay /\ WorkflowsStay
      BY <1>3, WorkflowDraftStays
<1>4. ASSUME NEW s \in Sessions,
             \/ (\E a \in Agents : LoadDraft(s, a)) \/ Edit(s)
             \/ (\E w \in Workflows : LoadActive(s, w)) \/ Activate(s)
      PROVE  AgentsStay /\ WorkflowsStay
      BY <1>1, <1>4, EditStays DEF LoadDraft, LoadActive, Activate
<1>5. ASSUME NEW a \in Agents, NEW w \in Workflows, Seed(a, w) \/ \E c \in Contents : Assign(a, w, c)
      PROVE  AgentsStay /\ WorkflowsStay
      BY <1>5, PairStays DEF Seed, Assign
<1>6. ASSUME NEW x \in Executions,
             (\E a \in Agents : StartJob(x, a)) \/ ExecutionStep(x) \/ WorkerDies(x)
      PROVE  AgentsStay /\ WorkflowsStay
  <2>1. CASE WriteResult(x)
        BY <2>1, ResultStays
  <2>2. CASE ~WriteResult(x)
        BY <1>1, <1>6, <2>2, Zenon DEF StartJob, ExecutionStep, RunSuite, SuiteRaises,
           LoadEvaluated, FinishJob, WorkerDies
  <2> QED BY <2>1, <2>2
<1>7. CASE CreateRun
      BY <1>1, <1>7 DEF CreateRun
<1> QED BY <1>1, <1>2, <1>3, <1>4, <1>5, <1>6, <1>7 DEF Next, vars

(* A version of an agent or of a workflow that is published is never       *)
(* changed, whatever edits, evaluations and publications overlap: no step  *)
(* asks the database for what its triggers refuse (update_draft,           *)
(* evaluate_agent_version, reviewlens_prevent_immutable_change).           *)
THEOREM PublishedVersionsStay == ConfigurationAssumption => (Spec => [][VersionsKept]_vars)
<1> SUFFICES ASSUME ConfigurationAssumption PROVE Spec => [][VersionsKept]_vars
    OBVIOUS
<1>1. Init => ConfigInv
      BY ConfigInitially
<1>2. ConfigInv /\ [Next]_vars => ConfigInv'
      BY ConfigInvKept
<1>3. ConfigInv /\ [Next]_vars => VersionsKept
      BY VersionsStay DEF VersionsKept, AgentsStay, WorkflowsStay
<1> QED BY <1>1, <1>2, <1>3, PTL DEF Spec
=============================================================================
