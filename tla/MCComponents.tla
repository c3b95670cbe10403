--------------------------- MODULE MCComponents ----------------------------
(***************************************************************************)
(* The components beside the runtime that share no state with each other,  *)
(* in one run: a behaviour is a behaviour of the one its scenario names.   *)
(***************************************************************************)
EXTENDS Integers, Sequences, FiniteSets, RowRules

VARIABLES scenario

(* Dependency walks, over every graph of four tasks.                       *)
VARIABLES deps, fanIn, ts

Walks == INSTANCE DependencyWalk WITH Size <- 4

(* Captions: two slots, whose queues hold the same two videos, and two     *)
(* routes; a caption is fresh for two ticks of a clock that ticks thrice.  *)
VARIABLES now, cache, nodes, blocked, place, pos, fetches, refused, held, offered

Captions == INSTANCE Captions WITH
    tries <- fetches,
    Slots <- {"s1", "s2"},
    Videos <- {"v1", "v2"},
    QueueOf <- [s \in {"s1", "s2"} |-> <<"v1", "v2">>],
    Routes <- {"r1", "r2"},
    TTL <- 2, Lookups <- 8, MaxTries <- 1, MaxTime <- 3, Faults <- {"evict"}

(* Knowledge: two transactions, a node with versions and one without.      *)
VARIABLES lock, current, author, file, node, workspace, written, edges, linking,
    published, graph, rebuild

Graph == INSTANCE Knowledge WITH
    Writers <- {"w1", "w2"},
    Nodes <- {"n1", "n2"},
    Immutable <- {"n2"},
    MaxVersions <- 2, MaxLinks <- 1, Faults <- {"disk", "neo4j"}

(* Configuration: the seeded versions and one more of each kind.           *)
VARIABLES agent, result, workflow, active, audit, request, job, messages, execution, passed, runs

Configuration == INSTANCE Configuration WITH
    Agents <- {"a0", "a1"}, CheckedIn <- "a0",
    Workflows <- {"w0", "w1"}, Seeded <- "w0",
    Contents <- {"x", "y"}, Shipped <- "x",
    Sessions <- {"admin"}, Executions <- {"job worker"},
    MaxMessages <- 1, MaxRuns <- 1, None <- "none"

(* Paid calls of an evaluation run: two calls estimate two units and use   *)
(* less or more; the run limits its tokens to three units, the evaluation  *)
(* its cost, and no task, agent or day has a limit.                        *)
VARIABLES gateway, reservation, usage, runBudget, evaluation, daily, account, today,
    sweep, fetching, reopened

Units(k, l) == [tokens |-> k, cost |-> l]
Budget == INSTANCE Budget WITH
    Runs <- {"run"}, PublicRuns <- {}, EvalRuns <- {"run"},
    Calls <- {"c1", "c2"},
    RunOf <- [c \in {"c1", "c2"} |-> "run"],
    Caps <- {}, CapOf <- [c \in {"c1", "c2"} |-> {}], CapMax <- <<>>,
    Resources <- {"tokens", "cost"}, Cost <- "cost",
    Estimate <- [c \in {"c1", "c2"} |-> Units(2, 2)],
    Usages <- {Units(3, 1)},
    RunMax <- [r \in {"run"} |-> Units(3, 9)],
    EvalMax <- Units(9, 3),
    DailyCap <- <<>>,
    MaxAttempts <- 2, Days <- 1,
    ManagementKey <- TRUE, Faults <- {"crash"}

(* The report: a source with one claim and one with two; the third finding *)
(* rests on both of these and says more than they do.                      *)
VARIABLES review, analysis, stage, prompt, draft, reportAudit, corrected, reaudit, report

Reports == INSTANCE Reporting WITH
    audit <- reportAudit,
    ClaimsOf <- << <<"a">>, <<"b", "c">> >>,
    Central <- {"a", "b"},
    Findings <- {"f", "g", "h"},
    Cites <- [f \in {"f", "g", "h"} |-> CASE f = "f" -> {"a"} [] f = "g" -> {"c"} [] f = "h" -> {"b", "c"}],
    Worded <- {"f", "g"},
    LateRetry <- FALSE

(* A published report: two readers, each signed in as a user of its own.   *)
VARIABLES run, tasks, finalReport, publication, final, owner, fresh, step, answer, late

Publication == INSTANCE Publication WITH
    report <- finalReport,
    Requests <- {"r1", "r2"},
    UserOf <- [r \in {"r1", "r2"} |-> IF r = "r1" THEN "u1" ELSE "u2"],
    Nobody <- "nobody"

(* Sessions: two sign-ins and one request, and a lock after one failure.   *)
VARIABLES clock, failures, expiry, admin, login, session, visit

Access == INSTANCE Access WITH
    now <- clock, account <- admin,
    Logins <- {"l1", "l2"}, Visits <- {"v1"},
    Attempts <- 1, Window <- 2, Idle <- 1, Absolute <- 2, MaxTime <- 3

(* Discovery: two searches for two slots; v1 and v2 are alike, and each     *)
(* product has a video that does not match it.                             *)
VARIABLES slotStage, searches, hits, candidates, excluded, product, curation, cached, queues

Discovery == INSTANCE Discovery WITH
    place <- slotStage,
    Videos <- {"v1", "v2", "v3", "v4"},
    Products <- {"p", "q"}, Asked <- "p",
    Irrelevant <- [p \in {"p", "q"} |-> IF p = "p" THEN {"v3"} ELSE {"v1"}],
    Unfit <- {}, Alike <- {{"v1", "v2"}},
    Answers <- {<<>>, <<"v1", "v2">>, <<"v3", "v1", "v4">>},
    Searches <- 2, Cap <- 3, Slots <- 2

(* The calls of one task: two attempts, and one more by an administrator.  *)
VARIABLES runStatus, task, allowed, attempts, worker, raised, past

Calls == INSTANCE AgentCall WITH
    run <- runStatus, MaxAttempts <- 2, MaxManual <- 1

(* The catalog of one model: a scheduled refresh of everything, and jobs   *)
(* that refresh the endpoints of the model, while a policy is validated.   *)
VARIABLES catalogClock, refreshes, refresher, refreshLock, policy, validation

Catalog == INSTANCE Catalog WITH
    now <- catalogClock, lock <- refreshLock,
    Refreshers <- {"worker", "job"}, Scheduled <- {"worker"},
    PlansOf <- [r \in {"worker", "job"} |->
                   IF r = "worker" THEN {<<"models", "m1">>} ELSE {<<"m1">>}],
    Models <- {"m1"}, Providers <- {"p1"},
    StaleAfter <- 0, Every <- 1, MaxRefreshes <- 3, MaxTime <- 1

(* The database: every walk along its migrations.                          *)
VARIABLES revision, schema, rows, turned

Database == INSTANCE Schema WITH refused <- turned

(* The shipped workflow, for three sources, the fewest.                    *)
VARIABLES comments, plan, taskStatus, useful, outcome

Shipped == INSTANCE ShippedWorkflow WITH
    ts <- taskStatus, Sources <- 3, Freely <- {FALSE}

ASSUME Captions!CaptionAssumption
ASSUME Graph!KnowledgeAssumption
ASSUME Configuration!ConfigurationAssumption
ASSUME Reports!ReportingAssumption
ASSUME Publication!PublicationAssumption
ASSUME Access!AccessAssumption
ASSUME Discovery!DiscoveryAssumption
ASSUME Calls!AgentCallAssumption
ASSUME Catalog!CatalogAssumption
ASSUME Shipped!ShippedWorkflowAssumption

walkVars == <<deps, fanIn, ts>>
captionVars == <<now, cache, nodes, blocked, place, pos, fetches, refused, held, offered>>
graphVars ==
    <<lock, current, author, file, node, workspace, written, edges, linking, published, graph, rebuild>>
configurationVars ==
    <<agent, result, workflow, active, audit, request, job, messages, execution, passed, runs>>

budgetVars ==
    <<gateway, reservation, usage, runBudget, evaluation, daily, account, today,
      sweep, fetching, reopened>>
reportVars ==
    <<review, analysis, stage, prompt, draft, reportAudit, corrected, reaudit, report>>
publicationVars ==
    <<run, tasks, finalReport, publication, final, owner, fresh, step, answer, late>>
accessVars == <<clock, failures, expiry, admin, login, session, visit>>
discoveryVars ==
    <<slotStage, searches, hits, candidates, excluded, product, curation, cached, queues>>
callVars == <<runStatus, task, allowed, attempts, worker, raised, past>>
databaseVars == <<revision, schema, rows, turned>>
shippedVars == <<comments, plan, taskStatus, useful, outcome>>
catalogVars == <<catalogClock, refreshes, refresher, refreshLock, policy, validation>>

Init ==
    /\ scenario \in {"walks", "captions", "knowledge", "configuration", "budget",
                    "reports", "publication", "access", "discovery", "calls", "catalog",
                    "schema", "workflow"}
    /\ Walks!Init
    /\ scenario # "walks" => \A n \in DOMAIN deps : deps[n] = {}
    /\ Captions!Init
    /\ Graph!Init
    /\ Configuration!Init
    /\ Budget!Init
    /\ Reports!Init
    /\ Publication!Init
    /\ Access!Init
    /\ Discovery!Init
    /\ Calls!Init
    /\ Catalog!Init
    /\ Database!Init
    /\ IF scenario = "workflow" THEN Shipped!Init
       ELSE /\ comments = FALSE /\ plan = <<>> /\ taskStatus = <<>>
            /\ useful = {} /\ outcome = "running"

Next ==
    /\ UNCHANGED scenario
    /\ IF scenario = "walks" THEN Walks!Next ELSE UNCHANGED walkVars
    /\ IF scenario = "captions" THEN Captions!Next ELSE UNCHANGED captionVars
    /\ IF scenario = "knowledge" THEN Graph!Next ELSE UNCHANGED graphVars
    /\ IF scenario = "configuration" THEN Configuration!Next ELSE UNCHANGED configurationVars
    /\ IF scenario = "budget" THEN Budget!Next ELSE UNCHANGED budgetVars
    /\ IF scenario = "reports" THEN Reports!Next ELSE UNCHANGED reportVars
    /\ IF scenario = "publication" THEN Publication!Next ELSE UNCHANGED publicationVars
    /\ IF scenario = "access" THEN Access!Next ELSE UNCHANGED accessVars
    /\ IF scenario = "discovery" THEN Discovery!Next ELSE UNCHANGED discoveryVars
    /\ IF scenario = "calls" THEN Calls!Next ELSE UNCHANGED callVars
    /\ IF scenario = "catalog" THEN Catalog!Next ELSE UNCHANGED catalogVars
    /\ IF scenario = "schema" THEN Database!Next ELSE UNCHANGED databaseVars
    /\ IF scenario = "workflow" THEN Shipped!Next ELSE UNCHANGED shippedVars

vars == <<scenario, walkVars, captionVars, graphVars, configurationVars, budgetVars, reportVars,
    publicationVars, accessVars, discoveryVars, callVars, catalogVars,
    databaseVars, shippedVars>>

Spec == Init /\ [][Next]_vars

-----------------------------------------------------------------------------

(* The properties of the components, stated and explained there. *)
In(name, P) == scenario = name => P

WorkflowHolds ==
    /\ In("walks", Walks!WalksAgree)
    /\ In("workflow", Shipped!WorkflowHolds)
CoverageKept == In("captions", Captions!CoverageKept)
KnowledgeHolds == In("knowledge", Graph!BodiesAvailable /\ Graph!PublishedIsProjected)
ConfigurationHolds ==
    In("configuration", Configuration!PublishedIsEvaluated /\ Configuration!RunsReproducible)
BudgetHolds == In("budget", Budget!LedgersAgree /\ Budget!WithinLimits)
ReportHolds == In("reports", Reports!ReportGrounded /\ Reports!RefusalsLast)
RevocationHolds == In("publication", Publication!RevocationHolds)
PlatformHolds == In("schema", Database!SchemaHolds)
SessionsSound == Access!SessionsSound
QueuesShareOut == In("discovery", Discovery!QueuesShareOut)
CallsFollowUp == In("calls", Calls!CallsFollowUp)
ValidatedByNewest == Catalog!ValidatedByNewest

(* No step changes a row in a way the triggers of the database refuse:     *)
(* the transaction would fail where no code expects it to.                 *)
RowsAccepted ==
    [][ /\ \A i \in DOMAIN reservation :
              /\ ReservationRule(reservation[i], reservation'[i])
              /\ UsageRule(usage[i], usage'[i])
        /\ \A k \in DOMAIN refreshes : RefreshRule(refreshes[k], refreshes'[k])
        /\ \A i \in DOMAIN attempts : AttemptRule(attempts[i], attempts'[i])
        /\ \A a \in DOMAIN agent : VersionRule(agent[a], agent'[a])
        /\ \A w \in DOMAIN workflow : VersionRule(workflow[w], workflow'[w])
        /\ ReportRule(finalReport, finalReport')
        /\ PublicationRule(publication, publication') ]_vars

(* What the records say of the past stays true: of the rows the triggers   *)
(* protect, of the owner of a run, and of the configuration an activation  *)
(* replaced.                                                               *)
HistoryKept == RowsAccepted /\ Publication!OwnerKept /\ Configuration!PriorIsReplaced
=============================================================================
