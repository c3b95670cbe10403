------------------------------- MODULE Schema -------------------------------
(***************************************************************************)
(* The database schema: what each migration adds and what its downgrade    *)
(* drops, and the walks an operator may take along the chain of revisions  *)
(* while the program writes rows.                                          *)
(*                                                                         *)
(* A schema is a set of objects.  Columns, checks and indexes are objects  *)
(* of their own only where a migration adds or drops them on a table that  *)
(* exists; otherwise they come and go with their table.                    *)
(* Operators named _Slip: see module Runtime.                              *)
(***************************************************************************)
EXTENDS Integers, Sequences

LOCAL INSTANCE SequencesExt

VARIABLES
    revision,   \* the migrations applied: 1..revision
    schema,     \* the objects in the database
    rows,       \* rows a migration has to care about
    refused     \* who refused the last migration: nobody, a guard, the database

vars == <<revision, schema, rows, refused>>

Table(t) == <<"table", t>>
Function(f) == <<"function", f>>
Part(kind, t, name) == <<kind, t, name>>   \* of a table
Reference(t, parent, rule) == <<"reference", t, parent, rule>>

Cascade(parents) == parents \X {"CASCADE"}
Restricted(parents) == parents \X {"RESTRICT"}
SetNull(parents) == parents \X {"SET NULL"}
References(t, parents) == {Reference(t, p[1], p[2]) : p \in parents}

(* The operations of alembic. *)
Add(objects) == <<"add", objects>>
Drop(objects) == <<"drop", objects>>
Guard(row) == <<"guard", row>>
CreateTable(t, parents) == Add({Table(t)} \cup References(t, parents))
DropTables(ts) == [i \in DOMAIN ts |-> Drop({Table(ts[i])})]
AddColumns(t, cs) == Add({Part("column", t, c) : c \in cs})
DropColumns(t, cs) == Drop({Part("column", t, c) : c \in cs})
Triggers(ts, f) == <<Add({Function(f)}), Add({Part("trigger", t, f) : t \in ts})>>
DropTriggers(ts, f) == <<Drop({Part("trigger", t, f) : t \in ts}), Drop({Function(f)})>>

PartOf(o, t) == o[1] # "function" /\ o[2] = t
Needs(o) ==
    CASE o[1] \in {"table", "function"} -> {}
      [] o[1] = "reference" -> {Table(o[2]), Table(o[3])}
      [] o[1] = "trigger" -> {Table(o[2]), Function(o[3])}
      [] OTHER -> {Table(o[2])}
ActiveIndex == Part("index", "analysis_runs", "active")
Status(t, waiting) == Part("check", t, IF waiting THEN "status, waiting" ELSE "status")

(* Rows that break a constraint: a status it does not list, and two        *)
(* versions of one tool that were both named 1.0.0.                        *)
Breaks(o, held) ==
    \/ "waiting" \in held /\ o \in {Status("analysis_runs", FALSE), Status("task_runs", FALSE)}
    \/ "nameless successor" \in held /\ o = Part("check", "tool_versions", "unique version")

(* PostgreSQL refuses to add what exists, to drop what does not exist or   *)
(* what another object needs.                                              *)
Left(s, dropped) ==
    {o \in s \ dropped : ~\E d \in dropped : d[1] = "table" /\ PartOf(o, d[2])}
Accepted(s, held, op) ==
    CASE op[1] = "add" -> /\ op[2] \cap s = {}
                          /\ \A o \in op[2] : Needs(o) \subseteq s \cup op[2] /\ ~Breaks(o, held)
      [] op[1] = "drop" -> /\ op[2] \subseteq s
                           /\ \A o \in Left(s, op[2]) : Needs(o) \cap op[2] = {}
      [] OTHER -> op[2] \notin held
After(s, op) ==
    CASE op[1] = "add" -> s \cup op[2] [] op[1] = "drop" -> Left(s, op[2]) [] OTHER -> s

Apply(s, held, op) ==
    IF Accepted(s, held, op) THEN [schema |-> After(s, op), refused |-> "nobody"]
    ELSE [schema |-> s, refused |-> IF op[1] = "guard" THEN "guard" ELSE "database"]

(* The operations one after another, to the first that is refused.         *)
RECURSIVE Applied(_, _, _)
Applied(s, held, ops) ==
    IF Len(ops) = 1 THEN Apply(s, held, ops[1])
    ELSE LET half == Len(ops) \div 2
             done == Applied(s, held, SubSeq(ops, 1, half))
         IN IF done.refused # "nobody" THEN done
            ELSE Applied(done.schema, held, SubSeq(ops, half + 1, Len(ops)))

-----------------------------------------------------------------------------
(* The migrations, upgrade and downgrade.                                  *)

Definitions == {"agent_definitions", "workflow_definitions", "model_policies",
                "embedding_policies", "budget_policies", "tool_definitions"}
Versions == {"agent_versions", "workflow_versions", "model_policy_versions",
             "embedding_policy_versions", "budget_policy_versions", "tool_versions"}
Immutable == "prevent_immutable_change"

AccountTables ==
    <<CreateTable("admin_users", {}), CreateTable("anonymous_sessions", {}),
      CreateTable("audit_events", {}), Add({Table(t) : t \in Definitions})>>
VersionTables ==
    <<CreateTable("model_policy_versions", Cascade({"model_policies"})),
      CreateTable("embedding_policy_versions", Cascade({"embedding_policies"})),
      CreateTable("budget_policy_versions", Cascade({"budget_policies"})),
      CreateTable("tool_versions", Cascade({"tool_definitions"})),
      CreateTable("agent_versions", Cascade({"agent_definitions"})
          \cup Restricted({"model_policy_versions", "budget_policy_versions"})),
      CreateTable("agent_version_tools", Cascade({"agent_versions"}) \cup Restricted({"tool_versions"})),
      CreateTable("workflow_versions", Cascade({"workflow_definitions"}))>>
ActiveTables ==
    <<CreateTable("active_configuration",
          Restricted({"workflow_versions", "budget_policy_versions", "embedding_policy_versions"})),
      CreateTable("admin_sessions", Cascade({"admin_users"}))>>
Foundation ==
    AccountTables \o VersionTables \o ActiveTables
    \o Triggers(Versions \cup {"audit_events"}, Immutable)
    \o Triggers({"agent_version_tools"}, "prevent_published_agent_tool_change")
UndoFoundation ==
    DropTriggers({"agent_version_tools"}, "prevent_published_agent_tool_change")
    \o DropTriggers(Versions \cup {"audit_events"}, Immutable)
    \o DropTables(<<"admin_sessions", "active_configuration", "workflow_versions",
           "agent_version_tools", "agent_versions", "tool_versions", "budget_policy_versions",
           "embedding_policy_versions", "model_policy_versions", "tool_definitions",
           "budget_policies", "embedding_policies", "model_policies", "workflow_definitions",
           "agent_definitions", "audit_events", "anonymous_sessions", "admin_users">>)

RunTables ==
    <<CreateTable("configuration_snapshots",
          Restricted({"workflow_versions", "budget_policy_versions", "embedding_policy_versions"})),
      CreateTable("analysis_runs", Restricted({"configuration_snapshots"})),
      Add({Status("analysis_runs", FALSE), ActiveIndex}),
      CreateTable("run_budget_states", Cascade({"analysis_runs"}) \cup Restricted({"budget_policy_versions"}))>>
TaskTables ==
    <<CreateTable("task_runs", Cascade({"analysis_runs"}) \cup Restricted({"agent_versions", "tool_versions"})),
      Add({Status("task_runs", FALSE)}),
      CreateTable("task_dependencies", Cascade({"task_runs"})),
      CreateTable("task_attempts", Cascade({"task_runs"}))>>
MessageTables ==
    <<CreateTable("progress_events", Cascade({"analysis_runs"}) \cup SetNull({"task_runs"})),
      CreateTable("runtime_outbox", Cascade({"analysis_runs", "task_runs"}))>>
RuntimeTables ==
    RunTables \o TaskTables \o MessageTables
    \o Triggers({"configuration_snapshots", "progress_events"}, "prevent_runtime_immutable_change")
    \o Triggers({"task_attempts"}, "prevent_terminal_attempt_change")
UndoRuntime ==
    DropTriggers({"task_attempts"}, "prevent_terminal_attempt_change")
    \o DropTriggers({"configuration_snapshots", "progress_events"}, "prevent_runtime_immutable_change")
    \o DropTables(<<"runtime_outbox", "progress_events", "task_attempts", "task_dependencies",
           "task_runs", "run_budget_states", "analysis_runs", "configuration_snapshots">>)

Snapshots == {"openrouter_model_snapshots", "openrouter_provider_snapshots", "openrouter_endpoint_snapshots"}
CatalogTables ==
    <<CreateTable("openrouter_catalog_refreshes", {}),
      Add({Table(t) : t \in Snapshots}
          \cup UNION {References(t, Cascade({"openrouter_catalog_refreshes"})) : t \in Snapshots})>>
LedgerTables ==
    <<CreateTable("openrouter_account_state", {}),
      CreateTable("daily_budget_states", Restricted({"budget_policy_versions"})),
      CreateTable("budget_reservations", Cascade({"analysis_runs", "task_runs", "task_attempts"})
          \cup Restricted({"agent_versions", "model_policy_versions"}))>>
UsageTable ==
    <<CreateTable("usage_events", Cascade({"analysis_runs", "task_runs", "task_attempts"})
          \cup Restricted({"budget_reservations", "agent_versions", "workflow_versions",
                         "model_policy_versions", "embedding_policy_versions"}))>>
LlmOps ==
    CatalogTables \o LedgerTables \o UsageTable
    \o Triggers(Snapshots, "prevent_llmops_snapshot_change")
    \o Triggers({"openrouter_catalog_refreshes"}, "prevent_terminal_catalog_change")
    \o Triggers({"budget_reservations"}, "prevent_terminal_reservation_change")
    \o Triggers({"usage_events"}, "restrict_usage_event_change")
UndoLlmOps ==
    DropTriggers({"usage_events"}, "restrict_usage_event_change")
    \o DropTriggers({"budget_reservations"}, "prevent_terminal_reservation_change")
    \o DropTriggers({"openrouter_catalog_refreshes"}, "prevent_terminal_catalog_change")
    \o DropTriggers(Snapshots, "prevent_llmops_snapshot_change")
    \o DropTables(<<"usage_events", "budget_reservations", "daily_budget_states",
           "openrouter_account_state", "openrouter_endpoint_snapshots",
           "openrouter_provider_snapshots", "openrouter_model_snapshots",
           "openrouter_catalog_refreshes">>)

KnowledgeTables ==
    <<CreateTable("workspaces", Cascade({"analysis_runs"})),
      CreateTable("context_nodes", Cascade({"workspaces"})),
      CreateTable("context_node_versions",
          Cascade({"context_nodes", "workspaces"}) \cup Restricted({"task_attempts", "admin_users"})),
      Add({Reference("context_nodes", "context_node_versions", "RESTRICT")})>>
ContextTables ==
    <<CreateTable("context_edges", Cascade({"workspaces"})
          \cup Restricted({"context_node_versions", "task_attempts", "admin_users"})),
      CreateTable("context_manifests",
          Cascade({"workspaces"}) \cup Restricted({"task_attempts", "embedding_policy_versions"})),
      CreateTable("context_manifest_items",
          Cascade({"context_manifests"}) \cup Restricted({"context_node_versions"})),
      CreateTable("projection_outbox", Cascade({"workspaces"}))>>
ContextImmutables == {"context_node_versions", "context_manifests", "context_manifest_items"}
ContextGraph ==
    KnowledgeTables \o ContextTables
    \o Triggers(ContextImmutables, "prevent_context_immutable_change")
UndoContextGraph ==
    DropTriggers(ContextImmutables, "prevent_context_immutable_change")
    \o DropTables(<<"projection_outbox", "context_manifest_items", "context_manifests", "context_edges">>)
    \o <<Drop({Reference("context_nodes", "context_node_versions", "RESTRICT")})>>
    \o DropTables(<<"context_node_versions", "context_nodes", "workspaces">>)

SemanticVersion == {Part("check", "tool_versions", "semantic version"),
                    Part("check", "tool_versions", "unique version")}
TypedTools ==
    <<AddColumns("tool_versions", {"semantic_version"}), Add(SemanticVersion),
      CreateTable("tool_invocations", Cascade({"analysis_runs", "task_runs"})
          \cup Restricted({"task_attempts", "agent_versions", "tool_versions"})),
      CreateTable("youtube_quota_states", {}),
      CreateTable("youtube_quota_reservations",
          Cascade({"tool_invocations"}) \cup Restricted({"youtube_quota_states"}))>>
    \o Triggers({"tool_invocations"}, "restrict_tool_invocation_change")
    \o Triggers({"youtube_quota_reservations"}, "restrict_youtube_quota_reservation_change")
UndoTypedTools ==
    <<Guard("successor")>>
    \o DropTriggers({"youtube_quota_reservations"}, "restrict_youtube_quota_reservation_change")
    \o DropTriggers({"tool_invocations"}, "restrict_tool_invocation_change")
    \o DropTables(<<"youtube_quota_reservations", "youtube_quota_states", "tool_invocations">>)
    \o <<Drop(SemanticVersion), DropColumns("tool_versions", {"semantic_version"})>>

AgentColumns == {"purpose", "prohibited_behaviors", "input_schema", "generation_config",
                 "execution_limits", "evaluation_metadata"}
TaskColumns == {"dependency_mode", "minimum_successes", "optional"}
AttemptColumns == {"attempt_kind", "correction_of_attempt_id", "context_manifest_id",
                   "prompt_hash", "invalid_output_hash", "validator_results"}
Corrections == Reference("task_attempts", "task_attempts", "RESTRICT")
Manifests == Reference("task_attempts", "context_manifests", "RESTRICT")
FinalReport == Reference("analysis_runs", "reports", "RESTRICT")
AgentWorkflow ==
    <<AddColumns("agent_versions", AgentColumns),
      CreateTable("agent_evaluation_results", Restricted({"agent_versions", "model_policy_versions"})),
      AddColumns("task_runs", TaskColumns),
      CreateTable("task_run_tools", Cascade({"task_runs"}) \cup Restricted({"tool_versions"})),
      AddColumns("task_attempts", AttemptColumns),
      Add({Corrections}), Add({Manifests})>>
ReportTable ==
    <<CreateTable("reports", Cascade({"analysis_runs"})
          \cup Restricted({"workspaces", "configuration_snapshots", "context_nodes"})),
      AddColumns("analysis_runs", {"report_id"}), Add({FinalReport})>>
    \o Triggers({"agent_evaluation_results"}, "phase6_append_only")
    \o Triggers({"reports"}, "restrict_report_change")
UndoReports_Slip == DropTables(<<"reports">>)
UndoReports ==
    DropTriggers({"reports"}, "restrict_report_change")
    \o DropTriggers({"agent_evaluation_results"}, "phase6_append_only")
    \o <<Drop({FinalReport}), DropColumns("analysis_runs", {"report_id"})>>
    \o DropTables(<<"reports">>)
UndoWorkflow ==
    UndoReports
    \o <<Drop({Manifests}), Drop({Corrections}), DropColumns("task_attempts", AttemptColumns)>>
    \o DropTables(<<"task_run_tools">>) \o <<DropColumns("task_runs", TaskColumns)>>
    \o DropTables(<<"agent_evaluation_results">>) \o <<DropColumns("agent_versions", AgentColumns)>>

SessionExpiry == {Part("column", "anonymous_sessions", c) : c \in {"expires_at", "absolute_expires_at"}}
ExpiryIndex == Part("index", "anonymous_sessions", "expiry")
PublicApi ==
    <<AddColumns("budget_policy_versions", {"public_queue_capacity"}),
      Add(SessionExpiry), Add({ExpiryIndex}),
      CreateTable("run_submissions", Restricted({"analysis_runs"})),
      CreateTable("report_publications", Restricted({"reports", "analysis_runs"}))>>
    \o Triggers({"report_publications"}, "restrict_publication_change")
UndoPublicApi ==
    DropTriggers({"report_publications"}, "restrict_publication_change")
    \o DropTables(<<"report_publications", "run_submissions">>)
    \o <<Drop({ExpiryIndex}), Drop(SessionExpiry),
         DropColumns("budget_policy_versions", {"public_queue_capacity"})>>

ActiveSettings == Reference("active_configuration", "system_settings_versions", "RESTRICT")
SettingsTrigger == Part("trigger", "system_settings_versions", Immutable)
ControlPlane ==
    <<CreateTable("system_settings_versions", Restricted({"admin_users"})), Add({SettingsTrigger}),
      AddColumns("active_configuration", {"system_settings_version_id"}), Add({ActiveSettings}),
      CreateTable("admin_jobs", Restricted({"admin_users"})),
      CreateTable("evaluation_budget_state", {}), CreateTable("usage_aggregates", {}),
      CreateTable("retained_llm_content", Cascade({"usage_events"}))>>
UndoControlPlane ==
    DropTables(<<"retained_llm_content", "usage_aggregates", "evaluation_budget_state", "admin_jobs">>)
    \o <<Drop({ActiveSettings}), DropColumns("active_configuration", {"system_settings_version_id"}),
         Drop({SettingsTrigger})>>
    \o DropTables(<<"system_settings_versions">>)

Cutover ==
    <<CreateTable("compatibility_requests", SetNull({"analysis_runs"})),
      CreateTable("cutover_observations", Restricted({"admin_users"}))>>
UndoCutover == DropTables(<<"cutover_observations", "compatibility_requests">>)

RunOwner == {Part("column", "analysis_runs", "user_id"), Reference("analysis_runs", "users", "SET NULL")}
OwnerIndex == Part("index", "analysis_runs", "user")
UserAccounts ==
    <<CreateTable("users", {}), CreateTable("user_sessions", Cascade({"users"})),
      Add(RunOwner), Add({OwnerIndex})>>
UndoUserAccounts ==
    <<Drop({OwnerIndex}), Drop(RunOwner)>> \o DropTables(<<"user_sessions", "users">>)

(* _states replaces the check on the status of runs and of tasks, and the  *)
(* index of the active runs.                                               *)
States(waiting) ==
    <<Drop({Status("analysis_runs", ~waiting)}), Add({Status("analysis_runs", waiting)}),
      Drop({Status("task_runs", ~waiting)}), Add({Status("task_runs", waiting)}),
      Drop({ActiveIndex}), Add({ActiveIndex})>>
Resolved == {"resolved_product_name", "resolved_canonical_product"}
Clarification ==
    States(TRUE)
    \o <<AddColumns("analysis_runs", Resolved),
         CreateTable("product_clarifications", Cascade({"analysis_runs", "task_runs"}))>>
UndoClarification ==
    <<Guard("waiting")>> \o DropTables(<<"product_clarifications">>)
    \o <<DropColumns("analysis_runs", Resolved)>> \o States(FALSE)

Upgrades == <<Foundation, RuntimeTables, LlmOps, ContextGraph, TypedTools, AgentWorkflow \o ReportTable,
              PublicApi, ControlPlane, Cutover, UserAccounts, Clarification>>
Downgrades == <<UndoFoundation, UndoRuntime, UndoLlmOps, UndoContextGraph, UndoTypedTools, UndoWorkflow,
                UndoPublicApi, UndoControlPlane, UndoCutover, UndoUserAccounts, UndoClarification>>
Newest == Len(Upgrades)

-----------------------------------------------------------------------------
(* The references the models declare: by cascade, by restrict, by set null. *)

Declared(t, cascade, restrict, setNull) ==
    References(t, Cascade(cascade) \cup Restricted(restrict) \cup SetNull(setNull))

DeclaredVersions ==
    Declared("admin_sessions", {"admin_users"}, {}, {})
    \cup Declared("user_sessions", {"users"}, {}, {})
    \cup Declared("model_policy_versions", {"model_policies"}, {}, {})
    \cup Declared("embedding_policy_versions", {"embedding_policies"}, {}, {})
    \cup Declared("budget_policy_versions", {"budget_policies"}, {}, {})
    \cup Declared("system_settings_versions", {}, {"admin_users"}, {})
    \cup Declared("tool_versions", {"tool_definitions"}, {}, {})
DeclaredConfiguration ==
    Declared("agent_versions", {"agent_definitions"}, {"model_policy_versions", "budget_policy_versions"}, {})
    \cup Declared("agent_version_tools", {"agent_versions"}, {"tool_versions"}, {})
    \cup Declared("agent_evaluation_results", {}, {"agent_versions", "model_policy_versions"}, {})
    \cup Declared("workflow_versions", {"workflow_definitions"}, {}, {})
    \cup Declared("active_configuration", {},
             {"workflow_versions", "budget_policy_versions", "embedding_policy_versions",
              "system_settings_versions"}, {})
    \cup Declared("configuration_snapshots", {},
             {"workflow_versions", "budget_policy_versions", "embedding_policy_versions"}, {})
DeclaredRuntime ==
    Declared("analysis_runs", {}, {"configuration_snapshots", "reports"}, {"users"})
    \cup Declared("product_clarifications", {"analysis_runs", "task_runs"}, {}, {})
    \cup Declared("run_budget_states", {"analysis_runs"}, {"budget_policy_versions"}, {})
    \cup Declared("task_runs", {"analysis_runs"}, {"agent_versions", "tool_versions"}, {})
    \cup Declared("task_dependencies", {"task_runs"}, {}, {})
    \cup Declared("task_run_tools", {"task_runs"}, {"tool_versions"}, {})
    \cup Declared("task_attempts", {"task_runs"}, {"task_attempts", "context_manifests"}, {})
    \cup Declared("progress_events", {"analysis_runs"}, {}, {"task_runs"})
    \cup Declared("runtime_outbox", {"analysis_runs", "task_runs"}, {}, {})
DeclaredTools ==
    Declared("tool_invocations", {"analysis_runs", "task_runs"},
        {"task_attempts", "agent_versions", "tool_versions"}, {})
    \cup Declared("youtube_quota_reservations", {"tool_invocations"}, {"youtube_quota_states"}, {})
    \cup UNION {Declared(t, {"openrouter_catalog_refreshes"}, {}, {}) : t \in Snapshots}
DeclaredLedgers ==
    Declared("daily_budget_states", {}, {"budget_policy_versions"}, {})
    \cup Declared("budget_reservations", {"analysis_runs", "task_runs", "task_attempts"},
             {"agent_versions", "model_policy_versions"}, {})
    \cup Declared("usage_events", {"analysis_runs", "task_runs", "task_attempts"},
             {"budget_reservations", "agent_versions", "workflow_versions",
              "model_policy_versions", "embedding_policy_versions"}, {})
DeclaredKnowledge ==
    Declared("workspaces", {"analysis_runs"}, {}, {})
    \cup Declared("context_nodes", {"workspaces"}, {"context_node_versions"}, {})
    \cup Declared("context_node_versions", {"context_nodes", "workspaces"}, {"task_attempts", "admin_users"}, {})
    \cup Declared("context_edges", {"workspaces"}, {"context_node_versions", "task_attempts", "admin_users"}, {})
    \cup Declared("context_manifests", {"workspaces"}, {"task_attempts", "embedding_policy_versions"}, {})
    \cup Declared("context_manifest_items", {"context_manifests"}, {"context_node_versions"}, {})
    \cup Declared("projection_outbox", {"workspaces"}, {}, {})
DeclaredReports ==
    Declared("reports", {"analysis_runs"}, {"workspaces", "configuration_snapshots", "context_nodes"}, {})
    \cup Declared("run_submissions", {}, {"analysis_runs"}, {})
    \cup Declared("report_publications", {}, {"reports", "analysis_runs"}, {})
    \cup Declared("admin_jobs", {}, {"admin_users"}, {})
    \cup Declared("retained_llm_content", {"usage_events"}, {}, {})
    \cup Declared("compatibility_requests", {}, {}, {"analysis_runs"})
    \cup Declared("cutover_observations", {}, {"admin_users"}, {})
AllDeclared ==
    DeclaredVersions \cup DeclaredConfiguration \cup DeclaredRuntime \cup DeclaredTools
    \cup DeclaredLedgers \cup DeclaredKnowledge \cup DeclaredReports

-----------------------------------------------------------------------------

Init ==
    /\ revision = 0 /\ schema = {} /\ rows = {} /\ refused = "nobody"

(* One command of alembic is one transaction: all its migrations or none.  *)
Chain(migrations, order) == FlattenSeq([i \in DOMAIN order |-> migrations[order[i]]])
Migrate(to, ops) ==
    LET done == Applied(schema, rows, ops) IN
    /\ refused' = done.refused
    /\ IF done.refused = "nobody"
       THEN revision' = to /\ schema' = done.schema
       ELSE UNCHANGED <<revision, schema>>

Upgrade(to) ==
    /\ to > revision
    /\ Migrate(to, Chain(Upgrades, [i \in 1..(to - revision) |-> revision + i]))
    /\ UNCHANGED rows
(* Without its column a successor is a second version of no name of its    *)
(* own; without its table it is gone.                                      *)
Downgrade(to) ==
    /\ to < revision
    /\ Migrate(to, Chain(Downgrades, [i \in 1..(revision - to) |-> revision + 1 - i]))
    /\ rows' = IF revision' = 0 THEN {}
               ELSE IF revision' < 5 /\ "successor" \in rows THEN {"nameless successor"}
               ELSE rows

(* A tool of the registry is published in its version 1.1.0.               *)
PublishSuccessor ==
    /\ Part("column", "tool_versions", "semantic_version") \in schema
    /\ rows' = rows \cup {"successor"}
    /\ UNCHANGED <<revision, schema, refused>>

(* A run and its first task wait for an answer, and no longer do.          *)
Ask ==
    /\ Table("product_clarifications") \in schema
    /\ rows' = rows \cup {"waiting"}
    /\ UNCHANGED <<revision, schema, refused>>
Resume ==
    /\ "waiting" \in rows
    /\ rows' = rows \ {"waiting"}
    /\ UNCHANGED <<revision, schema, refused>>

Next ==
    \/ \E to \in 1..Newest : Upgrade(to)
    \/ \E to \in 0..(Newest - 1) : Downgrade(to)
    \/ PublishSuccessor \/ Ask \/ Resume

Spec == Init /\ [][Next]_vars

(* Whatever the walk along the chain, and whatever rows the program wrote, *)
(* the schema is the one the upgrades to its revision build, the database  *)
(* refuses no migration the guards let through, and at the head the        *)
(* references are the ones the models declare.                             *)
BuiltBy(r) ==
    IF r = 0 THEN {} ELSE Applied({}, {}, Chain(Upgrades, [i \in 1..r |-> i])).schema
SchemaHolds ==
    /\ refused # "database"
    /\ schema = BuiltBy(revision)
    /\ revision = Newest => {o \in schema : o[1] = "reference"} = AllDeclared
=============================================================================
