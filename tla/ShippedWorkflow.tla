--------------------------- MODULE ShippedWorkflow ---------------------------
(***************************************************************************)
(* The workflow the product ships: its templates, their materialisation    *)
(* into the tasks of a run of so many sources, and a run of those tasks,   *)
(* under the dependency rules of TaskGraph.  A task ends once: its retries *)
(* are in AgentCall, and its attempts, the cancellation and the timeouts   *)
(* of a run in Runtime.                                                    *)
(* Operators named _Slip: see module Runtime.                              *)
(***************************************************************************)
EXTENDS Integers, Sequences, FiniteSets

LOCAL INSTANCE SequencesExt

CONSTANTS
    Sources,     \* the number of sources the request asks for
    Freely       \* bound: the requests, by whether they ask for comments, in
                 \* whose runs the sources are worked on in any order and may
                 \* have nothing; in others a source follows the one before it

ShippedWorkflowAssumption == Sources \in 3..8 /\ Freely \subseteq BOOLEAN

VARIABLES
    comments,    \* whether the request asks for comments
    plan,        \* the tasks of the run and the tasks each depends on
    ts,          \* the statuses of the tasks
    useful,      \* tasks of a source that stored something to work on
    outcome      \* the status of the run

vars == <<comments, plan, ts, useful, outcome>>

Slots == 1..Sources

-----------------------------------------------------------------------------
(* Templates, in the order of the definition. *)

Spine(key, on) == [key |-> key, on |-> on, fanout |-> FALSE, ifComments |-> FALSE, fanIn |-> FALSE]
PerSource(key, on) == [Spine(key, on) EXCEPT !.fanout = TRUE]
WaitsForAll(template) == [template EXCEPT !.fanIn = TRUE]
IfComments(template) == [template EXCEPT !.ifComments = TRUE]

Templates == <<
    Spine("validate_request", {}),
    Spine("plan_research", {"validate_request"}),
    Spine("discover_candidates", {"plan_research"}),
    Spine("resolve_discovered_product", {"discover_candidates"}),
    Spine("curate_sources", {"resolve_discovered_product"}),
    PerSource("fetch_transcript", {"curate_sources"}),
    IfComments(PerSource("fetch_comments", {"fetch_transcript"})),
    WaitsForAll(PerSource("analyze_review", {"fetch_transcript"})),
    WaitsForAll(PerSource("extract_product_information", {"analyze_review"})),
    WaitsForAll(PerSource("recover_product_information", {"extract_product_information"})),
    WaitsForAll(IfComments(PerSource("analyze_audience", {"fetch_comments"}))),
    WaitsForAll(Spine("curate_knowledge", {"analyze_review", "analyze_audience"})),
    Spine("build_consensus", {"curate_knowledge"}),
    Spine("audit_report", {"build_consensus"}),
    Spine("correct_consensus", {"audit_report"}),
    Spine("reaudit_report", {"correct_consensus"}),
    WaitsForAll(Spine("publish_report",
        {"reaudit_report", "extract_product_information", "recover_product_information"})) >>

(* _template_order: in rounds, the templates whose upstreams are ordered.  *)
TemplateOrder ==
    LET Round(ordered, n) ==
            LET keys == {ordered[i].key : i \in DOMAIN ordered}
            IN ordered \o SelectSeq(Templates, LAMBDA t : t.key \notin keys /\ t.on \subseteq keys)
    IN FoldLeft(Round, <<>>, [i \in DOMAIN Templates |-> i])

(* materialize: a task is a template and a slot, 0 without one.  A template *)
(* left out takes its edges with it; two templates that fan out are joined *)
(* slot by slot.                                                           *)
Included(c) == SelectSeq(TemplateOrder, LAMBDA t : c \/ ~t.ifComments)
SlotsOf(t) == IF t.fanout THEN Slots ELSE {0}
Upstreams_Slip(included, t, slot) ==
    UNION {{<<u.key, s>> : s \in SlotsOf(u)} : u \in {u \in included : u.key \in t.on}}
Upstreams(included, t, slot) ==
    UNION {{<<u.key, s>> : s \in IF t.fanout /\ u.fanout THEN {slot} ELSE SlotsOf(u)} :
              u \in {u \in included : u.key \in t.on}}
Materialized(c) ==
    LET included == Included(c)
        Of(t) == SetToSeq({[task |-> <<t.key, s>>, on |-> Upstreams(ToSet(included), t, s), fanIn |-> t.fanIn] :
                              s \in SlotsOf(t)})
    IN FlattenSeq([i \in DOMAIN included |-> Of(included[i])])

(* The rows of the run, in the topological order they are created in.      *)
Stored(c) ==
    LET rows == Materialized(c)
        Row(t) == CHOOSE row \in ToSet(rows) : row.task = t
    IN [order |-> [i \in DOMAIN rows |-> rows[i].task],
        deps |-> [t \in {rows[i].task : i \in DOMAIN rows} |-> Row(t).on],
        fanIn |-> {rows[i].task : i \in {i \in DOMAIN rows : rows[i].fanIn}}]

Tasks == DOMAIN plan.deps
Deps == plan.deps

Graph == INSTANCE TaskGraph WITH
    FanIn <- plan.fanIn,
    MinSuccess <- [t \in Tasks |-> 1],
    Auditor <- {<<"reaudit_report", 0>>}, Publisher <- {<<"publish_report", 0>>}

-----------------------------------------------------------------------------

(* create_analysis_run queues the tasks without upstreams.                 *)
Init ==
    /\ comments \in BOOLEAN
    /\ plan = Stored(comments)
    /\ ts = [t \in Tasks |-> IF Deps[t] = {} THEN "queued" ELSE "blocked"]
    /\ useful = {}
    /\ outcome = "running"

(* _evaluate_dependents: in a topological order every task is visited      *)
(* after the tasks it depends on (module DependencyWalk compares the walk  *)
(* of the code with the definitions used here).                            *)
Evaluated(st) ==
    LET Visit(s, t) ==
            IF s[t] # "blocked" THEN s
            ELSE IF Graph!Ready(s, t) THEN [s EXCEPT ![t] = "queued"]
            ELSE IF Graph!Doomed(s, t) THEN [s EXCEPT ![t] = "skipped"]
            ELSE s
        Visited[n \in 0..Len(plan.order)] ==
            IF n = 0 THEN st ELSE Visit(Visited[n - 1], plan.order[n])
    IN Visited[Len(plan.order)]

Reviewed(done) == {s \in Slots : <<"analyze_review", s>> \in done}

(* _finalize_run: the report decides, and only then the failed tasks.      *)
Concluded(st, done) ==
    IF \E t \in Tasks : st[t] \in {"blocked", "queued"} THEN {"running"}
    ELSE IF st[<<"publish_report", 0>>] = "succeeded"
    THEN {"partial"} \cup IF Reviewed(done) = Slots THEN {"complete"} ELSE {}
    ELSE IF \E t \in Tasks : st[t] = "failed" THEN {"failed"}
    ELSE {"running"}

End(t, status, done) ==
    LET st == Evaluated([ts EXCEPT ![t] = status]) IN
    /\ ts' = st
    /\ useful' = done
    /\ outcome' \in Concluded(st, done)
    /\ UNCHANGED <<comments, plan>>

(* What a task of a source works on: the transcript, or its comments.      *)
Material(t) ==
    CASE t[1] \in {"fetch_comments", "analyze_review"} -> {<<"fetch_transcript", t[2]>>}
      [] t[1] = "analyze_audience" -> {<<"fetch_comments", t[2]>>}
      [] OTHER -> {}
Worked == {"fetch_transcript", "fetch_comments", "analyze_review", "analyze_audience"}

(* A task fails, whatever it is ...                                        *)
Fail(t) == ts[t] = "queued" /\ End(t, "failed", useful)

(* ... a task of a source succeeds with something for the next ones, or    *)
(* with the remark that there is nothing: _fetch_transcript,               *)
(* _fetch_comments, _execute_agent; the projection of product information  *)
(* and its recovery always have some answer;                               *)
WorkSource(t) ==
    /\ ts[t] = "queued" /\ t[2] # 0
    /\ \/ /\ t[1] \in Worked /\ Material(t) \subseteq useful
          /\ End(t, "succeeded", useful \cup {t})
       \/ /\ t[1] \in Worked => comments \in Freely \/ ~(Material(t) \subseteq useful)
          /\ End(t, "succeeded", useful)

(* ... and a task of the whole run succeeds, unless it is the projection   *)
(* of claims and there is no review (project_claims refuses an empty plan).*)
WorkRun(t) ==
    /\ ts[t] = "queued" /\ t[2] = 0
    /\ t[1] = "curate_knowledge" => Reviewed(useful) # {}
    /\ End(t, "succeeded", useful)

InTurn(t) ==
    comments \in Freely \/ \A u \in Tasks : u[2] \in 1..(t[2] - 1) => ts[u] # "queued"

Next == \E t \in Tasks : InTurn(t) /\ (Fail(t) \/ WorkSource(t) \/ WorkRun(t))

Spec == Init /\ [][Next]_vars

-----------------------------------------------------------------------------

OnSpine == {t \in Tasks : t[2] = 0}
Failed == {t \in Tasks : ts[t] = "failed"}

(* Nobody waits for a task that will not end: as long as the run goes on   *)
(* some task is queued, and when the last one ends, the run does.          *)
RunConcludes == outcome = "running" <=> \E t \in Tasks : ts[t] = "queued"

(* A source that fails, with all its tasks, costs the run neither another  *)
(* source nor the report: a task is skipped for a failure of its own       *)
(* source, of a task of the whole run, or because no source was reviewed;  *)
(* and the run fails for the latter two only.                              *)
SourcesStandAlone ==
    /\ \A t \in Tasks : ts[t] = "skipped" =>
           \/ \E f \in Failed : f[2] \in {0, t[2]}
           \/ t[2] = 0 /\ \A s \in Slots : ts[<<"analyze_review", s>>] \in {"failed", "skipped"}
    /\ outcome = "failed" => OnSpine \cap Failed # {} \/ Reviewed(useful) = {}

(* A report is published on reviews of transcripts, after its second       *)
(* audit, and once every task that could still add to it has ended.        *)
ReportIsLast ==
    ts[<<"publish_report", 0>>] # "blocked" /\ ts[<<"publish_report", 0>>] # "skipped" =>
        /\ \E s \in Reviewed(useful) : <<"fetch_transcript", s>> \in useful
        /\ ts[<<"reaudit_report", 0>>] = "succeeded"
        /\ \A t \in Tasks \ {<<"publish_report", 0>>} : ts[t] \notin {"queued", "blocked"}

(* Every minimum of a fan-in can be met: leaving the comments out leaves   *)
(* no task without upstreams that had some.                                *)
MinimaReachable ==
    \A i \in DOMAIN Templates :
        LET t == Templates[i] IN
        \A s \in SlotsOf(t) : <<t.key, s>> \in Tasks /\ t.on # {} => Deps[<<t.key, s>>] # {}

WorkflowHolds == RunConcludes /\ SourcesStandAlone /\ ReportIsLast /\ MinimaReachable
=============================================================================
