----------------------------- MODULE TaskGraph ------------------------------
(***************************************************************************)
(* The materialised workflow graph of one run and the dependency           *)
(* evaluation the runtime performs over it.  `ts' stands for a function    *)
(* from tasks to their status, so the operators apply to any intermediate  *)
(* state of a transaction.  Operators named _Slip: see module Runtime.     *)
(***************************************************************************)
EXTENDS Integers, FiniteSets, RunContracts

CONSTANTS
    Tasks,        \* the materialised tasks of the run
    Deps,         \* Deps[t]: the upstream tasks of t
    FanIn,        \* tasks whose dependency_mode is all_terminal_min_success
    MinSuccess,   \* minimum_successes of the fan-in tasks
    Auditor,      \* {reaudit_report}, or {} in a workflow without one
    Publisher     \* {publish_report}, or {} in a workflow without one

\* topological_order refuses a cycle: among any tasks one comes before the rest.
Acyclic == \A S \in SUBSET Tasks : S # {} => \E t \in S : Deps[t] \cap S = {}

ASSUME GraphAssumption ==
    /\ IsFiniteSet(Tasks)
    /\ Tasks # {}
    /\ Deps \in [Tasks -> SUBSET Tasks]
    /\ Acyclic
    /\ FanIn \subseteq Tasks
    /\ MinSuccess \in [Tasks -> Nat]
    /\ \A t \in FanIn : MinSuccess[t] > 0
    /\ Auditor \subseteq Tasks
    /\ Publisher \subseteq Tasks

Succeeded(ts, d) == {u \in Deps[d] : ts[u] = "succeeded"}

AllTerminal(ts, d) == \A u \in Deps[d] : ts[u] \in TaskTerminal

\* _publication_audit_failed: the publisher has an upstream re-audit that
\* did not succeed.
AuditFailed(ts, d) ==
    d \in Publisher /\ \E u \in Deps[d] \cap Auditor : ts[u] # "succeeded"

\* The prerequisites under which a blocked task may be queued.
Satisfied(ts, d) ==
    IF d \in FanIn
    THEN /\ Cardinality(Succeeded(ts, d)) >= MinSuccess[d]
         /\ ~AuditFailed(ts, d)
    ELSE \A u \in Deps[d] : ts[u] = "succeeded"

\* A blocked task whose upstreams let it be queued ...
Ready(ts, d) ==
    /\ Deps[d] # {}
    /\ d \in FanIn => AllTerminal(ts, d)
    /\ Satisfied(ts, d)

\* ... or have made that impossible.
Doomed(ts, d) ==
    IF d \in FanIn
    THEN Deps[d] # {} /\ AllTerminal(ts, d) /\ ~Satisfied(ts, d)
    ELSE \E u \in Deps[d] :
            ts[u] \in {"failed", "timed_out", "cancelled", "skipped"}

Blocked(ts) == {d \in Tasks : ts[d] = "blocked"}

Skip(ts, S) == [d \in Tasks |-> IF d \in S THEN "skipped" ELSE ts[d]]

\* S contains every blocked task that evaluating the dependents of u, with
\* the tasks of S already skipped, would skip.
SkipClosed(ts, u, S) ==
    \A d \in Blocked(ts) :
        /\ Deps[d] \cap ({u} \cup S) # {}
        /\ Doomed(Skip(ts, S), d)
        => d \in S

SkippedBy_Slip(ts, u) == {d \in Blocked(ts) : u \in Deps[d] /\ Doomed(ts, d)}

\* The tasks the recursion of _evaluate_dependents skips: the least closed set.
SkippedBy(ts, u) ==
    {d \in Blocked(ts) :
        \A S \in SUBSET Blocked(ts) : SkipClosed(ts, u, S) => d \in S}

EvaluateDependents_Slip(ts, u) ==
    [d \in Tasks |->
        IF ts[d] = "blocked" /\ u \in Deps[d] /\ AllTerminal(ts, d)
        THEN "queued" ELSE ts[d]]

\* _evaluate_dependents(u): the statuses once every dependent reached from u
\* has been skipped, queued or left blocked.
EvaluateDependents(ts, u) ==
    LET S   == SkippedBy(ts, u)
        mid == Skip(ts, S)
    IN [d \in Tasks |->
            IF /\ mid[d] = "blocked"
               /\ Deps[d] \cap ({u} \cup S) # {}
               /\ Ready(mid, d)
            THEN "queued"
            ELSE mid[d]]

DescendantClosed(u, S) ==
    \A d \in Tasks : Deps[d] \cap ({u} \cup S) # {} => d \in S

Descendants(u) ==
    {d \in Tasks : \A S \in SUBSET Tasks : DescendantClosed(u, S) => d \in S}

\* _reset_skipped_descendants(u).
ResetSkipped(ts, u) ==
    [d \in Tasks |-> IF ts[d] = "skipped" /\ d \in Descendants(u)
                     THEN "blocked" ELSE ts[d]]
=============================================================================
