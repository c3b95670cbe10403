--------------------------- MODULE DependencyWalk ---------------------------
(***************************************************************************)
(* The dependency evaluation as the code performs it, a depth-first walk   *)
(* over the dependents in whatever order the database returns them, run    *)
(* over every workflow graph of Size tasks and compared with the set-based *)
(* definition that the runtime model and the proofs use.                   *)
(***************************************************************************)
EXTENDS Integers, Sequences, FiniteSets, SequencesExt, RunContracts

CONSTANT Size   \* bound: the number of tasks of a graph

VARIABLES deps, fanIn, ts   \* the graph, and the statuses of its tasks

Nodes == 1..Size

Graph == INSTANCE TaskGraph WITH
    Tasks <- Nodes, Deps <- deps, FanIn <- fanIn,
    MinSuccess <- [n \in Nodes |-> 1],
    Auditor <- {2}, Publisher <- {Size}

Dependents(u) == {d \in Nodes : u \in deps[d]}

\* The query for downstream ids has no order: rows come back either way round.
Rows(S, up) == IF up THEN SetToSortSeq(S, <) ELSE SetToSortSeq(S, >)

\* One downstream of the loop in _evaluate_dependents, and the loop itself.
RECURSIVE Visit(_, _, _), Walk(_, _, _)
Visit(st, d, up) ==
    IF st[d] # "blocked" THEN st
    ELSE IF Graph!Ready(st, d) THEN [st EXCEPT ![d] = "queued"]
    ELSE IF Graph!Doomed(st, d)
    THEN Walk([st EXCEPT ![d] = "skipped"], Rows(Dependents(d), up), up)
    ELSE st
Walk(st, rows, up) ==
    IF rows = <<>> THEN st ELSE Walk(Visit(st, Head(rows), up), Tail(rows), up)

Walked(st, u, up) == Walk(st, Rows(Dependents(u), up), up)

\* The breadth-first loop of _reset_skipped_descendants.
RECURSIVE ResetWalk(_, _, _)
ResetWalk(st, pending, visited) ==
    IF pending = <<>> THEN st
    ELSE LET new == Dependents(Head(pending)) \ visited
         IN ResetWalk([d \in Nodes |-> IF d \in new /\ st[d] = "skipped"
                                       THEN "blocked" ELSE st[d]],
                      Tail(pending) \o SetToSeq(new),
                      visited \cup new)

Init ==
    /\ deps \in {f \in [Nodes -> SUBSET Nodes] : \A n \in Nodes : f[n] \subseteq 1..(n - 1)}
    /\ fanIn \in SUBSET {n \in Nodes : deps[n] # {}}
    /\ ts = [n \in Nodes |-> IF deps[n] = {} THEN "queued" ELSE "blocked"]

\* A task ends and its dependents are evaluated.
End(u, status) ==
    /\ ts[u] = "queued"
    /\ ts' = Walked([ts EXCEPT ![u] = status], u, TRUE)
    /\ UNCHANGED <<deps, fanIn>>

\* A failed task is retried by hand.
Retry(u) ==
    /\ ts[u] = "failed"
    /\ ts' = ResetWalk([ts EXCEPT ![u] = "queued"], <<u>>, {})
    /\ UNCHANGED <<deps, fanIn>>

Next == \E u \in Nodes : \/ \E status \in {"succeeded", "failed"} : End(u, status)
                         \/ Retry(u)

Spec == Init /\ [][Next]_<<deps, fanIn, ts>>

EvaluationAgrees ==
    \A u \in Nodes, status \in {"succeeded", "failed"}, up \in BOOLEAN :
        ts[u] = "queued" =>
            LET ended == [ts EXCEPT ![u] = status]
            IN Walked(ended, u, up) = Graph!EvaluateDependents(ended, u)

ResetAgrees ==
    \A u \in Nodes : ts[u] = "failed" =>
        LET queued == [ts EXCEPT ![u] = "queued"]
        IN ResetWalk(queued, <<u>>, {}) = Graph!ResetSkipped(queued, u)

\* Whenever a task ends, in whatever order its dependents are visited, the
\* walk of _evaluate_dependents leaves the statuses EvaluateDependents gives;
\* and _reset_skipped_descendants reopens exactly the skipped tasks that
\* ResetSkipped names, however far below the retried task they are.
WalksAgree == EvaluationAgrees /\ ResetAgrees
=============================================================================
