----------------------------- MODULE Knowledge -----------------------------
(***************************************************************************)
(* The knowledge graph of one workspace: versions of nodes, whose bodies   *)
(* are Markdown files beside the database rows, relations between them,    *)
(* the periodic reconciliation of files and rows, and the rebuild of the   *)
(* Neo4j projection.                                                       *)
(*                                                                         *)
(* A file is written inside the transaction that creates its row and is    *)
(* not undone with it.  What keeps rows, files and projection together is  *)
(* the lock of the workspace row, which create_relation does not take.     *)
(* Operators named _Slip: see module Runtime.                              *)
(***************************************************************************)
EXTENDS Integers, FiniteSets

CONSTANTS
    Writers,      \* transactions of graph.create_nodes and the knowledge API
    Nodes,        \* node ids
    Immutable,    \* nodes of a type that has no second version
    MaxVersions,  \* bound: versions of a node
    MaxLinks,     \* bound: relations added by create_relation
    Faults        \* subset of {"disk", "neo4j"}: damaged files, failing rebuilds

KnowledgeAssumption ==
    /\ {"free", "rebuild", "none", "damaged"} \cap Writers = {}
    /\ Immutable \subseteq Nodes
    /\ MaxVersions \in Nat \ {0}
    /\ MaxLinks \in Nat
    /\ Faults \subseteq {"disk", "neo4j"}

VARIABLES
    lock,       \* who holds the lock of the workspace row, or "free"
    current,    \* committed: number of the current version, 0 before the node exists
    author,     \* committed: body_hash of a version, as the writer of its draft
    file,       \* what the file of a version holds: a draft, "none" or "damaged"
    node,       \* ContextNode.status
    workspace,  \* Workspace.status
    written,    \* versions in the open transaction of each writer
    edges,      \* committed ContextEdge rows
    linking,    \* relations whose endpoints were checked and that are not inserted yet
    published,  \* ProjectionOutbox: versions and edges whose Neo4j row is published;
                \* the row of any other committed one is pending
    graph,      \* Neo4j: versions, edges and the current version of each node;
                \* whole unless a rebuild failed since the last one that succeeded
    rebuild     \* the rebuild under way: its stage and what it has read

vars == <<lock, current, author, file, node, workspace, written, edges, linking,
          published, graph, rebuild>>
rows == <<current, author, edges>>
projection == <<published, graph, rebuild>>

Versions == Nodes \X (1..MaxVersions)
Edges == [source : Versions, target : Versions]
Committed == {x \in Versions : x[2] =< current[x[1]]}
NoRebuild == [stage |-> "idle", versions |-> {}, heads |-> [n \in Nodes |-> 0], edges |-> {}]
Drafts == Writers \cup {"none", "damaged"}

TypeOK ==
    /\ lock \in Writers \cup {"free", "rebuild"}
    /\ current \in [Nodes -> 0..MaxVersions]
    /\ author \in [Versions -> Writers \cup {"none"}]
    /\ file \in [Versions -> Drafts]
    /\ node \in [Nodes -> {"active", "quarantined"}]
    /\ workspace \in {"active", "degraded"}
    /\ written \in [Writers -> SUBSET Versions]
    /\ edges \subseteq Edges
    /\ linking \subseteq Edges
    /\ published \in [versions : SUBSET Versions, edges : SUBSET Edges]
    /\ graph \in [versions : SUBSET Versions, edges : SUBSET Edges,
                  heads : [Nodes -> 0..MaxVersions], whole : BOOLEAN]
    /\ rebuild \in [stage : {"idle", "nodes", "edges", "write", "mark"},
                    versions : SUBSET Versions, heads : [Nodes -> 0..MaxVersions],
                    edges : SUBSET Edges]

Init ==
    /\ lock = "free"
    /\ current = [n \in Nodes |-> 0]
    /\ author = [x \in Versions |-> "none"]
    /\ file = [x \in Versions |-> "none"]
    /\ node = [n \in Nodes |-> "active"]
    /\ workspace = "active"
    /\ written = [w \in Writers |-> {}]
    /\ edges = {}
    /\ linking = {}
    /\ published = [versions |-> {}, edges |-> {}]
    /\ graph = [versions |-> {}, edges |-> {}, heads |-> [n \in Nodes |-> 0], whole |-> TRUE]
    /\ rebuild = NoRebuild

(* create_node, and create_node_version of a node that exists, up to the   *)
(* flush: the workspace row is locked until the transaction ends, and the  *)
(* file is in place (os.replace).  A node joins at most once a transaction *)
(* here; a transaction may create several (graph.create_nodes).            *)
Writable(n) ==
    \/ current[n] = 0
    \/ node[n] = "active" /\ n \notin Immutable /\ current[n] < MaxVersions
Written(w, n) ==
    LET x == <<n, current[n] + 1>> IN
    /\ Writable(n)
    /\ x \notin written[w]
    /\ file' = [file EXCEPT ![x] = w]
    /\ written' = [written EXCEPT ![w] = @ \cup {x}]
Write(w, n) ==
    /\ lock \in {"free", w}
    /\ lock' = w
    /\ Written(w, n)
    /\ UNCHANGED <<rows, node, workspace, linking, projection>>

(* The commit of the caller: rows, lineage edges and projection rows. *)
Lineage(x) == [source |-> x, target |-> <<x[1], x[2] - 1>>]
Unlocked(w) == lock' = IF lock = w THEN "free" ELSE lock
Commit(w) ==
    /\ written[w] # {}
    /\ current' = [n \in Nodes |->
           IF \E x \in written[w] : x[1] = n THEN current[n] + 1 ELSE current[n]]
    /\ author' = [x \in Versions |-> IF x \in written[w] THEN w ELSE author[x]]
    /\ edges' = edges \cup {Lineage(x) : x \in {y \in written[w] : y[2] > 1}}
    /\ written' = [written EXCEPT ![w] = {}]
    /\ Unlocked(w)
    /\ UNCHANGED <<file, node, workspace, linking, projection>>

(* An error of the caller, of a later node, or the death of the process. *)
RollBack(w) ==
    /\ written[w] # {}
    /\ written' = [written EXCEPT ![w] = {}]
    /\ Unlocked(w)
    /\ UNCHANGED <<rows, file, node, workspace, linking, projection>>

(* create_relation up to its lookups: both endpoints are current.  The     *)
(* relation type and its idempotency key are left out; lineage has its own *)
(* operation.                                                              *)
CheckLink(m, n) ==
    LET e == [source |-> <<m, current[m]>>, target |-> <<n, current[n]>>] IN
    /\ m # n /\ current[m] > 0 /\ current[n] > 0
    /\ Cardinality(linking \cup {d \in edges : d.source[1] # d.target[1]}) < MaxLinks
    /\ e \notin edges \cup linking
    /\ linking' = linking \cup {e}
    /\ UNCHANGED <<lock, rows, file, node, workspace, written, projection>>

(* Its insert and commit.  The foreign key waits for a FOR UPDATE lock of  *)
(* the workspace row, not for the UPDATE of a rebuild.                     *)
InsertLink(e) ==
    /\ e \in linking
    /\ lock \in {"free", "rebuild"}
    /\ edges' = edges \cup {e}
    /\ linking' = linking \ {e}
    /\ UNCHANGED <<lock, current, author, file, node, workspace, written, projection>>

(* reconcile_workspace, under the lock.  A version whose file is missing   *)
(* or does not match quarantines its node for good; a file without a       *)
(* version is moved away.                                                  *)
Bad == {x \in Committed : file[x] # author[x]}
Reconcile ==
    /\ lock = "free"
    /\ node' = [n \in Nodes |-> IF \E x \in Bad : x[1] = n THEN "quarantined" ELSE node[n]]
    /\ file' = [x \in Versions |-> IF x \in Committed THEN file[x] ELSE "none"]
    /\ workspace' = IF Bad = {} THEN "active" ELSE "degraded"
    /\ UNCHANGED <<lock, rows, written, linking, projection>>

(* rebuild_neo4j_projection: the flush of neo4j_status locks the row. *)
StartRebuild_Slip ==
    /\ rebuild.stage = "idle"
    /\ rebuild' = [rebuild EXCEPT !.stage = "nodes"]
    /\ UNCHANGED <<lock, rows, file, node, workspace, written, linking, published, graph>>
StartRebuild ==
    /\ rebuild.stage = "idle"
    /\ lock = "free"
    /\ lock' = "rebuild"
    /\ rebuild' = [rebuild EXCEPT !.stage = "nodes"]
    /\ UNCHANGED <<rows, file, node, workspace, written, linking, published, graph>>

\* Each statement reads what is committed by then.
ReadNodes ==
    /\ rebuild.stage = "nodes"
    /\ rebuild' = [rebuild EXCEPT !.stage = "edges", !.versions = Committed, !.heads = current]
    /\ UNCHANGED <<lock, rows, file, node, workspace, written, linking, published, graph>>
ReadEdges ==
    /\ rebuild.stage = "edges"
    /\ rebuild' = [rebuild EXCEPT !.stage = "write", !.edges = edges]
    /\ UNCHANGED <<lock, rows, file, node, workspace, written, linking, published, graph>>

\* Wipe, nodes, then the edges whose ends both matched.
WriteGraph ==
    /\ rebuild.stage = "write"
    /\ graph' = [versions |-> rebuild.versions, heads |-> rebuild.heads, whole |-> TRUE,
                 edges |-> {e \in rebuild.edges : {e.source, e.target} \subseteq rebuild.versions}]
    /\ rebuild' = [rebuild EXCEPT !.stage = "mark"]
    /\ UNCHANGED <<lock, rows, file, node, workspace, written, linking, published>>

\* What a failure writes to the database is rolled back by the exception it
\* raises; the graph stays wiped or half written.
FailRebuild ==
    /\ "neo4j" \in Faults /\ rebuild.stage = "write"
    /\ graph' = [versions |-> {}, edges |-> {}, heads |-> [n \in Nodes |-> 0], whole |-> FALSE]
    /\ rebuild' = NoRebuild
    /\ Unlocked("rebuild")
    /\ UNCHANGED <<rows, file, node, workspace, written, linking, published>>

(* _mark_outbox and the commit: every row that is there by now. *)
MarkPublished ==
    /\ rebuild.stage = "mark"
    /\ published' = [versions |-> Committed, edges |-> edges]
    /\ rebuild' = NoRebuild
    /\ Unlocked("rebuild")
    /\ UNCHANGED <<rows, file, node, workspace, written, linking, graph>>

Damage(x) ==
    /\ "disk" \in Faults
    /\ file[x] \in Writers
    /\ file' = [file EXCEPT ![x] = "damaged"]
    /\ UNCHANGED <<lock, rows, node, workspace, written, linking, projection>>

Next ==
    \/ \E w \in Writers : (\E n \in Nodes : Write(w, n)) \/ Commit(w) \/ RollBack(w)
    \/ \E m, n \in Nodes : CheckLink(m, n)
    \/ \E e \in linking : InsertLink(e)
    \/ Reconcile
    \/ StartRebuild \/ ReadNodes \/ ReadEdges \/ WriteGraph \/ FailRebuild \/ MarkPublished
    \/ \E x \in Versions : Damage(x)

Spec == Init /\ [][Next]_vars

-----------------------------------------------------------------------------

(* Every version a transaction committed can be read with the body it was  *)
(* created with (read_version_body), and only a damaged file quarantines a *)
(* node: the files of open, rolled back and repeated transactions, and the *)
(* reconciliation between their steps, never harm a committed version.     *)
Damaged == {x \in Committed : file[x] = "damaged"}
BodiesAvailable ==
    /\ Bad = Damaged
    /\ \A n \in Nodes : node[n] = "quarantined" => \E x \in Damaged : x[1] = n

(* What the outbox calls published is in the projection, with the versions *)
(* that were current then, unless a rebuild failed later: no version is    *)
(* committed between the reads of a rebuild and its mark.  Relations       *)
(* inserted in between are excepted (rebuild_neo4j_projection,             *)
(* _mark_outbox, create_relation).                                         *)
PublishedIsProjected ==
    graph.whole =>
        /\ published.versions \subseteq graph.versions
        /\ {Lineage(x) : x \in {y \in published.versions : y[2] > 1}} \subseteq graph.edges
        /\ \A n \in Nodes :
               <<n, current[n]>> \in published.versions => graph.heads[n] = current[n]
=============================================================================
