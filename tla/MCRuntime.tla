----------------------------- MODULE MCRuntime ------------------------------
(***************************************************************************)
(* A small analysis workflow with the shape of the default one: a product  *)
(* gate, two source analyses, a re-audit over the sources that succeeded,  *)
(* and a publisher that needs the re-audit.                                *)
(***************************************************************************)
EXTENDS Runtime

MCTasks == {"gate", "source1", "source2", "audit", "publish"}

MCDeps == [t \in MCTasks |->
    CASE t = "gate"                     -> {}
      [] t \in {"source1", "source2"}   -> {"gate"}
      [] t = "audit"                    -> {"source1", "source2"}
      [] t = "publish"                  -> {"audit", "source1", "source2"}]

MCFanIn == {"audit", "publish"}
MCMinSuccess == [t \in MCTasks |-> 1]
MCMaxAttempts == [t \in MCTasks |-> IF t = "source1" THEN 2 ELSE 1]

(* The last stage alone: the re-audit, retried once, and the publisher. *)

StageTasks == {"audit", "publish"}
StageDeps == [t \in StageTasks |-> IF t = "publish" THEN {"audit"} ELSE {}]
StageFanIn == {"publish"}
StageMinSuccess == [t \in StageTasks |-> 1]
StageMaxAttempts == [t \in StageTasks |-> IF t = "audit" THEN 2 ELSE 1]

(* The gate and the publisher. *)

PairTasks == {"gate", "publish"}
PairDeps == [t \in PairTasks |-> IF t = "publish" THEN {"gate"} ELSE {}]
PairFanIn == {}
PairMinSuccess == [t \in PairTasks |-> 0]
PairMaxAttempts == [t \in PairTasks |-> 1]

(* Two sources, the consensus over them, and what follows the consensus. *)

FanTasks == {"source1", "source2", "consensus", "audit"}
FanDeps == [t \in FanTasks |->
    CASE t \in {"source1", "source2"} -> {}
      [] t = "consensus"              -> {"source1", "source2"}
      [] t = "audit"                  -> {"consensus"}]
FanFanIn == {"consensus"}
FanMinSuccess == [t \in FanTasks |-> 1]
FanMaxAttempts == [t \in FanTasks |-> 1]

ASSUME InstancesAreShaped == GateSeparates /\ Attainable
=============================================================================
