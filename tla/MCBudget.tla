------------------------------ MODULE MCBudget ------------------------------
(***************************************************************************)
(* A public run around midnight: two calls of tasks of one capped agent    *)
(* estimate two units and use less or more, the cap leaves room for one    *)
(* call in flight, and an answer may cost more than a day.                 *)
(***************************************************************************)
EXTENDS Budget

Units(k) == [r \in Resources |-> k]

OneRun == [c \in Calls |-> "run"]
MCEstimate == [c \in Calls |-> Units(2)]

PublicUsages == {Units(1), Units(4)}
WideMax == [r \in Runs |-> Units(9)]
AgentCap == [c \in Calls |-> {"agent"}]

ThreeEach == [c \in Caps |-> Units(3)]
ThreePerDay == [r \in PublicRuns |-> 3]
AnyMax == Units(9)
=============================================================================
