------------------------------ MODULE MCTools -------------------------------
(* A search with two requests and a call of another attempt share one slot *)
(* of their tool and a quota of two units.                                 *)
EXTENDS ToolCalls

CallOfAttempt == [c \in Calls |-> IF c = "other" THEN "a2" ELSE "a1"]
OneSlot == [c \in Calls |-> "run.search"]
OwnKey == [c \in Calls |-> c]
TwoRequests == [c \in Calls |-> IF c = "search" THEN 2 ELSE 1]
OneBucket == [c \in Calls |-> "search"]
=============================================================================
