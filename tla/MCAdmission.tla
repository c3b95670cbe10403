---------------------------- MODULE MCAdmission -----------------------------
(***************************************************************************)
(* Two requests of one session, the second of which may repeat the first,  *)
(* reuse its key for something else or have a key of its own, and a        *)
(* request of another session at the same address.                         *)
(***************************************************************************)
EXTENDS Admission

MCRequests == {"first", "second", "neighbour"}
MCSessionOf == [r \in MCRequests |-> IF r = "neighbour" THEN "s2" ELSE "s1"]
MCAddressOf == [r \in MCRequests |-> "ip"]

Ask(key, hash) == [key |-> key, hash |-> hash]
MCMayAsk == [r \in MCRequests |->
    IF r = "second" THEN {Ask("k1", 1), Ask("k1", 2), Ask("k2", 1)} ELSE {Ask("k1", 1)}]
=============================================================================
