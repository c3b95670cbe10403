------------------------------ MODULE MCStream ------------------------------
(***************************************************************************)
(* ProgressStream in two scenarios, chosen once.  In "reads" a browser     *)
(* follows the run while one relay publishes, and Redis and the connection *)
(* fail; in "publishes" two relays fill the stream and nobody reads.       *)
(***************************************************************************)
EXTENDS ProgressStream

ASSUME ProgressAssumption

VARIABLES scenario

Reads ==
    \/ Run
    \/ \E n \in Event : ClaimNext("r1", n)
    \/ Publish("r1")
    \/ LoseEntries
    \/ \E b \in Browsers : Stream(b) \/ Disconnect(b) \/ Poll(b)

Publishes ==
    \/ Run
    \/ \E r \in Relays : \E n \in Event : ClaimNext(r, n)
    \/ \E r \in Relays : Publish(r) \/ RelayDies(r)

MCInit == scenario \in {"reads", "publishes"} /\ Init

MCNext == /\ \/ scenario = "reads" /\ Reads
             \/ scenario = "publishes" /\ Publishes
          /\ UNCHANGED scenario

Claims(n) == \/ scenario = "reads" /\ ClaimNext("r1", n)
             \/ scenario = "publishes" /\ \E r \in Relays : ClaimNext(r, n)

\* The fairness of ProgressStream for what moves.
MCFairSpec ==
    /\ MCInit /\ [][MCNext]_<<scenario, vars>>
    /\ \A r \in Relays : WF_vars(Publish(r))
    /\ \A n \in Event : SF_vars(Claims(n))
    /\ \A b \in Browsers : WF_vars(scenario = "reads" /\ Stream(b))

\* The connection of a run that has ended closes, where a browser follows it
\* (analysis_events).
FollowedStreamCloses == scenario = "reads" => StreamCloses
=============================================================================
