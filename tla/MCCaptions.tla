----------------------------- MODULE MCCaptions -----------------------------
(* One video in the queues of two slots, of two runs. *)
EXTENDS Captions

OneVideo == [s \in Slots |-> <<"v1">>]
TwoVideos == [s \in Slots |-> <<"v1", "v2">>]
=============================================================================
