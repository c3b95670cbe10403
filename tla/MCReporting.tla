---------------------------- MODULE MCReporting -----------------------------
(***************************************************************************)
(* A source with one claim and one with two; the third finding rests on    *)
(* both of these and says more than they do.                               *)
(***************************************************************************)
EXTENDS Reporting

TwoSources == << <<"a">>, <<"b", "c">> >>
TheirClaims ==
    [f \in Findings |-> CASE f = "f" -> {"a"} [] f = "g" -> {"c"} [] f = "h" -> {"b", "c"}]
=============================================================================
