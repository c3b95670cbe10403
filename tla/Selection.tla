----------------------------- MODULE Selection ------------------------------
(***************************************************************************)
(* The comprehension [x for x in s if x in S] of the code, by recursion    *)
(* over the sequence: SelectSeq of the standard modules has no definition  *)
(* the provers could expand.                                               *)
(***************************************************************************)
EXTENDS Integers, Sequences

Select(s, S) ==
    LET Chosen[n \in 0..Len(s)] ==
            IF n = 0 THEN <<>>
            ELSE IF s[n] \in S THEN Append(Chosen[n - 1], s[n]) ELSE Chosen[n - 1]
    IN Chosen[Len(s)]
=============================================================================
