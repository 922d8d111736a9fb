------------------------------- MODULE Filters -------------------------------
(***************************************************************************)
(* The filter method of arrays: what SelectSeq does, with the set of the   *)
(* values that stay for its test, as a function on the prefixes of the     *)
(* sequence that proofs can unfold.                                        *)
(***************************************************************************)
EXTENDS Naturals, Sequences

\* The elements of s that are in keep, in their order.
Filter(s, keep) ==
    LET filtered[n \in 0..Len(s)] ==
            IF n = 0 THEN <<>>
            ELSE IF s[n] \in keep THEN Append(filtered[n - 1], s[n])
            ELSE filtered[n - 1]
    IN filtered[Len(s)]
=============================================================================
