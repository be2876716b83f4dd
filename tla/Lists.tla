------------------------------- MODULE Lists --------------------------------
(***************************************************************************)
(* The sequence that is left of a list when elements are unlinked.         *)
(***************************************************************************)
EXTENDS Naturals, Sequences

\* s without the elements that are in X, in the same order.
Dropped(s, X) ==
    LET f[i \in 0 .. Len(s)] ==
            IF i = 0 THEN <<>>
            ELSE IF s[i] \in X THEN f[i - 1] ELSE Append(f[i - 1], s[i])
    IN f[Len(s)]
=============================================================================
