---------------------------------- MODULE Lists ----------------------------------
(* Lists that are built by a loop over another one. *)
EXTENDS Naturals, Sequences

\* The elements of s at the places of ok, in their order, as a loop with push_back collects them.
\* (SelectSeq is the same of a test; provers have no fact about it.)
Picked(s, ok) ==
  LET got[i \in 0 .. Len(s)] ==
        IF i = 0 THEN <<>> ELSE IF i \in ok THEN Append(got[i - 1], s[i]) ELSE got[i - 1]
  IN got[Len(s)]
=============================================================================
