--------------------------------- MODULE Lists ---------------------------------
(***************************************************************************)
(* A helper on sequences, as a recursive function that can be proved about.*)
(***************************************************************************)
EXTENDS Integers, Sequences

\* The sequence without what is not in the set.
Keep(s, S) ==
  LET kept[i \in 0 .. Len(s)] ==
        IF i = 0 THEN <<>>
        ELSE IF s[i] \in S THEN Append(kept[i - 1], s[i]) ELSE kept[i - 1]
  IN kept[Len(s)]
===============================================================================
