-------------------------------- MODULE Lists --------------------------------
(***************************************************************************)
(* Two ways to go through a list: Vec::retain and the sum of the lengths.  *)
(***************************************************************************)
EXTENDS Naturals, Sequences

\* The elements of s that are in K, in their order (Vec::retain).
Keep(s, K) ==
    LET kept[n \in 0..Len(s)] ==
            IF n = 0 THEN <<>>
            ELSE IF s[n] \in K THEN Append(kept[n - 1], s[n]) ELSE kept[n - 1]
    IN  kept[Len(s)]

\* The sum of a sequence of numbers.
SumOf(s) ==
    LET sum[n \in 0..Len(s)] == IF n = 0 THEN 0 ELSE sum[n - 1] + s[n]
    IN  sum[Len(s)]
=============================================================================
