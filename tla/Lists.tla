------------------------------- MODULE Lists -------------------------------
(***************************************************************************)
(* What a list comprehension with a condition makes of a list, with the    *)
(* condition as the set of the elements that meet it, and what sum() makes *)
(* of one.                                                                 *)
(***************************************************************************)
EXTENDS Integers, Sequences

Kept(s, S) ==
    LET kept[n \in 0..Len(s)] ==
            IF n = 0 THEN <<>>
            ELSE IF s[n] \in S THEN Append(kept[n - 1], s[n]) ELSE kept[n - 1]
    IN  kept[Len(s)]

\* the sum of f[1], ..., f[n]
SumTo(f, n) ==
    LET sum[k \in 0..n] == IF k = 0 THEN 0 ELSE sum[k - 1] + f[k]
    IN  sum[n]
=============================================================================
