-------------------------------- MODULE Sums --------------------------------
(***************************************************************************)
(* The sums of a list of amounts, which the contract adds up in several    *)
(* loops.  Recursive functions, about which facts can be proved            *)
(* (SumProofs).                                                            *)
(***************************************************************************)
EXTENDS Integers, Sequences

\* The sum of the first i amounts, and of all of them.
SumOf(amounts) ==
    LET sum[i \in 0..Len(amounts)] == IF i = 0 THEN 0 ELSE sum[i - 1] + amounts[i]
    IN  sum
Total(amounts) == SumOf(amounts)[Len(amounts)]
=============================================================================
