-------------------------------- MODULE Sums --------------------------------
(***************************************************************************)
(* The sum of a list of numbers, as a recursive function.                  *)
(***************************************************************************)
EXTENDS Integers, Sequences

SumOf(amounts) ==
  LET sum[k \in 0 .. Len(amounts)] == IF k = 0 THEN 0 ELSE sum[k - 1] + amounts[k]
  IN sum[Len(amounts)]
=============================================================================
