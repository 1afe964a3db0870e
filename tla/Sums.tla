-------------------------------- MODULE Sums --------------------------------
(* Sums of numbers given by a function.                                    *)
EXTENDS Integers, FiniteSets, FiniteSetsExt

SumOf(f, S) == MapThenSumSet(LAMBDA x : f[x], S)
=============================================================================
